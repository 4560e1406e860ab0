----------------------------- MODULE MCCecEngine -----------------------------
(* A small instance of CecEngine. *)
EXTENDS CecEngine

\* One time inside each window that a handler tests, and one in none.
MCElapsed == {100, 600, 1500, 2400, 3700, 4500}
\* The first candidate of a TV, another device and all of them.
MCDestinations == {0, 3, BROADCAST}
MCFrameSizes == 0..2

\* The same for an audio system, whose only candidate is 5, with a host that
\* sends frames of one size: small enough for the liveness properties.
MCDestinationsAudio == {3, 5, BROADCAST}
MCOneFrameSize == {1}
=============================================================================
