------------------------------ MODULE MCCecBus ------------------------------
(* A small instance of CecBus. *)
EXTENDS CecBus

\* The second device is powered up when the poll of the first one is over: it
\* begins at 12 ms, when the line has been free for long enough, and takes 28.
MCMoments == {40100}
\* A short and a long bit are told apart as long as their edges are seen less
\* than 200 microseconds too late, both ends taken together.
MCLateness == {100}
MCFrameSizes == {0, 1}
=============================================================================
