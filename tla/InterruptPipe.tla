---------------------------- MODULE InterruptPipe ----------------------------
(***************************************************************************)
(* What the interrupt endpoint promises to HIDSerial::write and to the     *)
(* host: the pieces of the CEC frames arrive one by one, in order, none    *)
(* twice and none lost, and none is given away before the one before it    *)
(* has been taken.  Pieces are numbered modulo Chunks.                     *)
(***************************************************************************)
EXTENDS Naturals

CONSTANT Chunks

VARIABLES
    written,    \* the number of the last piece written
    taken       \* the number of the last piece the host has taken

Init == written = 0 /\ taken = 0

Write ==
    /\ written = taken
    /\ written' = (written + 1) % Chunks
    /\ UNCHANGED taken

Take ==
    /\ taken # written
    /\ taken' = (taken + 1) % Chunks
    /\ UNCHANGED written

Next == Write \/ Take

Spec == Init /\ [][Next]_<<written, taken>>
=============================================================================
