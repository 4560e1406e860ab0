---------------------------- MODULE FrameService ----------------------------
(***************************************************************************)
(* What the transmit side of a CEC device promises to whoever hands it a   *)
(* frame, the sketch or the address allocation.  The frame waits until the *)
(* line is free and is sent block by block.  After each block the line is  *)
(* asked for the answer, and only the answer decides: the next block is    *)
(* begun when this one is acknowledged, and the frame is done when its     *)
(* last one is (a frame of one block is a poll: no answer ends it too).    *)
(* A try that fails, by a collision or an answer that does not come, puts  *)
(* the frame back to be sent again from its first block; it is given up    *)
(* after MaxTries such tries and never before.  A reception that comes     *)
(* first (Yield) does not cost the frame, and its tries count afresh.      *)
(***************************************************************************)
EXTENDS Naturals

CONSTANTS
    Frames,     \* the frames there are: a destination and a number of blocks
    Nothing,    \* stands for no frame
    MaxTries    \* tries after which a frame is given up

VARIABLES
    stage,      \* "empty", "waiting", "sending" a block or "asking" for its answer
    frame,      \* the frame in service, or Nothing
    tries,      \* how often it has been put back since it last began to wait
    blocks,     \* how many of its blocks have been acknowledged in this try
    answer      \* while asking, whether the line says that the block is acknowledged

Size(f) == f[2]
Polls == {f \in Frames : Size(f) = 1}

Init == stage = "empty" /\ frame = Nothing /\ tries = 0 /\ blocks = 0 /\ answer = FALSE

Waits(f, n) == stage' = "waiting" /\ frame' = f /\ tries' = n /\ blocks' = 0
Leaves == stage' = "empty" /\ frame' = Nothing /\ tries' = 0 /\ blocks' = 0

Accept == stage = "empty" /\ \E f \in Frames : Waits(f, 0)

Yield == stage = "waiting" /\ Waits(frame, 0)

Start ==
    /\ stage = "waiting"
    /\ stage' = "sending" /\ UNCHANGED <<frame, tries, blocks>>

\* The block is out.
Ask ==
    /\ stage = "sending"
    /\ stage' = "asking" /\ UNCHANGED <<frame, tries, blocks>>

\* The line moves before the answer is taken.
Hear ==
    /\ stage = "asking"
    /\ UNCHANGED <<stage, frame, tries, blocks>>

LastBlock == blocks + 1 = Size(frame)

NextBlock ==
    /\ stage = "asking" /\ answer /\ ~LastBlock
    /\ stage' = "sending" /\ blocks' = blocks + 1 /\ UNCHANGED <<frame, tries>>

\* The whole frame has been sent.
Finish ==
    /\ stage = "asking" /\ LastBlock /\ (answer \/ frame \in Polls)
    /\ Leaves

\* The answer to a poll hands over the poll of the next candidate.
PollNext ==
    /\ stage = "asking" /\ answer /\ frame \in Polls
    /\ \E f \in Polls \ {frame} : Waits(f, 0)

\* A collision inside the block, or an acknowledge that does not come.
Fails ==
    \/ stage = "sending"
    \/ stage = "asking" /\ ~answer /\ frame \notin Polls

Again == Fails /\ tries + 1 < MaxTries /\ Waits(frame, tries + 1)

GiveUp == Fails /\ tries + 1 = MaxTries /\ Leaves

\* What the line answers is not the device's to choose.
Listens == answer' \in (IF stage' = "asking" THEN BOOLEAN ELSE {FALSE})

Next ==
    /\ \/ Accept \/ Yield \/ Start \/ Ask \/ Hear
       \/ NextBlock \/ Finish \/ PollNext \/ Again \/ GiveUp
    /\ Listens

Spec == Init /\ [][Next]_<<stage, frame, tries, blocks, answer>>
=============================================================================
