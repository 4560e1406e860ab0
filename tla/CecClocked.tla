----------------------------- MODULE CecClocked -----------------------------
(***************************************************************************)
(* CecEngine with a clock: one CEC_Device that measures real microseconds. *)
(* Where CecEngine lets a handler find any elapsed time and lets any       *)
(* wake-up time have passed, both are here what the time stamps say.  A    *)
(* stamp is kept as its age and _waitTime as the time left until it, so    *)
(* the state does not grow with time; ages stop counting where no test of  *)
(* the code can tell them apart any more.                                  *)
(*                                                                         *)
(* The header block has its real bits here: they decide which of two       *)
(* initiators keeps the line, and a receiver knows the destination only by *)
(* the pulses it has measured.                                             *)
(***************************************************************************)
EXTENDS CecEngine

CONSTANT Lateness   \* how long, in microseconds, loop() may be away from Run

VARIABLES
    sinceBit,       \* the age of _bitStartTime
    sinceChange,    \* the age of _lastStateChangeTime
    wake,           \* the time left until _waitTime, or NoTime
    away,           \* the time loop() or User_SetLineState still takes, or NoTime
    heard           \* the last four bits received of a header block

NoTime == -1
BitAges == 5000             \* the longest window tested ends at 4700
ChangeAges == 7 * 2400      \* the longest idle time needed
SettleTime == 50            \* the delay of User_SetLineState

AtMost(n, limit) == IF n < limit THEN n ELSE limit
Left(time, age) == IF time > age THEN time - age ELSE 0
Rest(left, time) == IF left = NoTime THEN NoTime ELSE Left(left, time)

-----------------------------------------------------------------------------
(* The stamps and the wake-up time after a call of Process.                *)

\* Raise stamps the time at which it lets go of the line.
BitAge == IF "bit" \in dev'.stamps THEN 0 ELSE sinceBit
ChangeAge == IF "change" \notin dev'.stamps THEN sinceChange
             ELSE IF dev.out THEN 0 ELSE SettleTime

\* Lower stamps the time before User_SetLineState lets the line settle, and only
\* LineError reads micros() after it: its time counts from the settled line.
Lowering == IF dev'.out THEN 0 ELSE SettleTime

TimeLeft(deadline) ==
    CASE deadline.base = "never"  -> NoTime
      [] deadline.base = "zero"   -> 0
      [] deadline.base = "now"    -> deadline.plus + Lowering
      [] deadline.base = "bit"    -> Left(deadline.plus, BitAge)
      [] deadline.base = "change" -> Left(deadline.plus, ChangeAge)

-----------------------------------------------------------------------------
(* Process.                                                                *)

\* The header block is the address of the initiator and that of the follower;
\* a poll has the polled address for both.
Initiator(d) ==
    IF d.primaryState = "CEC_ALLOCATE_LOGICAL_ADDRESS" THEN d.txDest ELSE d.logicalAddress

\* Slip: the initiator is missing from the header.
HeaderBitAnonymous(d) == ((16 * CLA_UNREGISTERED + d.txDest) \div 2^d.txBit) % 2

HeaderBitAt(d, position) == ((16 * Initiator(d) + d.txDest) \div 2^position) % 2
HeaderBit(d) == HeaderBitAt(d, d.txBit)

TransmitBit(bit) ==
    /\ dev.txByte = 0 => bit = HeaderBit(dev)
    /\ TransmitFirstBit(bit) \/ TransmitDataBit2(bit)

\* Whether the free line has been free for long enough.
Waited == sinceChange >= NeededIdleTime(dev)

ReceiveAt(t) ==
    \/ ReceiveStartBit1(t) \/ ReceiveStartBit2(t)
    \/ ReceiveDataBit1(t) \/ ReceiveDataBit2(t)
    \/ ReceiveEndOfBlock(t, heard)
    \/ ReceiveAck1(t) \/ ReceiveAck2(t)
    \/ ReceiveAckSent \/ ReceiveLineError

TransmitNow ==
    \/ IdleWaitEdge \/ Collision
    \/ IdleWaitLow
    \/ ~Waited /\ IdleWaitMore
    \/ Waited /\ BeginFrame
    \/ TransmitStartBit1 \/ TransmitDataBit1
    \/ \E bit \in {0, 1} : TransmitBit(bit)
    \/ TransmitAck \/ TransmitAck2 \/ TransmitNotAcked \/ TransmitAcked

\* Slip: the nibbles of the header are not told apart.
HearsWholeHeader ==
    heard' = IF dev'.ePrimary # "RECEIVE" THEN 0
             ELSE IF dev.rxByte = 0 /\ dev'.rxBit # dev.rxBit
             THEN 2 * heard + (IF ShortPulse(sinceBit) THEN 1 ELSE 0)
             ELSE heard

\* The header bits that have gone into the receive buffer.
Hears ==
    heard' = IF dev'.ePrimary # "RECEIVE" THEN 0
             ELSE IF dev.rxByte = 0 /\ dev'.rxBit # dev.rxBit
             THEN (2 * heard + (IF ShortPulse(sinceBit) THEN 1 ELSE 0)) % 16
             ELSE heard

\* A call of Process that finds the line held by this device lets go of it, and
\* looks at it when it has had time to settle: only then the others decide
\* what comes of the call.
LetsGo ==
    /\ call # "none" /\ ~dev.out /\ away = NoTime
    /\ away' = SettleTime
    /\ UNCHANGED <<dev, call, sinceBit, sinceChange, wake, heard>>

\* Whether the output pin releases the line.
pin == dev.out \/ (call # "none" /\ away # NoTime)

\* Process looks at the line, once it has settled.
Looks == call # "none" /\ away = IF dev.out THEN NoTime ELSE 0

\* The return of -2 (AckEdge) keeps the wake-up time, whatever becomes of the
\* stamps.
ClockedProcess ==
    /\ \/ (Spurious \/ IdleEdge \/ ReceiveAt(sinceBit) \/ TransmitNow)
          /\ wake' = TimeLeft(dev'.waitTime)
       \/ AckEdge /\ UNCHANGED wake
    /\ sinceBit' = BitAge
    /\ sinceChange' = ChangeAge
    /\ Hears
    /\ Looks
    /\ away' = NoTime

-----------------------------------------------------------------------------
(* Run, and the passing of time.                                           *)

ClockedRun ==
    /\ away <= 0
    /\ IF wake = 0 THEN RunDue ELSE RunInterrupted \/ RunAsleep
    /\ away' = NoTime
    /\ UNCHANGED <<sinceBit, sinceChange, wake, heard>>

\* Run has nothing to do before its wake-up time or another edge.
Asleep ==
    /\ call = "none" /\ wake # 0
    /\ Pumped = dev /\ ~dev.isrTriggered

\* There is something to do, but loop() is with the USB side.
StaysAway ==
    /\ call = "none" /\ ~Asleep /\ away = NoTime
    /\ away' \in Lateness
    /\ UNCHANGED <<dev, call, sinceBit, sinceChange, wake, heard>>

\* Time passes only when the device has nothing to do, or is away.
Rests == Asleep \/ away > 0

Passes(time) ==
    /\ sinceBit' = AtMost(sinceBit + time, BitAges)
    /\ sinceChange' = AtMost(sinceChange + time, ChangeAges)
    /\ wake' = Rest(wake, time)
    /\ away' = Rest(away, time)
    /\ UNCHANGED <<dev, call, heard>>

\* The device as setup() leaves it, powered up with the line at this level.
PoweredUp(level) ==
    /\ dev' = NewDevice(level)
    /\ call' = "none"
    /\ sinceBit' = BitAges /\ sinceChange' = 0 /\ wake' = 0 /\ away' = NoTime
    /\ heard' = 0

\* One device in whatever surroundings: the line moves and time passes as they
\* may.
clocks == <<sinceBit, sinceChange, wake, away, heard>>

ClockedInit ==
    /\ others \in BOOLEAN
    /\ dev = NewDevice(others) /\ call = "none"
    /\ sinceBit = BitAges /\ sinceChange = 0 /\ wake = 0 /\ away = NoTime
    /\ heard = 0

ClockedNext ==
    \/ /\ \/ ClockedRun \/ StaysAway \/ LetsGo \/ ClockedProcess
          \/ Host /\ UNCHANGED clocks
          \/ \E time \in Nat : Passes(time)
       /\ UNCHANGED others
    \/ LineMoves /\ UNCHANGED clocks

ClockedSpec == ClockedInit /\ [][ClockedNext]_<<vars, clocks>>

-----------------------------------------------------------------------------
(* What the two ends of a frame make of it.                                *)

\* The acknowledge of the last block tells the initiator that it succeeded.
Succeeds ==
    /\ Timed("XMIT_ACK_TEST") /\ ~Unacknowledged
    /\ RemainingTransmitBytes(dev) = 0 /\ ~dev.broadcast

\* A frame goes onto the line.
Begins == Looks /\ Timed("IDLE_WAIT") /\ line /\ Waited

\* The follower that has acknowledged the last block hands over the frame.
HandsOver == Receiving("RCV_ACK_SENT") /\ dev.eom

\* Whether the bit being sent is a one: the EOM bit and those of the header are
\* what the frame says, the operands are not modelled and leave the wake-up time
\* chosen for them.
SendsOne(d) ==
    IF d.eTertiary = XMIT_BIT_EOM THEN RemainingTransmitBytes(d) = 0
    ELSE IF d.txByte = 0 \/ (d.txByte = 1 /\ d.eTertiary = XMIT_BIT_EOM - 1)
    THEN HeaderBitAt(d, XMIT_BIT_EOM - 1 - d.eTertiary) = 1
    ELSE d.waitTime = Deadline("bit", 600)

\* How long a device means to pull the line low, in the states that do, counted
\* from the stamp of Lower: a line error has to settle before its time begins.
HoldTime(d) ==
    CASE d.eSecondary = "XMIT_STARTBIT1" -> 3700
      [] d.eSecondary = "XMIT_DATABIT1"  -> IF SendsOne(d) THEN 600 ELSE 1500
      [] d.eSecondary = "XMIT_ACK2"      -> 600
      [] d.eSecondary = "RCV_ACK_SENT"   -> 1500
      [] d.eSecondary = "RCV_LINEERROR"  -> SettleTime + 3600
      [] OTHER                           -> 0

\* The line is let go of in time: never later than loop() may be away from Run.
HoldEndsInTime ==
    ~pin => \E late \in Lateness \cup {0} : sinceChange <= HoldTime(dev) + late

ClockedTypeOK ==
    /\ TypeOK
    /\ sinceBit \in 0..BitAges
    /\ sinceChange \in 0..ChangeAges
    /\ {wake, away} \subseteq Nat \cup {NoTime}
    /\ heard \in 0..15
=============================================================================
