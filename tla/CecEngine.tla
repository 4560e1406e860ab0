------------------------------ MODULE CecEngine ------------------------------
(***************************************************************************)
(* The signalling engine of CEC_Device: Run, which loop() calls for ever,  *)
(* and Process, the state machine of CEC.cpp that receives, transmits,     *)
(* acknowledges and arbitrates by watching and driving one open-drain      *)
(* line.  Run samples the line, pumps the address allocation and decides   *)
(* whether to call Process; Process samples the line again.  The line may  *)
(* move between the two samples, so they are two steps here, and `call'    *)
(* says why Process has been called: "due" (its wake-up time has passed)   *)
(* or "irq" (Run saw the line change).                                     *)
(*                                                                         *)
(* No action of the device constrains `others', the level the other        *)
(* devices leave: the environment moves it.  A handler that measures the   *)
(* time since the start of the bit takes it as the parameter t.            *)
(***************************************************************************)
EXTENDS CecDevice

CONSTANTS
    Elapsed,        \* the microseconds a handler may find since the bit started
    Destinations,   \* the destination nibbles of the frames on the line
    FrameSizes,     \* the operand counts the host passes to TransmitFrame
    MaxRxBlocks,    \* an initiator ends its frame by this block
    HostPaced       \* the program on the PC waits for a frame to end
                    \* before it sends the next: nothing in the sketch does

ASSUME ElapsedAssumption == Elapsed \subseteq Nat
ASSUME FrameAssumption == Destinations \subseteq 0..15 /\ FrameSizes \subseteq Nat
ASSUME BlocksAssumption == MaxRxBlocks \in 1..SERIAL_BUFFER_SIZE
ASSUME PacedAssumption == HostPaced \in BOOLEAN

VARIABLES
    dev,        \* the CEC_Device object
    call,       \* why Process is being called, or "none" outside it
    others      \* whether every other device releases the line

vars == <<dev, call, others>>

line == Line(dev, others)

-----------------------------------------------------------------------------
(* Run.                                                                    *)

Sampled ==
    IF dev.lastLineState2 = line THEN dev
    ELSE [dev EXCEPT !.lastLineState2 = line, !.isrTriggered = TRUE]

Pumped == Pump(Sampled)

\* TransmitPending() compares the state of the address allocation with two
\* enumerators of the signalling engine.
PrimaryValue == [CEC_IDLE |-> 0, CEC_READY |-> 1, CEC_ALLOCATE_LOGICAL_ADDRESS |-> 2]
SecondaryValue == [CEC_XMIT_POLLING_MESSAGE |-> 0, CEC_RCV_POLLING_MESSAGE |-> 1]
CEC_E_TRANSMIT == 1
CEC_E_IDLE_WAIT == 8
TransmitPending(d) ==
    /\ PrimaryValue[d.primaryState] = CEC_E_TRANSMIT
    /\ SecondaryValue[d.secondaryState] = CEC_E_IDLE_WAIT

\* Run finds the wake-up time passed: Process runs, and the short-circuit of
\* the condition leaves an interrupt that has been signalled unconsumed.
RunDue ==
    /\ call = "none"
    /\ Pumped.waitTime # Never \/ TransmitPending(Pumped)
    /\ dev' = Pumped
    /\ call' = "due"

\* Run finds a wake-up time that may still be in the future, or none.
StillWaiting(d) ==
    IF d.waitTime = Never THEN ~TransmitPending(d) ELSE d.waitTime \notin {Now, LongPast}

RunInterrupted ==
    /\ call = "none"
    /\ StillWaiting(Pumped) /\ Pumped.isrTriggered
    /\ dev' = [Pumped EXCEPT !.isrTriggered = FALSE]
    /\ call' = "irq"

RunAsleep ==
    /\ call = "none"
    /\ StillWaiting(Pumped) /\ ~Pumped.isrTriggered
    /\ dev' = Pumped
    /\ UNCHANGED call

-----------------------------------------------------------------------------
(* Process: how it begins and ends.                                        *)

Changed == line # dev.lastLineState

\* The device once Process has taken account of the line.
Seen == IF Changed THEN HasChanged(dev, line) ELSE [dev EXCEPT !.stamps = {}]

Within(t, low, high) == low <= t /\ t <= high
BitPeriod(t) == Within(t, 2050, 2750)
ShortPulse(t) == Within(t, 400, 800)
LongPulse(t) == Within(t, 1300, 1700)

\* Process returns with the device as d; Run stores the wake-up time.
Returns(d, deadline) ==
    /\ dev' = [d EXCEPT !.waitTime = deadline]
    /\ call' = "none"

Resets(d) == Returns(ResetState(d), WakeAfterReset(d))

\* Variants marked "Slip" are plausible programming errors, each next to the
\* definition it would replace; no definition of the model uses them.

\* Slip: a line error is signalled whoever the frame is for.
LineErrorForAnybody(d) ==
    Returns(Lower([d EXCEPT !.eSecondary = "RCV_LINEERROR"]), Deadline("now", 3600))

LineError(d) ==
    IF d.follower \/ d.broadcast
    THEN Returns(Lower([d EXCEPT !.eSecondary = "RCV_LINEERROR"]), Deadline("now", 3600))
    ELSE Resets(d)

\* Nothing changed and nothing to send: the call was spurious.
Spurious ==
    /\ call # "none" /\ ~Changed
    /\ dev.ePrimary # "TRANSMIT"
    /\ ~(dev.ePrimary = "RECEIVE" /\ dev.eSecondary \in RcvTimed)
    /\ Returns([dev EXCEPT !.stamps = {}], Never)

IdleEdge ==
    /\ call # "none" /\ Changed /\ dev.ePrimary = "IDLE"
    /\ IF line THEN Returns(Seen, Never)
       ELSE Returns([Seen EXCEPT !.ePrimary = "RECEIVE", !.eSecondary = "RCV_STARTBIT1",
                                 !.follower = FALSE, !.broadcast = FALSE,
                                 !.amLastTransmittor = FALSE], Never)

-----------------------------------------------------------------------------
(* Process, CEC_E_RECEIVE.                                                 *)

Receiving(s) == call # "none" /\ dev.ePrimary = "RECEIVE" /\ dev.eSecondary = s

ReceiveStartBit1(t) ==
    /\ Receiving("RCV_STARTBIT1") /\ Changed
    /\ IF Within(t, 3500, 3900)
       THEN Returns([Seen EXCEPT !.eSecondary = "RCV_STARTBIT2"], Never)
       ELSE Resets(Seen)

ReceiveStartBit2(t) ==
    /\ Receiving("RCV_STARTBIT2") /\ Changed
    /\ IF Within(t, 4300, 4700)
       THEN Returns([Seen EXCEPT !.eSecondary = "RCV_DATABIT1",
                                 !.eTertiary = RCV_BIT0], Never)
       ELSE Resets(Seen)

\* Slip: the EOM bit is stored with the data bits.
ReceivedBitStoringEom(d, bit) ==
    IF d.eTertiary = RCV_BIT_EOM THEN [PushReceiveBit(d) EXCEPT !.eom = bit]
    ELSE PushReceiveBit(d)

\* The buffer has no room test: the initiator is taken to set EOM in time.
ReceivedBit(d, bit) ==
    IF d.eTertiary = RCV_BIT_EOM THEN [d EXCEPT !.eom = bit] ELSE PushReceiveBit(d)

ReceiveDataBit1(t) ==
    /\ Receiving("RCV_DATABIT1") /\ Changed
    /\ dev.eTertiary = RCV_BIT_EOM /\ LongPulse(t) => dev.rxByte < MaxRxBlocks
    /\ IF ShortPulse(t) \/ LongPulse(t)
       THEN Returns([ReceivedBit(Seen, ShortPulse(t)) EXCEPT !.eSecondary = "RCV_DATABIT2"],
                    Never)
       ELSE LineError(Seen)

ReceiveDataBit2(t) ==
    /\ Receiving("RCV_DATABIT2") /\ Changed /\ dev.eTertiary # RCV_BIT_EOM
    /\ IF BitPeriod(t)
       THEN Returns([Seen EXCEPT !.eSecondary = "RCV_DATABIT1", !.eTertiary = @ + 1], Never)
       ELSE LineError(Seen)

\* Slip: the header is looked for before it has been counted.
ForUsTooEarly(d, dest) == d.rxByte = 0 => dest \in {d.address, BROADCAST}

\* CheckAddress, after the header block only.
ForUs(d, dest) == d.rxByte = 1 => dest \in {d.address, BROADCAST}
CheckAddress(d, dest) ==
    [d EXCEPT !.broadcast = @ \/ (d.rxByte = 1 /\ dest = BROADCAST),
              !.follower  = @ \/ (d.rxByte = 1 /\ dest # BROADCAST /\ dest = d.address)]

\* Slip: no wake-up time for the end of the acknowledge.
ReceiveEndOfBlockUntimed(t, dest) ==
    /\ Receiving("RCV_DATABIT2") /\ Changed /\ dev.eTertiary = RCV_BIT_EOM
    /\ LET d == CheckAddress([Seen EXCEPT !.eSecondary = "RCV_ACK1",
                                          !.eTertiary = RCV_BIT_ACK], dest)
       IN  IF ~BitPeriod(t) THEN LineError(Seen)
           ELSE IF ~ForUs(Seen, dest) /\ ~Promiscuous THEN Resets(d)
           ELSE IF d.follower
           THEN Returns([Lower(d) EXCEPT !.eSecondary = "RCV_ACK_SENT"], Never)
           ELSE Returns(d, Never)

\* Slip: the acknowledge lasts as long as a one bit, not as a zero.
ReceiveEndOfBlockShort(t, dest) ==
    /\ Receiving("RCV_DATABIT2") /\ Changed /\ dev.eTertiary = RCV_BIT_EOM
    /\ LET d == CheckAddress([Seen EXCEPT !.eSecondary = "RCV_ACK1",
                                          !.eTertiary = RCV_BIT_ACK], dest)
       IN  IF ~BitPeriod(t) THEN LineError(Seen)
           ELSE IF ~ForUs(Seen, dest) /\ ~Promiscuous THEN Resets(d)
           ELSE IF d.follower
           THEN Returns([Lower(d) EXCEPT !.eSecondary = "RCV_ACK_SENT"],
                        Deadline("bit", 600))
           ELSE Returns(d, Never)

ReceiveEndOfBlock(t, dest) ==
    /\ Receiving("RCV_DATABIT2") /\ Changed /\ dev.eTertiary = RCV_BIT_EOM
    /\ LET d == CheckAddress([Seen EXCEPT !.eSecondary = "RCV_ACK1",
                                          !.eTertiary = RCV_BIT_ACK], dest)
       IN  IF ~BitPeriod(t) THEN LineError(Seen)
           ELSE IF ~ForUs(Seen, dest) /\ ~Promiscuous THEN Resets(d)
           ELSE IF d.follower
           THEN Returns([Lower(d) EXCEPT !.eSecondary = "RCV_ACK_SENT"],
                        Deadline("bit", 1500))
           ELSE Returns(d, Never)

\* ProcessFrame hands the received blocks to the sketch.
ProcessFrame(d) == ResetReceiveBuffer(d)

\* Slip: the end of the acknowledge is taken for the end of its bit.
ReceiveAckSentEarly ==
    /\ Receiving("RCV_ACK_SENT")
    /\ LET d == Raise(Seen, others)
       IN  IF d.eom THEN Resets(ProcessFrame(d))
           ELSE Returns([d EXCEPT !.eSecondary = "RCV_DATABIT1", !.eTertiary = RCV_BIT0], Never)

ReceiveAckSent ==
    /\ Receiving("RCV_ACK_SENT")
    /\ LET d == Raise(Seen, others)
       IN  IF d.eom THEN Resets(ProcessFrame(d))
           ELSE Returns([d EXCEPT !.eSecondary = "RCV_ACK2", !.eTertiary = CEC_E_ACK], Never)

\* What the length of the pulse means: a broadcast inverts the acknowledge.
Acknowledged(t) == IF dev.broadcast THEN ShortPulse(t) ELSE LongPulse(t)

\* Slip: the end of the pulse is taken for the end of the bit.
ReceiveAck1Early(t) ==
    /\ Receiving("RCV_ACK1") /\ Changed
    /\ IF ~ShortPulse(t) /\ ~LongPulse(t) THEN LineError(Seen)
       ELSE IF ~Acknowledged(t) THEN Resets(Seen)
       ELSE IF dev.eom THEN Resets(ProcessFrame(Seen))
       ELSE Returns([Seen EXCEPT !.eSecondary = "RCV_DATABIT1", !.eTertiary = RCV_BIT0], Never)

ReceiveAck1(t) ==
    /\ Receiving("RCV_ACK1") /\ Changed
    /\ IF ~ShortPulse(t) /\ ~LongPulse(t) THEN LineError(Seen)
       ELSE IF ~Acknowledged(t) THEN Resets(Seen)
       ELSE IF dev.eom THEN Resets(ProcessFrame(Seen))
       ELSE Returns([Seen EXCEPT !.eSecondary = "RCV_ACK2"], Never)

ReceiveAck2(t) ==
    /\ Receiving("RCV_ACK2") /\ Changed
    /\ IF BitPeriod(t)
       THEN Returns([Seen EXCEPT !.eSecondary = "RCV_DATABIT1",
                                 !.eTertiary = RCV_BIT0], Never)
       ELSE LineError(Seen)

ReceiveLineError ==
    /\ Receiving("RCV_LINEERROR")
    /\ Resets(Raise(Seen, others))

-----------------------------------------------------------------------------
(* Process, CEC_E_TRANSMIT, when the line has changed.                     *)

Transmitting(s) == call # "none" /\ dev.ePrimary = "TRANSMIT" /\ dev.eSecondary = s

IdleWaitEdge ==
    /\ Transmitting("IDLE_WAIT") /\ Changed
    /\ IF line THEN Returns(Seen, Never)
       ELSE Returns([Seen EXCEPT !.ePrimary = "RECEIVE", !.eSecondary = "RCV_STARTBIT1",
                                 !.transmitPending = TRUE], Never)

\* Slip: the frame is dropped at its first collision.
CollisionDrops ==
    /\ call # "none" /\ dev.ePrimary = "TRANSMIT" /\ Changed
    /\ dev.eSecondary \notin XmitAckStates \cup {"IDLE_WAIT"}
    /\ Returns(OnTransmitComplete(ResetState(Seen), FALSE), LongPast)

Collision ==
    /\ call # "none" /\ dev.ePrimary = "TRANSMIT" /\ Changed
    /\ dev.eSecondary \notin XmitAckStates \cup {"IDLE_WAIT"}
    /\ Returns(Retransmit(Seen), LongPast)

\* Slip: the edge of an acknowledge returns -1, not -2.
AckEdgeForgetsTime ==
    /\ call # "none" /\ dev.ePrimary = "TRANSMIT" /\ Changed
    /\ dev.eSecondary \in XmitAckStates
    /\ Returns(Seen, Never)

\* A follower acknowledges: the wake-up time stays (the return of -2).
AckEdge ==
    /\ call # "none" /\ dev.ePrimary = "TRANSMIT" /\ Changed
    /\ dev.eSecondary \in XmitAckStates
    /\ Returns(Seen, dev.waitTime)

-----------------------------------------------------------------------------
(* Process, CEC_E_TRANSMIT, a timed step.                                  *)

Timed(s) == Transmitting(s) /\ ~Changed

\* Slip: the idle times are left in bit periods.
NeededIdleBits(d) ==
    CASE d.eTertiary = IDLE_RETRANSMIT_FRAME -> 3
      [] d.eTertiary = IDLE_NEW_FRAME        -> 5
      [] d.eTertiary = IDLE_SUBSEQUENT_FRAME -> 7
      [] OTHER                               -> 0

NeededIdleTime(d) ==
    CASE d.eTertiary = IDLE_RETRANSMIT_FRAME -> 3 * 2400
      [] d.eTertiary = IDLE_NEW_FRAME        -> 5 * 2400
      [] d.eTertiary = IDLE_SUBSEQUENT_FRAME -> 7 * 2400
      [] OTHER                               -> 0

IdleWaitLow ==
    /\ Timed("IDLE_WAIT") /\ ~line
    /\ Returns(Seen, Never)

IdleWaitMore ==
    /\ Timed("IDLE_WAIT") /\ line
    /\ NeededIdleTime(dev) > 0
    /\ Returns(Seen, Deadline("change", NeededIdleTime(dev)))

BeginFrame ==
    /\ Timed("IDLE_WAIT") /\ line
    /\ Returns([Lower(Seen) EXCEPT !.amLastTransmittor = TRUE,
                                   !.broadcast = (dev.txDest = BROADCAST),
                                   !.eSecondary = "XMIT_STARTBIT1"],
               Deadline("bit", 3700))

\* The end of the low part of a bit; `others' is what Raise reads back.
TransmitStartBit1 ==
    /\ Timed("XMIT_STARTBIT1")
    /\ LET d == Raise(Seen, others)
       IN  IF others THEN Returns([d EXCEPT !.eSecondary = "XMIT_STARTBIT2"],
                                  Deadline("bit", 4500))
           ELSE Returns(Retransmit(d), Never)

\* Slip: the pulses of a one and of a zero are swapped.
LowTimeSwapped(bit) == IF bit = 1 THEN 1500 ELSE 600

LowTime(bit) == IF bit = 1 THEN 600 ELSE 1500

TransmitFirstBit(bit) ==
    /\ Timed("XMIT_STARTBIT2") \/ Timed("XMIT_ACK3")
    /\ bit \in PoppedBits(dev)
    /\ Returns([PopTransmitBit(Lower(Seen)) EXCEPT !.eSecondary = "XMIT_DATABIT1",
                                                   !.eTertiary = XMIT_BIT0],
               Deadline("bit", LowTime(bit)))

TransmitDataBit1 ==
    /\ Timed("XMIT_DATABIT1")
    /\ LET d == Raise(Seen, others)
       IN  IF others
           THEN Returns([d EXCEPT !.eSecondary = IF d.eTertiary = XMIT_BIT_EOM
                                                 THEN "XMIT_ACK" ELSE "XMIT_DATABIT2"],
                        Deadline("bit", 2400))
           ELSE Returns(Retransmit(d), Never)

\* The next bit of the block, or after the eighth the EOM bit.
NextBit(d, bit) ==
    IF d.eTertiary = XMIT_BIT_EOM
    THEN bit = (IF RemainingTransmitBytes(d) = 0 THEN 1 ELSE 0)
    ELSE bit \in PoppedBits(d)

TransmitDataBit2(bit) ==
    /\ Timed("XMIT_DATABIT2")
    /\ LET d == [Lower(Seen) EXCEPT !.eTertiary = @ + 1, !.eSecondary = "XMIT_DATABIT1"]
       IN  /\ NextBit(d, bit)
           /\ Returns(IF d.eTertiary = XMIT_BIT_EOM THEN d ELSE PopTransmitBit(d),
                      Deadline("bit", LowTime(bit)))

\* Slip: no wake-up time for the end of the acknowledge bit.
TransmitAckUntimed ==
    /\ Timed("XMIT_ACK")
    /\ Returns([Lower(Seen) EXCEPT !.eSecondary = "XMIT_ACK2"], Never)

\* Slip: the initiator holds the acknowledge bit as long as the follower.
TransmitAckAsZero ==
    /\ Timed("XMIT_ACK")
    /\ Returns([Lower(Seen) EXCEPT !.eSecondary = "XMIT_ACK2"], Deadline("bit", 1500))

TransmitAck ==
    /\ Timed("XMIT_ACK")
    /\ Returns([Lower(Seen) EXCEPT !.eSecondary = "XMIT_ACK2"], Deadline("bit", 600))

\* Slip: the initiator tests the line while it still holds it.
TransmitAck2Holding ==
    /\ Timed("XMIT_ACK2")
    /\ Returns([Seen EXCEPT !.eSecondary = "XMIT_ACK_TEST"], Deadline("bit", 1050))

TransmitAck2 ==
    /\ Timed("XMIT_ACK2")
    /\ Returns([Raise(Seen, others) EXCEPT !.eSecondary = "XMIT_ACK_TEST"],
               Deadline("bit", 1050))

\* The follower answers by holding the line low; for a broadcast, by not.
Unacknowledged == line # dev.broadcast

TransmitNotAcked ==
    /\ Timed("XMIT_ACK_TEST") /\ Unacknowledged
    /\ IF RemainingTransmitBytes(dev) = 0 /\ dev.txCount = 1
       THEN Returns(OnTransmitComplete(ResetState(Seen), FALSE), Never)
       ELSE Returns(Retransmit(Seen), LongPast)

TransmitAcked ==
    /\ Timed("XMIT_ACK_TEST") /\ ~Unacknowledged
    /\ IF RemainingTransmitBytes(dev) = 0
       THEN Returns(OnTransmitComplete(ResetState(Seen), TRUE), Never)
       ELSE Returns([Seen EXCEPT !.eSecondary = "XMIT_ACK3"], Deadline("bit", 2400))

-----------------------------------------------------------------------------
(* The sketch (loop) and the other devices.                                *)

Busy == dev.ePrimary = "TRANSMIT" \/ dev.transmitPending

HostTransmit(dest, count) ==
    /\ call = "none" /\ dev.primaryState = "CEC_IDLE"
    /\ HostPaced => ~Busy
    /\ dev' = TransmitFrame(dev, dest, count)
    /\ UNCHANGED call

LineMoves ==
    /\ others' = ~others
    /\ UNCHANGED <<dev, call>>

Receive ==
    \/ \E t \in Elapsed :
        \/ ReceiveStartBit1(t) \/ ReceiveStartBit2(t)
        \/ ReceiveDataBit1(t) \/ ReceiveDataBit2(t)
        \/ \E dest \in Destinations : ReceiveEndOfBlock(t, dest)
        \/ ReceiveAck1(t) \/ ReceiveAck2(t)
    \/ ReceiveAckSent \/ ReceiveLineError

Transmit ==
    \/ IdleWaitEdge \/ Collision \/ AckEdge
    \/ IdleWaitLow \/ IdleWaitMore \/ BeginFrame
    \/ TransmitStartBit1 \/ TransmitDataBit1
    \/ \E bit \in {0, 1} : TransmitFirstBit(bit) \/ TransmitDataBit2(bit)
    \/ TransmitAck \/ TransmitAck2 \/ TransmitNotAcked \/ TransmitAcked

Process == Spurious \/ IdleEdge \/ Receive \/ Transmit
Run == RunDue \/ RunInterrupted \/ RunAsleep
Host == \E dest \in Destinations, count \in FrameSizes : HostTransmit(dest, count)

Init ==
    /\ others \in BOOLEAN
    /\ dev = NewDevice(others)
    /\ call = "none"

Next ==
    \/ (Run \/ Process \/ Host) /\ UNCHANGED others
    \/ LineMoves

Spec == Init /\ [][Next]_vars

\* loop() calls Run for ever and Run calls Process; time passes every wake-up
\* time, and on a line that stays free it passes the needed idle time too.
FairSpec ==
    /\ Spec
    /\ WF_vars(RunDue /\ UNCHANGED others)
    /\ WF_vars(RunInterrupted /\ UNCHANGED others)
    /\ WF_vars(Process /\ UNCHANGED others)
    /\ SF_vars(BeginFrame /\ UNCHANGED others)

-----------------------------------------------------------------------------
(* Properties.                                                             *)

\* The type of the state.
TypeOK ==
    /\ dev \in Device
    /\ call \in {"none", "due", "irq"}
    /\ others \in BOOLEAN

\* The device pulls the line low only as the initiator inside a bit, as the
\* addressee acknowledging a block, or as a receiver of this frame signalling
\* a line error; and never in monitor mode ("only receive and do not transmit").
HoldIsLegitimate ==
    ~dev.out =>
        /\ ~MonitorMode
        /\ \/ dev.ePrimary = "TRANSMIT"
              /\ dev.eSecondary \in {"XMIT_STARTBIT1", "XMIT_DATABIT1", "XMIT_ACK2"}
           \/ dev.ePrimary = "RECEIVE" /\ dev.eSecondary = "RCV_ACK_SENT" /\ dev.follower
           \/ dev.ePrimary = "RECEIVE" /\ dev.eSecondary = "RCV_LINEERROR"
              /\ (dev.follower \/ dev.broadcast)

\* While the device pulls the line low no edge can wake it, so it always has
\* a wake-up time at which it lets go.
HoldIsTimed == ~dev.out => dev.waitTime # Never /\ ~dev.lastLineState

\* Outside a reception nothing of an earlier one is left: the next frame
\* starts at the first bit, unacknowledged and without an EOM.
ReceptionIsClean ==
    dev.ePrimary # "RECEIVE" =>
        /\ ~dev.eom /\ ~dev.follower
        /\ dev.rxByte = 0 /\ dev.rxBit = 7

\* The receive cursor counts the bits that eTertiary counts, so that a frame
\* is handed over only in whole blocks, at least one (the ASSERT of
\* OnReceiveComplete), and every bit is stored inside the buffer.
ReceiveIsAligned ==
    dev.ePrimary = "RECEIVE" =>
        CASE dev.eSecondary \in {"RCV_STARTBIT1", "RCV_STARTBIT2"} ->
                dev.rxBit = 7 /\ dev.rxByte = 0 /\ ~dev.eom
          [] dev.eSecondary = "RCV_DATABIT1" /\ dev.eTertiary # RCV_BIT_EOM ->
                /\ dev.rxBit = 7 - dev.eTertiary
                /\ dev.rxByte < SERIAL_BUFFER_SIZE /\ ~dev.eom
          [] dev.eSecondary = "RCV_DATABIT2" /\ dev.eTertiary < 7 ->
                /\ dev.rxBit = 6 - dev.eTertiary
                /\ dev.rxByte < SERIAL_BUFFER_SIZE /\ ~dev.eom
          [] dev.eSecondary = "RCV_LINEERROR" -> TRUE
          [] OTHER -> dev.rxBit = 7 /\ dev.rxByte > 0

\* The transmit cursor counts the bits that eTertiary counts, and a frame that
\* waits to be sent, first or again, waits with the cursor at its start.
TransmitIsAligned ==
    /\ dev.ePrimary = "TRANSMIT" =>
        /\ dev.txCount > 0 /\ dev.xmitretry < CEC_E_MAX_RETRANSMIT
        /\ CASE dev.eSecondary \in {"IDLE_WAIT", "XMIT_STARTBIT1", "XMIT_STARTBIT2"} ->
                    dev.txByte = 0 /\ dev.txBit = 7
             [] dev.eSecondary \in {"XMIT_DATABIT1", "XMIT_DATABIT2"}
                /\ dev.eTertiary < XMIT_BIT_EOM - 1 ->
                    dev.txBit = 18 - dev.eTertiary /\ dev.txByte < dev.txCount
             [] OTHER -> dev.txBit = 7 /\ dev.txByte > 0
    /\ dev.transmitPending => dev.txCount > 0 /\ dev.txByte = 0 /\ dev.txBit = 7

\* Without Promiscuous a frame is followed past its header block only when it
\* is addressed to this device or to all.
OnlyFramesForUs ==
    ~Promiscuous /\ dev.ePrimary = "RECEIVE"
    /\ (dev.rxByte > 1 \/ dev.eSecondary \in {"RCV_ACK1", "RCV_ACK2", "RCV_ACK_SENT"})
        => dev.follower \/ dev.broadcast

\* A logical address, once claimed, is final, whatever becomes of the frames
\* sent later: a failed frame must not be taken for an unanswered poll.
AddressIsFinal ==
    [][dev.primaryState = "CEC_IDLE" =>
        /\ dev'.primaryState = "CEC_IDLE"
        /\ dev'.logicalAddress = dev.logicalAddress
        /\ dev'.address = dev.address]_vars

\* Whatever the others do, the device lets go of a line it pulls low.
HoldIsReleased == ~dev.out ~> dev.out

OnTheWire == dev.ePrimary = "TRANSMIT" /\ dev.eSecondary # "IDLE_WAIT"
LineSettles == <>[]others \/ <>[]~others

\* If the others stop moving the line, a frame that has begun comes to an end,
\* sent or given up: the machine cannot get stuck between two of its bits.
TransmissionEnds == LineSettles => (OnTheWire ~> ~OnTheWire)

\* While an address is being allocated, the frame queued or on the wire is the
\* poll of the current candidate, alone: its end is the answer that the
\* allocation takes for the candidate's.
PollInFlight ==
    Allocating(dev) =>
        Busy /\ dev.txCount = 1 /\ dev.txDest = Candidate(dev.tertiaryState)

\* A receiver takes any edge for the one it waits for.  It is in phase when the
\* line was low if it waits for it to rise, and high if it waits for it to fall.
InPhase(d) ==
    d.ePrimary = "RECEIVE" =>
        /\ d.eSecondary \in {"RCV_STARTBIT1", "RCV_DATABIT1", "RCV_ACK1"} => ~d.lastLineState
        /\ d.eSecondary \in {"RCV_STARTBIT2", "RCV_DATABIT2", "RCV_ACK2"} => d.lastLineState

\* The follower lets go of its acknowledge while another device holds the line.
Overlaps ==
    /\ call # "none" /\ dev.ePrimary = "RECEIVE" /\ dev.eSecondary = "RCV_ACK_SENT"
    /\ ~dev.eom /\ ~others

\* No edge, however it falls between the samples of Run and Process, and no
\* reset, collision or line error puts a receiver out of phase (the RCV_ states
\* of Process, which alternate edges): only an overlap of acknowledges may.
OnlyOverlapsShiftPhase == [][InPhase(dev) /\ ~Overlaps => InPhase(dev')]_vars

\* What FrameService sees of the device.  A block is out, and waits for its
\* answer, from its last data bit on: the cursor has then moved on to the next.
AnyFrames == (0..15) \X (1..SERIAL_BUFFER_SIZE)
BlockIsOut(d) ==
    \/ d.eSecondary \in XmitAckStates \ {"XMIT_ACK3"}
    \/ d.eSecondary \in {"XMIT_DATABIT1", "XMIT_DATABIT2"} /\ d.eTertiary >= XMIT_BIT_EOM - 1
ServiceStage ==
    IF ~Busy THEN "empty" ELSE IF ~OnTheWire THEN "waiting"
    ELSE IF dev.eSecondary = "XMIT_ACK_TEST" THEN "asking" ELSE "sending"
ServiceFrame == IF Busy THEN <<dev.txDest, dev.txCount>> ELSE <<>>
ServiceTries == IF dev.ePrimary = "TRANSMIT" THEN dev.xmitretry ELSE 0
ServiceBlocks ==
    IF ~Busy THEN 0 ELSE IF OnTheWire /\ BlockIsOut(dev) THEN dev.txByte - 1 ELSE dev.txByte
ServiceAnswer == ServiceStage = "asking" /\ ~Unacknowledged

\* A frame handed over by a host that waits for its end is served as
\* FrameService promises.  Receptions, collisions and resets in any order do
\* not lose it or replace it by another; a block follows only on the
\* acknowledge of the one before it, every new try begins at the first block,
\* and the frame ends by the answer to its last block or by the failure of
\* the last of CEC_E_MAX_RETRANSMIT tries, and not at a collision before that.
Service == INSTANCE FrameService
    WITH Frames <- AnyFrames, Nothing <- <<>>, MaxTries <- CEC_E_MAX_RETRANSMIT,
         stage <- ServiceStage, frame <- ServiceFrame, tries <- ServiceTries,
         blocks <- ServiceBlocks, answer <- ServiceAnswer
FramesAreServed == Service!Spec

-----------------------------------------------------------------------------
(* What the comments of the source say and the code does not do.           *)

\* "this will cause a transmit to occur" (CEC.cpp:936): a frame waiting for the
\* line is not left waiting when the line stays free.
WaitingFrameIsSent ==
    <>[]others => []<>~(dev.ePrimary = "TRANSMIT" /\ dev.eSecondary = "IDLE_WAIT")

\* "called because of an INTerrupt in which case state has changed or because
\* of a poll" (CEC.cpp:264): inside a frame, a call that is not due finds the
\* line changed, and so takes no timed step ahead of its time.
InterruptMeansChange ==
    [][call = "irq" /\ call' = "none" /\ OnTheWire => Changed]_vars

\* "It is either addressed to this device or its a broadcast" (CEC.cpp:218): a
\* reception knows of neither before its header block is complete.
AddresseeUnknownBeforeHeader ==
    dev.ePrimary = "RECEIVE" /\ dev.rxByte = 0 => ~dev.follower /\ ~dev.broadcast

\* "we just want acknowledgement that it has succeeded or failed"
\* (CEC.cpp:697): an address is claimed where the acknowledge of its poll is
\* tested, so not without a poll having been on the line to its end.
ClaimFollowsPoll ==
    [][dev'.logicalAddress # dev.logicalAddress => dev.eSecondary = "XMIT_ACK_TEST"]_vars

=============================================================================
