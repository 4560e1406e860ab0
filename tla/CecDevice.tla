------------------------------ MODULE CecDevice ------------------------------
(***************************************************************************)
(* The object state of class CEC_Device (firmware/cec-arduino/CEC.h) and   *)
(* the member functions that its line handlers call: the serial buffers,   *)
(* the state resets, the driving of the line and the allocation of a       *)
(* logical address.  The object is one record; a member function is an     *)
(* operator from the record before the call to the record after it.        *)
(*                                                                         *)
(* Buffer contents are abstracted to what the code reads back: the cursors *)
(* (byte and bit), the number of bytes to send and the destination nibble  *)
(* of the frame to send.  A time stamp is abstracted to whether the latest *)
(* call of Process refreshed it, and the wake-up time to the stamp it is   *)
(* counted from and the microseconds added to it.                          *)
(***************************************************************************)
EXTENDS Integers, Sequences

CONSTANTS
    SERIAL_BUFFER_SIZE,     \* bytes in each serial buffer (16 in CEC.h)
    CEC_E_MAX_RETRANSMIT,   \* collisions after which a frame is given up (5)
    DeviceType,             \* the argument of Initialize(type)
    MonitorMode,            \* only receive and do not transmit
    Promiscuous             \* follow frames addressed to other devices too

ASSUME SizeAssumption == SERIAL_BUFFER_SIZE \in Nat /\ SERIAL_BUFFER_SIZE >= 2
ASSUME RetryAssumption == CEC_E_MAX_RETRANSMIT \in Nat \ {0}
ASSUME ModeAssumption == MonitorMode \in BOOLEAN /\ Promiscuous \in BOOLEAN

-----------------------------------------------------------------------------
(* Enumerations.  eTertiary keeps the C enumerator's value, because the    *)
(* code counts the bits of a block by adding one to it.                    *)

CLA_UNREGISTERED == 15
BROADCAST == 15

ValidLogicalAddresses ==
    [CDT_TV               |-> <<0, 14, 15, 15, 15>>,
     CDT_RECORDING_DEVICE |-> <<1, 2, 9, 15, 15>>,
     CDT_PLAYBACK_DEVICE  |-> <<4, 8, 11, 15, 15>>,
     CDT_TUNER            |-> <<3, 6, 7, 10, 15>>,
     CDT_AUDIO_SYSTEM     |-> <<5, 15, 15, 15, 15>>,
     CDT_OTHER            |-> <<15, 15, 15, 15, 15>>]

ASSUME TypeAssumption == DeviceType \in DOMAIN ValidLogicalAddresses

RCV_BIT0 == 0
RCV_BIT_EOM == 8
RCV_BIT_ACK == 9
CEC_E_ACK == 10
XMIT_BIT0 == 12
XMIT_BIT_EOM == 20
IDLE_RETRANSMIT_FRAME == 22
IDLE_NEW_FRAME == 23
IDLE_SUBSEQUENT_FRAME == 24

RcvTimed == {"RCV_ACK_SENT", "RCV_LINEERROR"}
RcvStates == {"RCV_STARTBIT1", "RCV_STARTBIT2", "RCV_DATABIT1", "RCV_DATABIT2",
              "RCV_ACK1", "RCV_ACK2"} \cup RcvTimed
XmitAckStates == {"XMIT_ACK", "XMIT_ACK2", "XMIT_ACK3", "XMIT_ACK_TEST"}
XmitStates == {"IDLE_WAIT", "XMIT_STARTBIT1", "XMIT_STARTBIT2",
               "XMIT_DATABIT1", "XMIT_DATABIT2"} \cup XmitAckStates

\* A wake-up time: `plus' microseconds after the stamp `base'.  "bit" is
\* _bitStartTime, "change" is _lastStateChangeTime, "now" is micros(), "zero" is
\* time 0 (long past) and "never" is (unsigned long)-1.
Deadline(base, plus) == [base |-> base, plus |-> plus]
Never == Deadline("never", 0)
Now == Deadline("now", 0)
LongPast == Deadline("zero", 0)

Device ==
    [ePrimary          : {"IDLE", "TRANSMIT", "RECEIVE"},
     eSecondary        : RcvStates \cup XmitStates,
     eTertiary         : 0..24,
     xmitretry         : 0..CEC_E_MAX_RETRANSMIT,
     eom               : BOOLEAN,
     follower          : BOOLEAN,
     broadcast         : BOOLEAN,
     amLastTransmittor : BOOLEAN,
     transmitPending   : BOOLEAN,
     rxByte            : Nat,
     rxBit             : 0..7,
     txByte            : 0..SERIAL_BUFFER_SIZE,
     txBit             : 0..7,
     txCount           : 0..SERIAL_BUFFER_SIZE,
     txDest            : 0..15,
     out               : BOOLEAN,
     lastLineState     : BOOLEAN,
     lastLineState2    : BOOLEAN,
     isrTriggered      : BOOLEAN,
     stamps            : SUBSET {"bit", "change"},
     waitTime          : [base : {"bit", "change", "now", "zero", "never"}, plus : Nat],
     primaryState      : {"CEC_IDLE", "CEC_READY", "CEC_ALLOCATE_LOGICAL_ADDRESS"},
     secondaryState    : {"CEC_XMIT_POLLING_MESSAGE", "CEC_RCV_POLLING_MESSAGE"},
     tertiaryState     : 0..4,
     logicalAddress    : 0..15,
     address           : 0..15]

-----------------------------------------------------------------------------
(* SerialLine: a buffer is a cursor (byte, bit), bits going from 7 to 0.   *)

ClearTransmitBuffer(d) == [d EXCEPT !.txCount = 0, !.txByte = 0, !.txBit = 7]
ResetTransmitBuffer(d) == [d EXCEPT !.txByte = 0, !.txBit = 7]
ResetReceiveBuffer(d)  == [d EXCEPT !.rxByte = 0, !.rxBit = 7]

\* The room test of TransmitPartial, and what it does when there is room.
Fits(d, count) == count < SERIAL_BUFFER_SIZE - d.txCount
TransmitPartial(d, count) ==
    [d EXCEPT !.txCount = @ + count, !.txByte = 0, !.txBit = 7]

\* A cleared buffer with the header block of a frame to dest: SizeAssumption
\* makes the room test of this one byte true.
PutHeader(d, dest) ==
    [TransmitPartial(ClearTransmitBuffer(d), 1) EXCEPT !.txDest = dest]

RemainingTransmitBytes(d) == d.txCount - d.txByte

\* A pop past the end returns 0 and leaves the cursor where it is.
PopTransmitBit(d) ==
    IF d.txByte = d.txCount THEN d
    ELSE [d EXCEPT !.txBit  = IF @ = 0 THEN 7 ELSE @ - 1,
                   !.txByte = IF d.txBit = 0 THEN @ + 1 ELSE @]
PoppedBits(d) == IF d.txByte = d.txCount THEN {0} ELSE {0, 1}

PushReceiveBit(d) ==
    [d EXCEPT !.rxBit  = IF @ = 0 THEN 7 ELSE @ - 1,
              !.rxByte = IF d.rxBit = 0 THEN @ + 1 ELSE @]

-----------------------------------------------------------------------------
(* The line.  It is a wired AND: TRUE is high (released), and it is high   *)
(* when this device and all the others release it.                         *)

Line(d, others) == d.out /\ others

\* Raise returns the level it reads back, which is what the others leave.
Raise(d, others) ==
    IF MonitorMode THEN d
    ELSE [d EXCEPT !.out = TRUE, !.lastLineState2 = others,
                   !.lastLineState = @ \/ others,
                   !.stamps = IF others THEN @ \cup {"change"} ELSE @]

Lower(d) ==
    IF MonitorMode THEN d
    ELSE [d EXCEPT !.out = FALSE, !.lastLineState2 = FALSE, !.lastLineState = FALSE,
                   !.stamps = @ \cup IF d.lastLineState THEN {"bit", "change"}
                                                       ELSE {"change"}]

\* HasRaised and HasLowered: an edge that Process finds on the line.
HasChanged(d, level) ==
    [d EXCEPT !.lastLineState = level,
              !.stamps = IF level THEN {"change"} ELSE {"bit", "change"}]

-----------------------------------------------------------------------------
(* The state resets.  ResetTransmit(false) is NewFrame, ResetTransmit(true) *)
(* is Retransmit; the C functions call one another, but no deeper than     *)
(* written here.                                                           *)

NewFrame(d) ==
    [d EXCEPT !.ePrimary = "TRANSMIT", !.eSecondary = "IDLE_WAIT",
              !.eTertiary = IF d.amLastTransmittor THEN IDLE_SUBSEQUENT_FRAME
                                                   ELSE IDLE_NEW_FRAME,
              !.transmitPending = FALSE, !.xmitretry = 0]

\* Variants marked "Slip" are plausible programming errors, each next to the
\* definition it would replace; no definition of the model uses them.

\* Slip: the end-of-message flag survives the reset.
ToIdleKeepingEom(d) ==
    [d EXCEPT !.ePrimary = "IDLE", !.eSecondary = "RCV_STARTBIT1", !.eTertiary = 0,
              !.follower = FALSE, !.broadcast = FALSE, !.rxByte = 0, !.rxBit = 7]

ToIdle(d) ==
    [d EXCEPT !.ePrimary = "IDLE", !.eSecondary = "RCV_STARTBIT1", !.eTertiary = 0,
              !.eom = FALSE, !.follower = FALSE, !.broadcast = FALSE,
              !.rxByte = 0, !.rxBit = 7]

ResetState(d) == IF d.transmitPending THEN NewFrame(ToIdle(d)) ELSE ToIdle(d)

\* "ResetState() ? micros() : -1", for the device before the reset.
WakeAfterReset(d) == IF d.transmitPending THEN Now ELSE Never

OnTransmitBegin(d) ==
    IF MonitorMode THEN d
    ELSE IF d.ePrimary = "IDLE" THEN NewFrame(d)
    ELSE [d EXCEPT !.transmitPending = TRUE]

-----------------------------------------------------------------------------
(* Allocation of the logical address (ProcessStateMachine).                *)

Candidate(index) == ValidLogicalAddresses[DeviceType][index + 1]

\* Poll the candidate: a frame of one block, to and from the candidate.
Poll(d) ==
    [OnTransmitBegin(PutHeader(d, Candidate(d.tertiaryState)))
        EXCEPT !.secondaryState = "CEC_RCV_POLLING_MESSAGE"]

\* ProcessStateMachine(NULL), looped until it asks to wait.
Pump(d) ==
    IF d.primaryState = "CEC_ALLOCATE_LOGICAL_ADDRESS"
    THEN IF d.secondaryState = "CEC_XMIT_POLLING_MESSAGE" THEN Poll(d) ELSE d
    ELSE [d EXCEPT !.primaryState = "CEC_IDLE"]

\* Slip: the poll goes out before the next candidate is chosen.
NextCandidateTooLate(d) ==
    IF Candidate(d.tertiaryState + 1) # CLA_UNREGISTERED
    THEN [Poll(d) EXCEPT !.tertiaryState = @ + 1]
    ELSE [d EXCEPT !.tertiaryState = @ + 1, !.logicalAddress = CLA_UNREGISTERED,
                   !.primaryState = "CEC_IDLE"]

\* The candidate answered: poll the next one, or stay unregistered.
NextCandidate(d) ==
    LET next == [d EXCEPT !.tertiaryState = @ + 1]
    IN  IF Candidate(next.tertiaryState) # CLA_UNREGISTERED THEN Poll(next)
        ELSE [next EXCEPT !.logicalAddress = CLA_UNREGISTERED, !.primaryState = "CEC_IDLE"]

\* Nobody answered: the candidate is ours.
Claim(d) ==
    [d EXCEPT !.logicalAddress = Candidate(d.tertiaryState),
              !.address = Candidate(d.tertiaryState),
              !.primaryState = "CEC_IDLE"]

Allocating(d) ==
    /\ d.primaryState = "CEC_ALLOCATE_LOGICAL_ADDRESS"
    /\ d.secondaryState = "CEC_RCV_POLLING_MESSAGE"
    /\ d.logicalAddress = CLA_UNREGISTERED

\* Slip: the end of any frame is taken for the end of a poll.
OnTransmitCompleteAlways(d, success) == IF success THEN NextCandidate(d) ELSE Claim(d)

OnTransmitComplete(d, success) ==
    IF ~Allocating(d) THEN d ELSE IF success THEN NextCandidate(d) ELSE Claim(d)

\* Slip: the retry counter is compared before it is incremented.
RetransmitOnceMore(d) ==
    IF d.xmitretry = CEC_E_MAX_RETRANSMIT
    THEN OnTransmitComplete([ToIdle(d) EXCEPT !.transmitPending = FALSE,
                                              !.xmitretry = @ + 1], FALSE)
    ELSE [ResetTransmitBuffer(d) EXCEPT
            !.ePrimary = "TRANSMIT", !.eSecondary = "IDLE_WAIT",
            !.eTertiary = IDLE_RETRANSMIT_FRAME,
            !.transmitPending = FALSE, !.xmitretry = @ + 1]

\* Slip: the retransmission goes on from where the collision stopped it.
RetransmitTheRest(d) ==
    IF d.xmitretry + 1 = CEC_E_MAX_RETRANSMIT
    THEN OnTransmitComplete([ToIdle(d) EXCEPT !.transmitPending = FALSE,
                                              !.xmitretry = @ + 1], FALSE)
    ELSE [d EXCEPT
            !.ePrimary = "TRANSMIT", !.eSecondary = "IDLE_WAIT",
            !.eTertiary = IDLE_RETRANSMIT_FRAME,
            !.transmitPending = FALSE, !.xmitretry = @ + 1]

Retransmit(d) ==
    IF d.xmitretry + 1 = CEC_E_MAX_RETRANSMIT
    THEN OnTransmitComplete([ToIdle(d) EXCEPT !.transmitPending = FALSE,
                                              !.xmitretry = @ + 1], FALSE)
    ELSE [ResetTransmitBuffer(d) EXCEPT
            !.ePrimary = "TRANSMIT", !.eSecondary = "IDLE_WAIT",
            !.eTertiary = IDLE_RETRANSMIT_FRAME,
            !.transmitPending = FALSE, !.xmitretry = @ + 1]

-----------------------------------------------------------------------------
(* The object after its constructor and Initialize(DeviceType).            *)

NewDevice(line) ==
    [ePrimary |-> "IDLE", eSecondary |-> "RCV_STARTBIT1", eTertiary |-> 0,
     xmitretry |-> 0, eom |-> FALSE, follower |-> FALSE, broadcast |-> FALSE,
     amLastTransmittor |-> FALSE, transmitPending |-> FALSE,
     rxByte |-> 0, rxBit |-> 7, txByte |-> 0, txBit |-> 7, txCount |-> 0, txDest |-> 0,
     out |-> TRUE, lastLineState |-> line, lastLineState2 |-> TRUE,
     isrTriggered |-> FALSE, stamps |-> {"change"}, waitTime |-> LongPast,
     primaryState |-> IF MonitorMode THEN "CEC_READY" ELSE "CEC_ALLOCATE_LOGICAL_ADDRESS",
     secondaryState |-> "CEC_XMIT_POLLING_MESSAGE", tertiaryState |-> 0,
     logicalAddress |-> CLA_UNREGISTERED, address |-> CLA_UNREGISTERED]

\* TransmitFrame(dest, buffer, count) when it does not refuse at once.
TransmitFrame(d, dest, count) ==
    LET h == PutHeader(d, dest)
    IN  IF Fits(h, count) THEN OnTransmitBegin(TransmitPartial(h, count)) ELSE h
=============================================================================
