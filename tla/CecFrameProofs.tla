---------------------------- MODULE CecFrameProofs ----------------------------
(***************************************************************************)
(* The bookkeeping of frames: the receive cursor and the flags of a        *)
(* reception (Rx) agree with the bit the engine is at, and so does the     *)
(* transmit cursor (Tx).  Rx holds whatever the host does; Tx needs a host *)
(* that waits for a frame to end before it hands over the next (HostPaced).*)
(* And a receiver is at the edge it takes the next one for (InPhase).      *)
(***************************************************************************)
EXTENDS CecEngineProofs

-----------------------------------------------------------------------------
(* The invariants, of a device.                                            *)

\* Nothing is being received, and nothing of an earlier reception is left.
Clean(d) ==
    /\ d.ePrimary # "RECEIVE"
    /\ ~d.eom /\ ~d.follower /\ d.rxByte = 0 /\ d.rxBit = 7

\* The bits of a block are being received, before the last of them.
InBlock(d) ==
    \/ d.eSecondary = "RCV_DATABIT1" /\ d.eTertiary < RCV_BIT_EOM
    \/ d.eSecondary = "RCV_DATABIT2" /\ d.eTertiary < RCV_BIT_EOM - 1

\* The block is received, the last data bit to the acknowledge.
AtEndOfBlock(d) ==
    \/ d.eSecondary = "RCV_DATABIT1" /\ d.eTertiary = RCV_BIT_EOM
    \/ d.eSecondary = "RCV_DATABIT2" /\ d.eTertiary >= RCV_BIT_EOM - 1
    \/ d.eSecondary \in {"RCV_ACK1", "RCV_ACK2", "RCV_ACK_SENT"}

\* There is no EOM yet: before the EOM bit has been received, and again when a
\* block has been acknowledged that is not the last one.
MoreToCome(d) ==
    \/ d.eSecondary \in {"RCV_STARTBIT1", "RCV_STARTBIT2", "RCV_DATABIT1", "RCV_ACK2"}
    \/ d.eSecondary = "RCV_DATABIT2" /\ d.eTertiary < RCV_BIT_EOM

\* How far the receive cursor is, and that there is room for the next block.
RxCursor(d) ==
    /\ d.eSecondary \in RcvStates
    /\ d.eSecondary \in {"RCV_STARTBIT1", "RCV_STARTBIT2"} => d.rxByte = 0 /\ d.rxBit = 7
    /\ InBlock(d) =>
        /\ d.rxBit = (IF d.eSecondary = "RCV_DATABIT1" THEN 7 ELSE 6) - d.eTertiary
        /\ d.rxByte < SERIAL_BUFFER_SIZE
    /\ AtEndOfBlock(d) => d.rxBit = 7 /\ d.rxByte > 0

\* A block that is not the last one leaves room for another.
HasRoom(d) == d.eom \/ d.rxByte < SERIAL_BUFFER_SIZE

RxEnd(d) ==
    /\ MoreToCome(d) => ~d.eom
    /\ d.eSecondary = "RCV_DATABIT2" => d.eTertiary < RCV_BIT_EOM \/ HasRoom(d)
    /\ d.eSecondary \in {"RCV_ACK1", "RCV_ACK2", "RCV_ACK_SENT"} => HasRoom(d)

\* Past its header block the frame is known to be for this device, or for all.
PastHeader(d) ==
    \/ d.rxByte > 1
    \/ d.rxByte = 1 /\ InBlock(d)
    \/ d.eSecondary \in {"RCV_ACK1", "RCV_ACK2", "RCV_ACK_SENT"}

Addressed(d) == Promiscuous \/ d.follower \/ d.broadcast

Rx(d) ==
    \/ Clean(d)
    \/ d.ePrimary = "RECEIVE" /\ RxCursor(d) /\ RxEnd(d) /\ (PastHeader(d) => Addressed(d))

\* No frame is queued or being sent.
Free(d) == d.ePrimary # "TRANSMIT" /\ ~d.transmitPending

\* A frame is in the transmit buffer, and the cursor at its start.
Queued(d) == d.txCount > 0 /\ d.txByte = 0 /\ d.txBit = 7

\* How far the transmit cursor is.
Sending(d) ==
    /\ d.eSecondary \in XmitStates
    /\ d.txCount > 0
    /\ d.eSecondary \in {"IDLE_WAIT", "XMIT_STARTBIT1", "XMIT_STARTBIT2"} => Queued(d)
    /\ d.eSecondary \in {"XMIT_DATABIT1", "XMIT_DATABIT2"} =>
        IF d.eTertiary < XMIT_BIT_EOM - 1
        THEN d.txBit = 18 - d.eTertiary /\ d.txByte < d.txCount
        ELSE d.txBit = 7 /\ d.txByte > 0
    /\ d.eSecondary \in XmitAckStates => d.txBit = 7 /\ d.txByte > 0
    /\ d.eSecondary = "XMIT_ACK3" => d.txByte < d.txCount

\* The first poll has not been queued yet.
ToPoll(d) ==
    /\ d.primaryState = "CEC_ALLOCATE_LOGICAL_ADDRESS"
    /\ d.secondaryState = "CEC_XMIT_POLLING_MESSAGE"

Tx(d) ==
    /\ d.ePrimary = "TRANSMIT" => Sending(d) /\ ~d.transmitPending
    /\ d.transmitPending => Queued(d)
    /\ ToPoll(d) => Free(d)

-----------------------------------------------------------------------------
(* They depend on a few fields only; TxFields also has the rest of the     *)
(* frame to send and of the allocation, which move with them.              *)

RxFields ==
    {"ePrimary", "eSecondary", "eTertiary", "eom", "follower", "broadcast", "rxByte", "rxBit"}
TxFields ==
    {"ePrimary", "eSecondary", "eTertiary", "transmitPending", "txByte", "txBit", "txCount",
     "txDest", "primaryState", "secondaryState", "tertiaryState", "logicalAddress"}

\* e is d in these fields.
Agrees(d, e, fields) == \A f \in fields : e[f] = d[f]

LEMMA RxAgrees == ASSUME NEW d, NEW e, Agrees(d, e, RxFields), Rx(d) PROVE Rx(e)
  BY DEF Agrees, RxFields, Rx, Clean, RxCursor, RxEnd, PastHeader, Addressed, InBlock,
         AtEndOfBlock, MoreToCome, HasRoom

LEMMA TxAgrees == ASSUME NEW d, NEW e, Agrees(d, e, TxFields), Tx(d) PROVE Tx(e)
  BY DEF Agrees, TxFields, Tx, Sending, Queued, Free, ToPoll

LEMMA CleanRx == ASSUME NEW d, Clean(d) PROVE Rx(d)
  BY DEF Rx

\* A reception leaves the transmit buffer and the allocation alone.
TxStill == TxFields \ {"ePrimary", "eSecondary", "eTertiary"}

LEMMA TxOutside ==
    ASSUME NEW d, NEW e, Agrees(d, e, TxStill), Tx(d),
           d.ePrimary # "TRANSMIT", e.ePrimary # "TRANSMIT"
    PROVE  Tx(e)
  BY DEF Agrees, TxStill, TxFields, Tx, Queued, Free, ToPoll

-----------------------------------------------------------------------------
(* What the member functions leave alone.                                  *)

LineFields == {"out", "lastLineState", "lastLineState2", "stamps"}

LEMMA LowerAgrees ==
    ASSUME NEW d, IsDevice(d)
    PROVE  IsDevice(Lower(d)) /\ Agrees(d, Lower(d), Fields \ LineFields)
  BY DEF Lower, Agrees, LineFields, IsDevice, Fields

LEMMA RaiseAgrees ==
    ASSUME NEW d, IsDevice(d), NEW o
    PROVE  IsDevice(Raise(d, o)) /\ Agrees(d, Raise(d, o), Fields \ LineFields)
  BY DEF Raise, Agrees, LineFields, IsDevice, Fields

LEMMA PutHeaderAgrees ==
    ASSUME NEW d, IsDevice(d), NEW x
    PROVE  /\ IsDevice(PutHeader(d, x)) /\ Queued(PutHeader(d, x))
           /\ PutHeader(d, x).txCount = 1 /\ PutHeader(d, x).txDest = x
           /\ Agrees(d, PutHeader(d, x), Fields \ {"txCount", "txByte", "txBit", "txDest"})
  <1> DEFINE c == ClearTransmitBuffer(d)
             p == TransmitPartial(c, 1)
  <1>1. /\ IsDevice(c) /\ c.txCount = 0
        /\ Agrees(d, c, Fields \ {"txCount", "txByte", "txBit", "txDest"})
    BY DEF ClearTransmitBuffer, Agrees, IsDevice, Fields
  <1> HIDE DEF c
  <1>2. /\ IsDevice(p) /\ p.txCount = 1 /\ p.txByte = 0 /\ p.txBit = 7
        /\ Agrees(c, p, Fields \ {"txCount", "txByte", "txBit", "txDest"})
    <2>1. p = [c EXCEPT !.txCount = 1, !.txByte = 0, !.txBit = 7]
      BY <1>1 DEF TransmitPartial
    <2> HIDE DEF p
    <2> QED BY <1>1, <2>1 DEF Agrees, IsDevice, Fields
  <1>3. PutHeader(d, x) = [p EXCEPT !.txDest = x]
    BY DEF PutHeader, c
  <1> HIDE DEF p
  <1>4. /\ IsDevice(PutHeader(d, x)) /\ PutHeader(d, x).txCount = 1
        /\ PutHeader(d, x).txByte = 0 /\ PutHeader(d, x).txBit = 7
        /\ PutHeader(d, x).txDest = x
        /\ Agrees(p, PutHeader(d, x), Fields \ {"txCount", "txByte", "txBit", "txDest"})
    BY <1>2, <1>3 DEF Agrees, IsDevice, Fields
  <1> QED BY <1>1, <1>2, <1>4 DEF Agrees, Queued

LEMMA SeenAgrees ==
    ASSUME IInv PROVE IsDevice(Seen) /\ Agrees(dev, Seen, Fields \ LineFields)
  BY SeenSound DEF Agrees, LineFields, Sound

LEMMA ReturnsAgrees ==
    ASSUME NEW d, IsDevice(d), NEW w, Returns(d, w)
    PROVE  Agrees(d, dev', Fields \ {"waitTime"})
  BY DEF Returns, Agrees, IsDevice, Fields

LEMMA FieldSets ==
    /\ RxFields \subseteq Fields \ LineFields /\ RxFields \subseteq Fields \ {"waitTime"}
    /\ TxFields \subseteq Fields \ LineFields /\ TxFields \subseteq Fields \ {"waitTime"}
    /\ TxStill \subseteq TxFields
    /\ RxFields \subseteq Fields \ {"txCount", "txByte", "txBit", "txDest"}
  BY DEF RxFields, TxFields, TxStill, Fields, LineFields

LEMMA AgreesFor ==
    ASSUME NEW d, NEW e, NEW S, NEW T, Agrees(d, e, S), T \subseteq S
    PROVE  Agrees(d, e, T)
  BY DEF Agrees

-----------------------------------------------------------------------------
(* Rx: the resets, the queueing and the allocation.                        *)

LEMMA ToIdleRx ==
    ASSUME NEW d, IsDevice(d) PROVE IsDevice(ToIdle(d)) /\ Clean(ToIdle(d))
  BY ZenonT(60) DEF ToIdle, Clean, IsDevice, Fields

LEMMA NewFrameRx ==
    ASSUME NEW d, IsDevice(d), Clean(d) PROVE IsDevice(NewFrame(d)) /\ Clean(NewFrame(d))
  BY DEF NewFrame, Clean, IsDevice, Fields

LEMMA ResetStateRx ==
    ASSUME NEW d, IsDevice(d) PROVE IsDevice(ResetState(d)) /\ Clean(ResetState(d))
  BY ToIdleRx, NewFrameRx DEF ResetState

LEMMA OnTransmitBeginRx ==
    ASSUME NEW d, IsDevice(d), Rx(d)
    PROVE  IsDevice(OnTransmitBegin(d)) /\ Rx(OnTransmitBegin(d))
  <1> DEFINE p == [d EXCEPT !.transmitPending = TRUE]
  <1>1. IsDevice(p) /\ Agrees(d, p, RxFields)
    BY DEF Agrees, RxFields, IsDevice, Fields
  <1>2. Rx(p)
    BY <1>1, RxAgrees
  <1>3. CASE d.ePrimary = "IDLE"
    BY <1>3, NewFrameRx, CleanRx DEF Rx, OnTransmitBegin
  <1>4. CASE d.ePrimary # "IDLE"
    BY <1>1, <1>2, <1>4 DEF OnTransmitBegin
  <1> QED BY <1>3, <1>4

LEMMA PutHeaderRx == ASSUME NEW d, IsDevice(d), Rx(d), NEW x PROVE Rx(PutHeader(d, x))
  BY PutHeaderAgrees, RxAgrees, AgreesFor, FieldSets

LEMMA PollRx == ASSUME NEW d, IsDevice(d), Rx(d) PROVE IsDevice(Poll(d)) /\ Rx(Poll(d))
  <1> DEFINE h == PutHeader(d, Candidate(d.tertiaryState))
             b == OnTransmitBegin(h)
             e == [b EXCEPT !.secondaryState = "CEC_RCV_POLLING_MESSAGE"]
  <1>1. IsDevice(h) /\ Rx(h)
    BY PutHeaderAgrees, PutHeaderRx
  <1> HIDE DEF h
  <1>2. IsDevice(b) /\ Rx(b)
    BY <1>1, OnTransmitBeginRx
  <1> HIDE DEF b
  <1>3. IsDevice(e) /\ Agrees(b, e, RxFields)
    BY <1>2 DEF Agrees, RxFields, IsDevice, Fields
  <1>4. e = Poll(d)
    BY DEF Poll, b, h
  <1> HIDE DEF e
  <1> QED BY <1>2, <1>3, <1>4, RxAgrees

LEMMA OnTransmitCompleteRx ==
    ASSUME NEW d, IsDevice(d), Rx(d), NEW success
    PROVE  IsDevice(OnTransmitComplete(d, success)) /\ Rx(OnTransmitComplete(d, success))
  <1> DEFINE n == [d EXCEPT !.tertiaryState = @ + 1]
             r == [n EXCEPT !.logicalAddress = CLA_UNREGISTERED,
                            !.primaryState = "CEC_IDLE"]
  <1>1. IsDevice(n) /\ Agrees(d, n, RxFields)
    BY DEF Agrees, RxFields, IsDevice, Fields
  <1>2. IsDevice(r) /\ Agrees(d, r, RxFields)
    BY DEF Agrees, RxFields, IsDevice, Fields
  <1>3. IsDevice(Claim(d)) /\ Agrees(d, Claim(d), RxFields)
    BY DEF Claim, Agrees, RxFields, IsDevice, Fields
  <1>4. Rx(n) /\ Rx(r) /\ Rx(Claim(d))
    BY <1>1, <1>2, <1>3, RxAgrees
  <1>5. IsDevice(NextCandidate(d)) /\ Rx(NextCandidate(d))
    BY <1>1, <1>2, <1>4, PollRx DEF NextCandidate
  <1> QED BY <1>3, <1>4, <1>5 DEF OnTransmitComplete

LEMMA RetransmitRx ==
    ASSUME NEW d, IsDevice(d), Clean(d)
    PROVE  IsDevice(Retransmit(d)) /\ Rx(Retransmit(d))
  <1> DEFINE i == [ToIdle(d) EXCEPT !.transmitPending = FALSE, !.xmitretry = @ + 1]
             r == [ResetTransmitBuffer(d) EXCEPT
                      !.ePrimary = "TRANSMIT", !.eSecondary = "IDLE_WAIT",
                      !.eTertiary = IDLE_RETRANSMIT_FRAME,
                      !.transmitPending = FALSE, !.xmitretry = @ + 1]
  <1>1. IsDevice(i) /\ Clean(i)
    <2> DEFINE c == ToIdle(d)
    <2>1. IsDevice(c) /\ Clean(c)
      BY ToIdleRx
    <2> HIDE DEF c
    <2>2. i = [c EXCEPT !.transmitPending = FALSE, !.xmitretry = @ + 1]
      BY DEF c
    <2> HIDE DEF i
    <2>3. IsDevice(i) /\ Agrees(c, i, Fields \ {"transmitPending", "xmitretry"})
      BY <2>1, <2>2 DEF Agrees, IsDevice, Fields
    <2> QED BY <2>1, <2>3 DEF Agrees, Clean, Fields
  <1>2. IsDevice(r) /\ Clean(r)
    <2> DEFINE c == ResetTransmitBuffer(d)
    <2>1. IsDevice(c) /\ Agrees(d, c, Fields \ {"txByte", "txBit"})
      BY DEF ResetTransmitBuffer, Agrees, IsDevice, Fields
    <2> HIDE DEF c
    <2>2. r = [c EXCEPT !.ePrimary = "TRANSMIT", !.eSecondary = "IDLE_WAIT",
                        !.eTertiary = IDLE_RETRANSMIT_FRAME,
                        !.transmitPending = FALSE, !.xmitretry = @ + 1]
      BY DEF c
    <2> HIDE DEF r
    <2>3. /\ IsDevice(r) /\ r.ePrimary = "TRANSMIT"
          /\ Agrees(c, r, {"eom", "follower", "rxByte", "rxBit"})
      BY <2>1, <2>2 DEF Agrees, IsDevice, Fields
    <2> QED BY <2>1, <2>3 DEF Agrees, Clean, Fields
  <1> QED BY <1>1, <1>2, CleanRx, OnTransmitCompleteRx DEF Retransmit

LEMMA PumpRx == ASSUME NEW d, IsDevice(d), Rx(d) PROVE Rx(Pump(d))
  <1>1. Agrees(d, [d EXCEPT !.primaryState = "CEC_IDLE"], RxFields)
    BY DEF Agrees, RxFields, IsDevice, Fields
  <1>2. Rx([d EXCEPT !.primaryState = "CEC_IDLE"])
    BY <1>1, RxAgrees
  <1> QED BY <1>2, PollRx DEF Pump

LEMMA TransmitFrameRx ==
    ASSUME NEW d, IsDevice(d), Rx(d), NEW x, NEW n PROVE Rx(TransmitFrame(d, x, n))
  <1> DEFINE h == PutHeader(d, x)
             p == TransmitPartial(h, n)
  <1>1. IsDevice(h) /\ Rx(h)
    BY PutHeaderAgrees, PutHeaderRx
  <1> HIDE DEF h
  <1>2. IsDevice(p) /\ Agrees(h, p, RxFields)
    BY <1>1 DEF TransmitPartial, Agrees, RxFields, IsDevice, Fields
  <1>3. Rx(OnTransmitBegin(p))
    BY <1>1, <1>2, RxAgrees, OnTransmitBeginRx
  <1> QED BY <1>1, <1>3 DEF TransmitFrame, h

-----------------------------------------------------------------------------
(* Rx: how Process returns, and the steps outside it.                      *)

LEMMA ReturnsRx ==
    ASSUME NEW d, IsDevice(d), Rx(d), NEW w, Returns(d, w) PROVE Rx(dev')
  BY ReturnsAgrees, RxAgrees, AgreesFor, FieldSets

LEMMA ResetsRx == ASSUME NEW d, IsDevice(d), Resets(d) PROVE Rx(dev')
  BY ResetStateRx, CleanRx, ReturnsRx DEF Resets

LEMMA LineErrorRx ==
    ASSUME NEW d, IsDevice(d), LineError(d), d.ePrimary = "RECEIVE" PROVE Rx(dev')
  <1> DEFINE g == [d EXCEPT !.eSecondary = "RCV_LINEERROR"]
             e == Lower(g)
             w == Deadline("now", 3600)
  <1>1. CASE d.follower \/ d.broadcast
    <2>1. /\ IsDevice(g) /\ g.ePrimary = "RECEIVE" /\ g.eSecondary = "RCV_LINEERROR"
          /\ (g.follower \/ g.broadcast)
      BY <1>1 DEF IsDevice, Fields
    <2>2. Returns(e, w)
      BY <1>1 DEF LineError
    <2> HIDE DEF g, w
    <2>3. Rx(g)
      BY <2>1 DEF Rx, RxCursor, RxEnd, Addressed, InBlock, AtEndOfBlock, MoreToCome,
                  RcvStates, RcvTimed
    <2>4. IsDevice(e) /\ Rx(e)
      BY <2>1, <2>3, LowerAgrees, RxAgrees, AgreesFor, FieldSets
    <2> HIDE DEF e
    <2> QED BY <2>2, <2>4, ReturnsRx
  <1>2. CASE ~(d.follower \/ d.broadcast)
    BY <1>2, ResetsRx DEF LineError
  <1> QED BY <1>1, <1>2

LEMMA SeenRx ==
    ASSUME IInv, Rx(dev)
    PROVE  /\ IsDevice(Seen) /\ Sound(Seen) /\ Counting(Seen) /\ Rx(Seen)
           /\ Agrees(dev, Seen, Fields \ LineFields)
  BY SeenAgrees, SeenSound, RxAgrees, AgreesFor, FieldSets

LEMMA RunRx == ASSUME IInv, Rx(dev), Run PROVE Rx(dev')
  <1> DEFINE s == Sampled
             p == Pump(s)
             e == [p EXCEPT !.isrTriggered = FALSE]
  <1>1. IsDevice(s) /\ Agrees(dev, s, RxFields)
    BY DEF Sampled, Agrees, RxFields, IInv, Stable, Sound, IsDevice, Fields
  <1>2. dev' = p \/ dev' = e
    BY DEF Run, RunDue, RunInterrupted, RunAsleep, Pumped
  <1> HIDE DEF s
  <1>3. IsDevice(p) /\ Rx(p)
    BY <1>1, RxAgrees, PumpRx, PumpLine DEF SameLine
  <1> HIDE DEF p
  <1>4. Agrees(p, e, RxFields)
    BY <1>3 DEF Agrees, RxFields, IsDevice, Fields
  <1> HIDE DEF e
  <1> QED BY <1>2, <1>3, <1>4, RxAgrees

LEMMA HostRx == ASSUME IInv, Rx(dev), Host PROVE Rx(dev')
  <1> PICK dest \in Destinations, count \in FrameSizes : HostTransmit(dest, count)
    BY DEF Host
  <1>1. IsDevice(dev)
    BY DEF IInv, Stable, Sound
  <1> QED BY <1>1, TransmitFrameRx DEF HostTransmit

-----------------------------------------------------------------------------
(* Rx: the steps of Process outside a reception.                           *)

LEMMA IdleRx == ASSUME IInv, Rx(dev), Spurious \/ IdleEdge \/ IdleWaitEdge PROVE Rx(dev')
  <1> DEFINE d == Seen
             q == [dev EXCEPT !.stamps = {}]
             i == [d EXCEPT !.ePrimary = "RECEIVE", !.eSecondary = "RCV_STARTBIT1",
                            !.follower = FALSE, !.broadcast = FALSE,
                            !.amLastTransmittor = FALSE]
             r == [d EXCEPT !.ePrimary = "RECEIVE", !.eSecondary = "RCV_STARTBIT1",
                            !.transmitPending = TRUE]
  <1>1. IsDevice(d) /\ Rx(d) /\ d.ePrimary = dev.ePrimary
    BY SeenRx DEF Agrees, Fields, LineFields
  <1>2. IsDevice(q) /\ Agrees(dev, q, RxFields)
    BY DEF Agrees, RxFields, IInv, Stable, Sound, IsDevice, Fields
  <1>3. CASE Spurious
    <2>1. Returns(q, Never)
      BY <1>3 DEF Spurious
    <2> HIDE DEF q
    <2> QED BY <1>2, <2>1, RxAgrees, ReturnsRx
  <1>4. CASE IdleEdge \/ IdleWaitEdge
    <2>1. Returns(d, Never) \/ Returns(i, Never) \/ Returns(r, Never)
      BY <1>4 DEF IdleEdge, IdleWaitEdge
    <2>2. Clean(d)
      BY <1>1, <1>4 DEF Rx, IdleEdge, IdleWaitEdge, Transmitting
    <2> HIDE DEF d
    <2>3. /\ IsDevice(i) /\ i.ePrimary = "RECEIVE" /\ i.eSecondary = "RCV_STARTBIT1"
          /\ ~i.eom /\ i.rxByte = 0 /\ i.rxBit = 7
      BY <1>1, <2>2 DEF Clean, IsDevice, Fields
    <2>4. /\ IsDevice(r) /\ r.ePrimary = "RECEIVE" /\ r.eSecondary = "RCV_STARTBIT1"
          /\ ~r.eom /\ r.rxByte = 0 /\ r.rxBit = 7
      BY <1>1, <2>2 DEF Clean, IsDevice, Fields
    <2> HIDE DEF i, r
    <2>5. Rx(i) /\ Rx(r)
      BY <2>3, <2>4 DEF Rx, RxCursor, RxEnd, PastHeader, InBlock, AtEndOfBlock, MoreToCome,
                        RcvStates, RcvTimed
    <2> QED BY <1>1, <2>1, <2>3, <2>4, <2>5, ReturnsRx
  <1> QED BY <1>3, <1>4

LEMMA RetransmitsRx ==
    ASSUME NEW d, IsDevice(d), Clean(d), NEW w, Returns(Retransmit(d), w) PROVE Rx(dev')
  BY RetransmitRx, ReturnsRx

LEMMA CompletesRx ==
    ASSUME NEW d, IsDevice(d), NEW success, NEW w,
           Returns(OnTransmitComplete(ResetState(d), success), w)
    PROVE  Rx(dev')
  BY ResetStateRx, CleanRx, OnTransmitCompleteRx, ReturnsRx

-----------------------------------------------------------------------------
(* What the steps of a transmission do: they go on, or give up the frame.  *)

SentFields ==
    LineFields \cup {"waitTime", "amLastTransmittor", "broadcast", "eSecondary", "eTertiary",
                     "txBit", "txByte"}

\* The step goes on to the state s, the bit counter at n and the cursor as in p.
Sends(s, n, p) ==
    /\ dev'.eSecondary = s /\ dev'.eTertiary = n
    /\ dev'.txBit = p.txBit /\ dev'.txByte = p.txByte
    /\ Agrees(dev, dev', Fields \ SentFields)

\* The step puts the frame back to be sent again, if it has tries left, or tells
\* the allocation that it is over.
Retransmits ==
    \E d, w : /\ Sound(d) /\ Agrees(dev, d, Fields \ LineFields)
              /\ Returns(Retransmit(d), w)
Completes(success) ==
    \E d, w : /\ Sound(d) /\ Agrees(dev, d, Fields \ LineFields)
              /\ Returns(OnTransmitComplete(ResetState(d), success), w)
GivesUp == Retransmits \/ \E success \in BOOLEAN : Completes(success)

LEMMA SendsBy ==
    ASSUME IInv, NEW d, IsDevice(d), NEW w, Returns(d, w),
           Agrees(dev, d, Fields \ SentFields)
    PROVE  Sends(d.eSecondary, d.eTertiary, d)
  <1>1. Agrees(d, dev', Fields \ {"waitTime"})
    BY ReturnsAgrees
  <1> QED BY <1>1 DEF Sends, Agrees, SentFields, Fields, LineFields

LEMMA StaysSends ==
    ASSUME IInv, AckEdge \/ IdleWaitLow \/ IdleWaitMore
    PROVE  Sends(dev.eSecondary, dev.eTertiary, dev)
  <1> DEFINE d == Seen
             w == Deadline("change", NeededIdleTime(dev))
  <1>1. IsDevice(d) /\ Agrees(dev, d, Fields \ LineFields)
    BY SeenAgrees
  <1>2. Returns(d, Never) \/ Returns(d, dev.waitTime) \/ Returns(d, w)
    BY DEF AckEdge, IdleWaitLow, IdleWaitMore
  <1> HIDE DEF d, w
  <1>3. Agrees(dev, d, Fields \ SentFields)
    BY <1>1 DEF Agrees, SentFields
  <1>4. Sends(d.eSecondary, d.eTertiary, d)
    BY <1>1, <1>2, <1>3, SendsBy
  <1> QED BY <1>1, <1>4 DEF Sends, Agrees, Fields, LineFields

LEMMA BeginFrameSends ==
    ASSUME IInv, BeginFrame PROVE Sends("XMIT_STARTBIT1", dev.eTertiary, dev)
  <1> DEFINE l == Lower(Seen)
             e == [l EXCEPT !.amLastTransmittor = TRUE,
                            !.broadcast = (dev.txDest = BROADCAST),
                            !.eSecondary = "XMIT_STARTBIT1"]
  <1>1. IsDevice(l) /\ Agrees(dev, l, Fields \ LineFields)
    BY SeenAgrees, LowerAgrees DEF Agrees
  <1>2. Returns(e, Deadline("bit", 3700))
    BY DEF BeginFrame
  <1> HIDE DEF l
  <1>3. /\ IsDevice(e) /\ e.eSecondary = "XMIT_STARTBIT1"
        /\ Agrees(l, e, Fields \ {"amLastTransmittor", "broadcast", "eSecondary"})
    BY <1>1 DEF Agrees, IsDevice, Fields
  <1> HIDE DEF e
  <1>4. Agrees(dev, e, Fields \ SentFields)
    BY <1>1, <1>3 DEF Agrees, SentFields
  <1>5. Sends(e.eSecondary, e.eTertiary, e)
    BY <1>2, <1>3, <1>4, SendsBy
  <1> QED BY <1>1, <1>3, <1>5 DEF Sends, Agrees, Fields, LineFields

\* From a device that differs from dev in the line only.
LEMMA GotoSends ==
    ASSUME IInv, NEW d, IsDevice(d), Agrees(dev, d, Fields \ LineFields), NEW s, NEW w,
           Returns([d EXCEPT !.eSecondary = s], w)
    PROVE  Sends(s, dev.eTertiary, dev)
  <1> DEFINE e == [d EXCEPT !.eSecondary = s]
  <1>1. IsDevice(e) /\ e.eSecondary = s /\ Agrees(d, e, Fields \ {"eSecondary"})
    BY DEF Agrees, IsDevice, Fields
  <1>2. Returns(e, w)
    OBVIOUS
  <1> HIDE DEF e
  <1>3. Agrees(dev, e, Fields \ SentFields)
    BY <1>1 DEF Agrees, SentFields
  <1>4. Sends(e.eSecondary, e.eTertiary, e)
    BY <1>1, <1>2, <1>3, SendsBy
  <1> QED BY <1>1, <1>4 DEF Sends, Agrees, Fields, LineFields

\* The device that has let go of the line, and the one that pulls it.
LEMMA RaisedSeen ==
    ASSUME IInv
    PROVE  /\ Sound(Raise(Seen, others)) /\ IsDevice(Raise(Seen, others))
           /\ Agrees(dev, Raise(Seen, others), Fields \ LineFields)
           /\ Sound(Lower(Seen)) /\ IsDevice(Lower(Seen))
           /\ Agrees(dev, Lower(Seen), Fields \ LineFields)
  <1>1. Sound(Seen) /\ IsDevice(Seen) /\ Agrees(dev, Seen, Fields \ LineFields)
    BY SeenSound, SeenAgrees
  <1>2. others \in BOOLEAN
    BY DEF IInv
  <1>3. Sound(Raise(Seen, others)) /\ Sound(Lower(Seen))
    BY <1>1, <1>2, RaiseSound, LowerSound
  <1>4. Agrees(Seen, Raise(Seen, others), Fields \ LineFields)
    BY <1>1, RaiseAgrees
  <1>5. Agrees(Seen, Lower(Seen), Fields \ LineFields)
    BY <1>1, LowerAgrees
  <1> QED BY <1>1, <1>3, <1>4, <1>5 DEF Sound, Agrees

LEMMA LowPartSends ==
    ASSUME IInv
    PROVE  /\ TransmitStartBit1 => Retransmits \/ Sends("XMIT_STARTBIT2", dev.eTertiary, dev)
           /\ TransmitDataBit1 =>
                \/ Retransmits
                \/ Sends(IF dev.eTertiary = XMIT_BIT_EOM THEN "XMIT_ACK" ELSE "XMIT_DATABIT2",
                         dev.eTertiary, dev)
           /\ TransmitAck2 => Sends("XMIT_ACK_TEST", dev.eTertiary, dev)
  <1> DEFINE d == Raise(Seen, others)
             s == IF dev.eTertiary = XMIT_BIT_EOM THEN "XMIT_ACK" ELSE "XMIT_DATABIT2"
             w == Deadline("bit", 2400)
  <1>1. Sound(d) /\ IsDevice(d) /\ Agrees(dev, d, Fields \ LineFields)
    BY RaisedSeen
  <1>2. d.eTertiary = dev.eTertiary
    BY <1>1 DEF Agrees, Fields, LineFields
  <1>3. ASSUME TransmitStartBit1
        PROVE  \/ Returns(Retransmit(d), Never)
               \/ Returns([d EXCEPT !.eSecondary = "XMIT_STARTBIT2"], Deadline("bit", 4500))
    BY <1>3 DEF TransmitStartBit1
  <1>4. ASSUME TransmitDataBit1
        PROVE  Returns(Retransmit(d), Never) \/ Returns([d EXCEPT !.eSecondary = s], w)
    BY <1>2, <1>4 DEF TransmitDataBit1
  <1>5. ASSUME TransmitAck2
        PROVE  Returns([d EXCEPT !.eSecondary = "XMIT_ACK_TEST"], Deadline("bit", 1050))
    BY <1>5 DEF TransmitAck2
  <1> HIDE DEF d, s, w
  <1>6. TransmitStartBit1 => Retransmits \/ Sends("XMIT_STARTBIT2", dev.eTertiary, dev)
    BY <1>1, <1>3, GotoSends DEF Retransmits
  <1>7. TransmitDataBit1 => Retransmits \/ Sends(s, dev.eTertiary, dev)
    BY <1>1, <1>4, GotoSends DEF Retransmits
  <1>8. TransmitAck2 => Sends("XMIT_ACK_TEST", dev.eTertiary, dev)
    BY <1>1, <1>5, GotoSends
  <1> QED BY <1>6, <1>7, <1>8 DEF s

LEMMA TransmitAckSends ==
    ASSUME IInv, TransmitAck PROVE Sends("XMIT_ACK2", dev.eTertiary, dev)
  <1>1. Returns([Lower(Seen) EXCEPT !.eSecondary = "XMIT_ACK2"], Deadline("bit", 600))
    BY DEF TransmitAck
  <1> QED BY <1>1, RaisedSeen, GotoSends

\* A pop depends on the cursor only, and changes nothing else.
LEMMA PopAgrees ==
    ASSUME NEW d, Sound(d), NEW e, Sound(e), Agrees(d, e, {"txByte", "txBit", "txCount"})
    PROVE  /\ PopTransmitBit(e).txBit = PopTransmitBit(d).txBit
           /\ PopTransmitBit(e).txByte = PopTransmitBit(d).txByte
  BY DEF PopTransmitBit, Agrees, Sound, IsDevice, Fields

LEMMA FirstBitSends ==
    ASSUME IInv, NEW bit, TransmitFirstBit(bit)
    PROVE  Sends("XMIT_DATABIT1", XMIT_BIT0, PopTransmitBit(dev))
  <1> DEFINE l == Lower(Seen)
             p == PopTransmitBit(l)
             e == Step(p, "XMIT_DATABIT1", XMIT_BIT0)
             w == Deadline("bit", LowTime(bit))
  <1>1. Sound(l) /\ Agrees(dev, l, Fields \ LineFields)
    BY RaisedSeen
  <1>2. Returns(e, w)
    BY DEF TransmitFirstBit, Step
  <1>3. Sound(dev) /\ Agrees(dev, l, {"txByte", "txBit", "txCount"})
    BY <1>1 DEF IInv, Stable, Agrees, Fields, LineFields
  <1> HIDE DEF l, w
  <1>4. /\ Sound(p) /\ Agrees(l, p, Fields \ {"txBit", "txByte"})
        /\ p.txBit = PopTransmitBit(dev).txBit /\ p.txByte = PopTransmitBit(dev).txByte
    BY <1>1, <1>3, PopTransmitBitFrame, PopAgrees DEF Agrees
  <1> HIDE DEF p
  <1>5. /\ IsDevice(e) /\ e.eSecondary = "XMIT_DATABIT1" /\ e.eTertiary = XMIT_BIT0
        /\ Agrees(p, e, Fields \ {"eSecondary", "eTertiary"})
    BY <1>4 DEF Step, Sound, Agrees, IsDevice, Fields
  <1> HIDE DEF e
  <1>6. Agrees(dev, e, Fields \ SentFields)
    BY <1>1, <1>4, <1>5 DEF Agrees, SentFields
  <1>7. Sends(e.eSecondary, e.eTertiary, e)
    BY <1>2, <1>5, <1>6, SendsBy
  <1> QED BY <1>4, <1>5, <1>7 DEF Sends, Agrees, Fields

LEMMA NextBitSends ==
    ASSUME IInv, NEW bit, TransmitDataBit2(bit)
    PROVE  Sends("XMIT_DATABIT1", dev.eTertiary + 1,
                 IF dev.eTertiary + 1 = XMIT_BIT_EOM THEN dev ELSE PopTransmitBit(dev))
  <1> DEFINE l == Lower(Seen)
             n == dev.eTertiary + 1
             d == Step(l, "XMIT_DATABIT1", n)
             p == PopTransmitBit(d)
             w == Deadline("bit", LowTime(bit))
  <1>1. Sound(l) /\ Agrees(dev, l, Fields \ LineFields) /\ Sound(dev)
    BY RaisedSeen DEF IInv, Stable
  <1>2. n \in 0..24
    BY DEF TransmitDataBit2, Timed, Transmitting, IInv, Stable, Counting, XMIT_BIT0,
           XMIT_BIT_EOM
  <1>3. Returns(IF n = XMIT_BIT_EOM THEN d ELSE p, w)
    <2>1. l.eTertiary = dev.eTertiary
      BY <1>1 DEF Agrees, Fields, LineFields
    <2>2. [l EXCEPT !.eTertiary = @ + 1, !.eSecondary = "XMIT_DATABIT1"] = d
      <3> HIDE DEF l
      <3> QED BY <1>1, <2>1 DEF Step, Sound, IsDevice, Fields
    <2>3. d.eTertiary = n
      <3> HIDE DEF l, n
      <3> QED BY <1>1 DEF Step, Sound, IsDevice, Fields
    <2> QED BY <2>2, <2>3 DEF TransmitDataBit2
  <1> HIDE DEF l, w, n
  <1>4. Stepped(l, "XMIT_DATABIT1", n)
    <2>1. "XMIT_DATABIT1" \in RcvStates \cup XmitStates
      BY XmitType
    <2> QED BY <1>1, <1>2, <2>1, StepSound
  <1>5. /\ Sound(d) /\ d.eSecondary = "XMIT_DATABIT1" /\ d.eTertiary = n
        /\ Agrees(l, d, Fields \ {"eSecondary", "eTertiary"})
    BY <1>4 DEF Stepped, Agrees
  <1> HIDE DEF d
  <1>6. Agrees(dev, d, {"txByte", "txBit", "txCount"})
    BY <1>1, <1>5 DEF Agrees, Fields, LineFields
  <1>7. /\ Sound(p) /\ Agrees(d, p, Fields \ {"txBit", "txByte"})
        /\ p.txBit = PopTransmitBit(dev).txBit /\ p.txByte = PopTransmitBit(dev).txByte
    BY <1>1, <1>5, <1>6, PopTransmitBitFrame, PopAgrees DEF Agrees
  <1> HIDE DEF p
  <1>8. CASE n = XMIT_BIT_EOM
    <2>1. Agrees(dev, d, Fields \ SentFields)
      BY <1>1, <1>5 DEF Agrees, SentFields
    <2>2. Sends(d.eSecondary, d.eTertiary, d)
      BY <1>3, <1>5, <1>8, <2>1, SendsBy DEF Sound
    <2> QED BY <1>5, <1>6, <1>8, <2>2 DEF Sends, Agrees, n
  <1>9. CASE n # XMIT_BIT_EOM
    <2>1. Agrees(dev, p, Fields \ SentFields)
      BY <1>1, <1>5, <1>7 DEF Agrees, SentFields
    <2>2. Sends(p.eSecondary, p.eTertiary, p)
      BY <1>3, <1>7, <1>9, <2>1, SendsBy DEF Sound
    <2>3. p.eSecondary = "XMIT_DATABIT1" /\ p.eTertiary = n
      BY <1>5, <1>7 DEF Agrees, Fields
    <2> QED BY <1>7, <1>9, <2>2, <2>3 DEF Sends, n
  <1> QED BY <1>8, <1>9

LEMMA Outcomes ==
    ASSUME IInv
    PROVE  /\ Collision => Retransmits
           /\ TransmitNotAcked =>
                IF RemainingTransmitBytes(dev) = 0 /\ dev.txCount = 1
                THEN Completes(FALSE) ELSE Retransmits
           /\ TransmitAcked =>
                IF RemainingTransmitBytes(dev) = 0
                THEN Completes(TRUE) ELSE Sends("XMIT_ACK3", dev.eTertiary, dev)
  <1> DEFINE again  == Returns(Retransmit(Seen), LongPast)
             failed == Returns(OnTransmitComplete(ResetState(Seen), FALSE), Never)
             sent   == Returns(OnTransmitComplete(ResetState(Seen), TRUE), Never)
             goesOn == Returns([Seen EXCEPT !.eSecondary = "XMIT_ACK3"], Deadline("bit", 2400))
             over   == RemainingTransmitBytes(dev) = 0
  <1>1. /\ Sound(Seen) /\ IsDevice(Seen) /\ Agrees(dev, Seen, Fields \ LineFields)
    BY SeenSound, SeenAgrees
  <1>2. /\ again => Retransmits
        /\ failed => Completes(FALSE)
        /\ sent => Completes(TRUE)
    BY <1>1 DEF Retransmits, Completes
  <1>3. goesOn => Sends("XMIT_ACK3", dev.eTertiary, dev)
    BY <1>1, GotoSends
  <1>4. Collision => again
    BY DEF Collision
  <1>5. TransmitNotAcked => IF over /\ dev.txCount = 1 THEN failed ELSE again
    BY DEF TransmitNotAcked
  <1>6. TransmitAcked => IF over THEN sent ELSE goesOn
    BY DEF TransmitAcked
  <1> HIDE DEF again, failed, sent, goesOn
  <1> QED BY <1>2, <1>3, <1>4, <1>5, <1>6

LEMMA OutcomeSends ==
    ASSUME IInv, Collision \/ TransmitNotAcked \/ TransmitAcked
    PROVE  \/ GivesUp
           \/ /\ dev.eSecondary = "XMIT_ACK_TEST" /\ RemainingTransmitBytes(dev) # 0
              /\ Sends("XMIT_ACK3", dev.eTertiary, dev)
  <1>1. TransmitAcked => dev.eSecondary = "XMIT_ACK_TEST"
    BY DEF TransmitAcked, Timed, Transmitting
  <1> QED BY <1>1, Outcomes DEF GivesUp

-----------------------------------------------------------------------------
(* Rx: a transmission touches nothing of a reception.                      *)

LEMMA SendsRx ==
    ASSUME NEW s, NEW n, NEW p, Sends(s, n, p), Clean(dev) PROVE Rx(dev')
  <1>1. Clean(dev')
    BY DEF Sends, Agrees, Clean, SentFields, Fields, LineFields
  <1> QED BY <1>1, CleanRx

LEMMA GivesUpRx == ASSUME GivesUp, Clean(dev) PROVE Rx(dev')
  <1> PICK d, w :
        /\ Sound(d) /\ Agrees(dev, d, Fields \ LineFields)
        /\ \/ Returns(Retransmit(d), w)
           \/ \E success \in BOOLEAN : Returns(OnTransmitComplete(ResetState(d), success), w)
    BY DEF GivesUp, Retransmits, Completes
  <1>1. IsDevice(d) /\ Clean(d)
    BY DEF Sound, Agrees, Clean, Fields, LineFields
  <1> QED BY <1>1, RetransmitsRx, CompletesRx

LEMMA TransmitIsTransmitting == ASSUME Transmit PROVE dev.ePrimary = "TRANSMIT"
  <1>1. CASE IdleWaitEdge \/ Collision \/ AckEdge
    BY <1>1 DEF IdleWaitEdge, Collision, AckEdge, Transmitting
  <1>2. CASE IdleWaitLow \/ IdleWaitMore \/ BeginFrame \/ TransmitStartBit1 \/ TransmitDataBit1
    BY <1>2 DEF IdleWaitLow, IdleWaitMore, BeginFrame, TransmitStartBit1, TransmitDataBit1,
                Timed, Transmitting
  <1>3. CASE \E bit \in {0, 1} : TransmitFirstBit(bit) \/ TransmitDataBit2(bit)
    BY <1>3 DEF TransmitFirstBit, TransmitDataBit2, Timed, Transmitting
  <1>4. CASE TransmitAck \/ TransmitAck2 \/ TransmitNotAcked \/ TransmitAcked
    BY <1>4 DEF TransmitAck, TransmitAck2, TransmitNotAcked, TransmitAcked, Timed, Transmitting
  <1> QED BY <1>1, <1>2, <1>3, <1>4 DEF Transmit

LEMMA TransmitRx == ASSUME IInv, Rx(dev), Transmit PROVE Rx(dev')
  <1>1. CASE IdleWaitEdge
    BY <1>1, IdleRx
  <1>2. CASE Transmit /\ ~IdleWaitEdge
    <2>1. Clean(dev)
      BY TransmitIsTransmitting DEF Rx
    <2>2. GivesUp \/ \E s, n, p : Sends(s, n, p)
      BY <1>2, StaysSends, BeginFrameSends, LowPartSends, TransmitAckSends, FirstBitSends,
         NextBitSends, OutcomeSends
      DEF GivesUp, Transmit
    <2> QED BY <2>1, <2>2, SendsRx, GivesUpRx
  <1> QED BY <1>1, <1>2

-----------------------------------------------------------------------------
(* Rx: the steps of a reception.                                           *)

LEMMA ReceivingSeen ==
    ASSUME IInv, Rx(dev), NEW s, Receiving(s)
    PROVE  /\ IsDevice(Seen) /\ Sound(Seen) /\ Rx(Seen) /\ ~Clean(Seen)
           /\ Seen.ePrimary = "RECEIVE" /\ Seen.eSecondary = s
           /\ Seen.eTertiary = dev.eTertiary /\ Seen.rxByte = dev.rxByte
           /\ Seen.eom = dev.eom
           /\ (s \in {"RCV_DATABIT1", "RCV_DATABIT2"} => Seen.eTertiary <= RCV_BIT_EOM)
           /\ Seen.eTertiary \in 0..24 /\ Seen.rxByte \in Nat /\ Seen.eom \in BOOLEAN
  <1>1. /\ Seen.ePrimary = "RECEIVE" /\ Seen.eSecondary = s
        /\ Seen.eTertiary = dev.eTertiary /\ Seen.rxByte = dev.rxByte /\ Seen.eom = dev.eom
    BY SeenRx DEF Receiving, Agrees, Fields, LineFields
  <1>2. /\ (s \in {"RCV_DATABIT1", "RCV_DATABIT2"} => Seen.eTertiary <= RCV_BIT_EOM)
        /\ Seen.eTertiary \in 0..24 /\ Seen.rxByte \in Nat /\ Seen.eom \in BOOLEAN
    BY <1>1, SeenRx DEF Counting, Sound, Typed
  <1> QED BY <1>1, <1>2, SeenRx DEF Clean

\* The step goes on with the reception, in another state of the engine.
LEMMA ReceivesOnRx ==
    ASSUME NEW d, IsDevice(d), NEW s, NEW n, NEW w, Returns(Step(d, s, n), w),
           Rx(Step(d, s, n))
    PROVE  Rx(dev')
  <1>1. IsDevice(Step(d, s, n))
    BY DEF Step, IsDevice, Fields
  <1> QED BY <1>1, ReturnsRx

LEMMA StepAgrees ==
    ASSUME NEW d, IsDevice(d), NEW s, NEW n
    PROVE  LET e == Step(d, s, n)
           IN  /\ IsDevice(e) /\ e.eSecondary = s /\ e.eTertiary = n
               /\ Agrees(d, e, Fields \ {"eSecondary", "eTertiary"})
  BY DEF Step, Agrees, IsDevice, Fields

LEMMA GotoIsStep ==
    ASSUME NEW d, IsDevice(d), NEW s
    PROVE  [d EXCEPT !.eSecondary = s] = Step(d, s, d.eTertiary)
  BY DEF Step, IsDevice, Fields

LEMMA ReceiveStartBitRx ==
    ASSUME IInv, Rx(dev), NEW t, ReceiveStartBit1(t) \/ ReceiveStartBit2(t)
    PROVE  Rx(dev')
  <1> DEFINE d == Seen
             e1 == Step(d, "RCV_STARTBIT2", d.eTertiary)
             e2 == Step(d, "RCV_DATABIT1", RCV_BIT0)
  <1>1. /\ IsDevice(d) /\ Rx(d) /\ ~Clean(d) /\ d.ePrimary = "RECEIVE"
        /\ d.eSecondary \in {"RCV_STARTBIT1", "RCV_STARTBIT2"}
    BY ReceivingSeen DEF ReceiveStartBit1, ReceiveStartBit2
  <1>2. Returns(e1, Never) \/ Returns(e2, Never) \/ Resets(d)
    <2>1. CASE ReceiveStartBit1(t)
      <3>1. Returns([d EXCEPT !.eSecondary = "RCV_STARTBIT2"], Never) \/ Resets(d)
        BY <2>1 DEF ReceiveStartBit1
      <3>2. [d EXCEPT !.eSecondary = "RCV_STARTBIT2"] = e1
        <4> HIDE DEF d
        <4> QED BY <1>1, GotoIsStep
      <3> QED BY <3>1, <3>2
    <2>2. CASE ReceiveStartBit2(t)
      BY <2>2 DEF ReceiveStartBit2, Step
    <2> QED BY <2>1, <2>2
  <1> HIDE DEF d
  <1>3. Agrees(d, e1, Fields \ {"eSecondary", "eTertiary"}) /\ e1.eSecondary = "RCV_STARTBIT2"
    BY <1>1, StepAgrees
  <1>4. /\ Agrees(d, e2, Fields \ {"eSecondary", "eTertiary"})
        /\ e2.eSecondary = "RCV_DATABIT1" /\ e2.eTertiary = 0
    BY <1>1, StepAgrees DEF RCV_BIT0
  <1>5. d.rxByte = 0 /\ d.rxBit = 7 /\ ~d.eom
    BY <1>1 DEF Rx, RxCursor, RxEnd, MoreToCome
  <1> HIDE DEF e1, e2
  <1>6. /\ e1.ePrimary = "RECEIVE" /\ e1.rxByte = 0 /\ e1.rxBit = 7 /\ ~e1.eom
        /\ e2.ePrimary = "RECEIVE" /\ e2.rxByte = 0 /\ e2.rxBit = 7 /\ ~e2.eom
    BY <1>1, <1>3, <1>4, <1>5 DEF Agrees, Fields
  <1>7. Rx(e1)
    BY <1>3, <1>6 DEF Rx, RxCursor, RxEnd, PastHeader, InBlock, AtEndOfBlock, MoreToCome,
                      RcvStates, RcvTimed
  <1>8. Rx(e2)
    BY <1>4, <1>6, SizeAssumption
    DEF Rx, RxCursor, RxEnd, PastHeader, InBlock, AtEndOfBlock, MoreToCome, RcvStates,
        RcvTimed, RCV_BIT_EOM
  <1> QED BY <1>1, <1>2, <1>7, <1>8, ReceivesOnRx, ResetsRx DEF e1, e2

LEMMA ReceiveDataBit1Rx ==
    ASSUME IInv, Rx(dev), NEW t, ReceiveDataBit1(t) PROVE Rx(dev')
  <1> DEFINE d == Seen
             eom == ShortPulse(t)
             r == ReceivedBit(d, eom)
             e == Step(r, "RCV_DATABIT2", d.eTertiary)
  <1>1. /\ IsDevice(d) /\ Sound(d) /\ Rx(d) /\ ~Clean(d) /\ d.ePrimary = "RECEIVE"
        /\ d.eSecondary = "RCV_DATABIT1" /\ d.eTertiary \in 0..24
        /\ d.eTertiary <= RCV_BIT_EOM /\ d.rxByte \in Nat
        /\ (d.eTertiary = RCV_BIT_EOM /\ ~eom /\ LongPulse(t) =>
                d.rxByte < SERIAL_BUFFER_SIZE)
    <2>1. dev.eTertiary = RCV_BIT_EOM /\ LongPulse(t) => dev.rxByte < MaxRxBlocks
      BY DEF ReceiveDataBit1
    <2> QED BY <2>1, ReceivingSeen, BlocksAssumption, SizeAssumption DEF ReceiveDataBit1
  <1>2. \/ (eom \/ LongPulse(t)) /\ Returns([r EXCEPT !.eSecondary = "RCV_DATABIT2"], Never)
        \/ LineError(d)
    BY DEF ReceiveDataBit1
  <1> HIDE DEF d
  <1>3. eom \in BOOLEAN
    BY DEF ShortPulse, Within
  <1> HIDE DEF eom
  <1>4. IsDevice(r) /\ r.ePrimary = "RECEIVE" /\ r.eTertiary = d.eTertiary
    BY <1>1, <1>3, ReceivedBitSound DEF Sound
  <1>5. d.eTertiary = RCV_BIT_EOM => r.eom = eom /\ r.rxBit = d.rxBit /\ r.rxByte = d.rxByte
    BY <1>1 DEF ReceivedBit, IsDevice, Fields
  <1>6. d.eTertiary # RCV_BIT_EOM =>
            /\ r.eom = d.eom
            /\ r.rxBit = (IF d.rxBit = 0 THEN 7 ELSE d.rxBit - 1)
            /\ r.rxByte = (IF d.rxBit = 0 THEN d.rxByte + 1 ELSE d.rxByte)
    BY <1>1 DEF ReceivedBit, PushReceiveBit, IsDevice, Fields
  <1>7. Agrees(d, r, {"follower", "broadcast"})
    BY <1>1 DEF ReceivedBit, PushReceiveBit, Agrees, IsDevice, Fields
  <1> HIDE DEF r
  <1>8. [r EXCEPT !.eSecondary = "RCV_DATABIT2"] = e
    BY <1>4, GotoIsStep
  <1>9. /\ IsDevice(e) /\ e.ePrimary = "RECEIVE" /\ e.eSecondary = "RCV_DATABIT2"
        /\ e.eTertiary = d.eTertiary /\ e.eom = r.eom /\ e.rxBit = r.rxBit
        /\ e.rxByte = r.rxByte /\ Agrees(d, e, {"follower", "broadcast"})
    BY <1>4, <1>7, StepAgrees DEF Agrees, Fields
  <1> HIDE DEF e
  <1>10. RxCursor(d) /\ ~d.eom /\ (PastHeader(d) => Addressed(d))
    BY <1>1 DEF Rx, RxEnd, MoreToCome
  <1>11. PastHeader(e) => Addressed(e)
    <2>1. Addressed(d) => Addressed(e)
      BY <1>9 DEF Addressed, Agrees
    <2>2. PastHeader(e) => PastHeader(d)
      BY <1>1, <1>4, <1>5, <1>6, <1>9, <1>10
      DEF PastHeader, InBlock, AtEndOfBlock, RxCursor, RCV_BIT_EOM
    <2> QED BY <1>10, <2>1, <2>2
  <1>12. CASE eom \/ LongPulse(t)
    <2>1. RxCursor(e)
      BY <1>1, <1>5, <1>6, <1>9, <1>10
      DEF RxCursor, InBlock, AtEndOfBlock, RCV_BIT_EOM, RcvStates, RcvTimed
    <2>2. RxEnd(e)
      BY <1>1, <1>5, <1>6, <1>9, <1>10, <1>12
      DEF RxEnd, MoreToCome, HasRoom, RCV_BIT_EOM
    <2>3. Rx(e)
      BY <1>9, <1>11, <2>1, <2>2 DEF Rx
    <2> QED BY <1>1, <1>2, <1>8, <1>9, <2>3, ReturnsRx, LineErrorRx
  <1> QED BY <1>1, <1>2, <1>12, LineErrorRx
LEMMA ReceiveDataBit2Rx ==
    ASSUME IInv, Rx(dev), NEW t, ReceiveDataBit2(t) PROVE Rx(dev')
  <1> DEFINE d == Seen
             e == Step(d, "RCV_DATABIT1", d.eTertiary + 1)
  <1>1. /\ IsDevice(d) /\ Rx(d) /\ ~Clean(d) /\ d.ePrimary = "RECEIVE"
        /\ d.eSecondary = "RCV_DATABIT2" /\ d.eTertiary \in 0..7 /\ d.rxByte \in Nat
    BY ReceivingSeen DEF ReceiveDataBit2, RCV_BIT_EOM
  <1>2. \/ Returns([d EXCEPT !.eSecondary = "RCV_DATABIT1", !.eTertiary = @ + 1], Never)
        \/ LineError(d)
    BY DEF ReceiveDataBit2
  <1> HIDE DEF d
  <1>3. [d EXCEPT !.eSecondary = "RCV_DATABIT1", !.eTertiary = @ + 1] = e
    BY <1>1 DEF Step, IsDevice, Fields
  <1>4. /\ e.ePrimary = "RECEIVE" /\ e.eSecondary = "RCV_DATABIT1"
        /\ e.eTertiary = d.eTertiary + 1 /\ e.eom = d.eom /\ e.rxBit = d.rxBit
        /\ e.rxByte = d.rxByte /\ e.follower = d.follower /\ e.broadcast = d.broadcast
    BY <1>1, StepAgrees DEF Agrees, Fields
  <1> HIDE DEF e
  <1>5. Rx(e)
    BY <1>1, <1>4
    DEF Rx, RxCursor, RxEnd, PastHeader, Addressed, InBlock, AtEndOfBlock, MoreToCome,
        HasRoom, RcvStates, RcvTimed, RCV_BIT_EOM
  <1> QED BY <1>1, <1>2, <1>3, <1>5, ReceivesOnRx, LineErrorRx DEF e

LEMMA ReceiveEndOfBlockRx ==
    ASSUME IInv, Rx(dev), NEW t, NEW dest, ReceiveEndOfBlock(t, dest) PROVE Rx(dev')
  <1> DEFINE d == Seen
             a == [d EXCEPT !.eSecondary = "RCV_ACK1", !.eTertiary = RCV_BIT_ACK]
             c == CheckAddress(a, dest)
             l == Lower(c)
             e == [l EXCEPT !.eSecondary = "RCV_ACK_SENT"]
             w == Deadline("bit", 1500)
             known == ForUs(d, dest) \/ Promiscuous
  <1>1. /\ IsDevice(d) /\ Sound(d) /\ Rx(d) /\ ~Clean(d) /\ d.ePrimary = "RECEIVE"
        /\ d.eSecondary = "RCV_DATABIT2" /\ d.eTertiary = RCV_BIT_EOM /\ d.rxByte \in Nat
    BY ReceivingSeen DEF ReceiveEndOfBlock
  <1>2. \/ LineError(d)
        \/ Resets(c)
        \/ known /\ (Returns(e, w) \/ Returns(c, Never))
    BY DEF ReceiveEndOfBlock
  <1> HIDE DEF d, w
  <1>3. /\ IsDevice(a) /\ a.eSecondary = "RCV_ACK1"
        /\ Agrees(d, a, Fields \ {"eSecondary", "eTertiary"})
    BY <1>1 DEF Agrees, IsDevice, Fields
  <1> HIDE DEF a
  <1>4. /\ IsDevice(c) /\ Agrees(a, c, Fields \ {"follower", "broadcast"})
        /\ (c.broadcast <=> a.broadcast \/ (a.rxByte = 1 /\ dest = BROADCAST))
        /\ (c.follower <=>
                a.follower \/ (a.rxByte = 1 /\ dest # BROADCAST /\ dest = a.address))
    BY <1>3 DEF CheckAddress, Agrees, IsDevice, Fields
  <1> HIDE DEF c
  <1>5. /\ c.ePrimary = "RECEIVE" /\ c.eSecondary = "RCV_ACK1" /\ c.rxByte = d.rxByte
        /\ c.rxBit = d.rxBit /\ c.eom = d.eom
    BY <1>1, <1>3, <1>4 DEF Agrees, Fields
  <1>6. known => Addressed(c)
    <2>1. CASE d.rxByte = 1
      BY <1>3, <1>4, <2>1 DEF ForUs, Addressed, Agrees, Fields
    <2>2. CASE d.rxByte # 1
      <3>1. Addressed(d)
        BY <1>1, <2>2 DEF Rx, RxCursor, PastHeader, AtEndOfBlock, RCV_BIT_EOM
      <3> QED BY <1>3, <1>4, <3>1 DEF Addressed, Agrees, Fields
    <2> QED BY <2>1, <2>2
  <1>7. /\ IsDevice(e) /\ e.eSecondary = "RCV_ACK_SENT"
        /\ Agrees(c, e, RxFields \ {"eSecondary"})
    <2>1. IsDevice(l) /\ Agrees(c, l, Fields \ LineFields)
      BY <1>4, LowerAgrees
    <2> HIDE DEF l
    <2> QED BY <2>1 DEF Agrees, RxFields, LineFields, IsDevice, Fields
  <1> HIDE DEF e
  <1>8. ASSUME known PROVE Rx(c) /\ Rx(e)
    <2>1. d.rxBit = 7 /\ d.rxByte > 0 /\ HasRoom(d)
      BY <1>1 DEF Rx, RxCursor, RxEnd, AtEndOfBlock, RCV_BIT_EOM
    <2>2. Rx(c)
      BY <1>5, <1>6, <1>8, <2>1
      DEF Rx, RxCursor, RxEnd, InBlock, MoreToCome, HasRoom, RcvStates, RcvTimed
    <2>3. /\ e.ePrimary = "RECEIVE" /\ e.rxBit = 7 /\ e.rxByte > 0 /\ HasRoom(e)
          /\ Addressed(e)
      BY <1>5, <1>6, <1>7, <1>8, <2>1 DEF Agrees, RxFields, HasRoom, Addressed
    <2>4. Rx(e)
      BY <1>7, <2>3 DEF Rx, RxCursor, RxEnd, InBlock, MoreToCome, RcvStates, RcvTimed
    <2> QED BY <2>2, <2>4
  <1> HIDE DEF known
  <1> QED BY <1>1, <1>2, <1>4, <1>7, <1>8, ReturnsRx, ResetsRx, LineErrorRx

\* A block that is acknowledged and not the last leads to the next one.
LEMMA AckedRx ==
    ASSUME NEW d, IsDevice(d), Rx(d), d.ePrimary = "RECEIVE", d.rxByte \in Nat,
           d.eSecondary \in {"RCV_ACK_SENT", "RCV_ACK1", "RCV_ACK2"}, ~d.eom, NEW n
    PROVE  Rx(Step(d, "RCV_ACK2", n)) /\ Rx(Step(d, "RCV_DATABIT1", RCV_BIT0))
  <1> DEFINE e1 == Step(d, "RCV_ACK2", n)
             e2 == Step(d, "RCV_DATABIT1", RCV_BIT0)
  <1>1. d.rxBit = 7 /\ d.rxByte > 0 /\ d.rxByte < SERIAL_BUFFER_SIZE /\ Addressed(d)
    BY DEF Rx, Clean, RxCursor, RxEnd, PastHeader, AtEndOfBlock, HasRoom
  <1>2. /\ e1.eSecondary = "RCV_ACK2" /\ Agrees(d, e1, Fields \ {"eSecondary", "eTertiary"})
        /\ e2.eSecondary = "RCV_DATABIT1" /\ e2.eTertiary = 0
        /\ Agrees(d, e2, Fields \ {"eSecondary", "eTertiary"})
    BY StepAgrees DEF RCV_BIT0
  <1> HIDE DEF e1, e2
  <1>3. \A e \in {e1, e2} :
            /\ e.ePrimary = "RECEIVE" /\ e.rxBit = 7 /\ e.rxByte > 0
            /\ e.rxByte < SERIAL_BUFFER_SIZE /\ ~e.eom /\ Addressed(e)
    BY <1>1, <1>2 DEF Agrees, Fields, Addressed
  <1>4. Rx(e1)
    BY <1>2, <1>3 DEF Rx, RxCursor, RxEnd, InBlock, HasRoom, RcvStates, RcvTimed
  <1>5. Rx(e2)
    BY <1>2, <1>3
    DEF Rx, RxCursor, RxEnd, InBlock, AtEndOfBlock, RCV_BIT_EOM, RcvStates, RcvTimed
  <1> QED BY <1>4, <1>5 DEF e1, e2

LEMMA ReceiveAckSentRx == ASSUME IInv, Rx(dev), ReceiveAckSent PROVE Rx(dev')
  <1> DEFINE d == Raise(Seen, others)
             f == ProcessFrame(d)
             e == [d EXCEPT !.eSecondary = "RCV_ACK2", !.eTertiary = CEC_E_ACK]
  <1>1. /\ IsDevice(Seen) /\ Rx(Seen) /\ Seen.ePrimary = "RECEIVE"
        /\ Seen.eSecondary = "RCV_ACK_SENT" /\ Seen.rxByte \in Nat
    BY ReceivingSeen DEF ReceiveAckSent
  <1>2. IsDevice(d) /\ Sound(d) /\ Rx(d)
    BY <1>1, RaiseAgrees, RaisedSeen, RxAgrees, AgreesFor, FieldSets
  <1>3. d.ePrimary = "RECEIVE" /\ d.eSecondary = "RCV_ACK_SENT" /\ d.rxByte \in Nat
    BY <1>1, RaiseAgrees DEF Agrees, Fields, LineFields
  <1>4. IF d.eom THEN Resets(f) ELSE Returns(e, Never)
    BY DEF ReceiveAckSent
  <1> HIDE DEF d
  <1>5. e = Step(d, "RCV_ACK2", CEC_E_ACK)
    BY DEF Step
  <1>6. IsDevice(f)
    BY <1>2, ProcessFrameSound DEF Sound
  <1> HIDE DEF e, f
  <1>7. CASE d.eom
    BY <1>4, <1>6, <1>7, ResetsRx
  <1>8. CASE ~d.eom
    <2>1. Rx(e)
      BY <1>2, <1>3, <1>5, <1>8, AckedRx
    <2> QED BY <1>2, <1>4, <1>5, <1>8, <2>1, ReceivesOnRx
  <1> QED BY <1>7, <1>8

LEMMA ReceiveAck1Rx == ASSUME IInv, Rx(dev), NEW t, ReceiveAck1(t) PROVE Rx(dev')
  <1> DEFINE d == Seen
             f == ProcessFrame(d)
             e == [d EXCEPT !.eSecondary = "RCV_ACK2"]
  <1>1. /\ IsDevice(d) /\ Sound(d) /\ Rx(d) /\ d.ePrimary = "RECEIVE"
        /\ d.eSecondary = "RCV_ACK1" /\ d.rxByte \in Nat /\ d.eom = dev.eom
    BY ReceivingSeen DEF ReceiveAck1
  <1>2. LineError(d) \/ Resets(d) \/ Resets(f) \/ (~d.eom /\ Returns(e, Never))
    <2>1. dev.eom = Seen.eom
      BY <1>1
    <2> QED BY <2>1 DEF ReceiveAck1
  <1> HIDE DEF d
  <1>3. e = Step(d, "RCV_ACK2", d.eTertiary)
    BY <1>1, GotoIsStep
  <1>4. IsDevice(f)
    BY <1>1, ProcessFrameSound DEF Sound
  <1> HIDE DEF e, f
  <1>5. CASE ~d.eom /\ Returns(e, Never)
    <2>1. Rx(e)
      BY <1>1, <1>3, <1>5, AckedRx
    <2> QED BY <1>1, <1>3, <1>5, <2>1, ReceivesOnRx
  <1> QED BY <1>1, <1>2, <1>4, <1>5, ResetsRx, LineErrorRx

LEMMA ReceiveAck2Rx == ASSUME IInv, Rx(dev), NEW t, ReceiveAck2(t) PROVE Rx(dev')
  <1> DEFINE d == Seen
             e == Step(d, "RCV_DATABIT1", RCV_BIT0)
  <1>1. /\ IsDevice(d) /\ Rx(d) /\ ~Clean(d) /\ d.ePrimary = "RECEIVE"
        /\ d.eSecondary = "RCV_ACK2" /\ d.rxByte \in Nat
    BY ReceivingSeen DEF ReceiveAck2
  <1>2. Returns(e, Never) \/ LineError(d)
    BY DEF ReceiveAck2, Step
  <1> HIDE DEF d
  <1>3. ~d.eom
    BY <1>1 DEF Rx, RxEnd, MoreToCome
  <1>4. Rx(e)
    BY <1>1, <1>3, AckedRx
  <1> QED BY <1>1, <1>2, <1>4, ReceivesOnRx, LineErrorRx

LEMMA ReceiveLineErrorRx == ASSUME IInv, Rx(dev), ReceiveLineError PROVE Rx(dev')
  <1>1. Resets(Raise(Seen, others))
    BY DEF ReceiveLineError
  <1> QED BY <1>1, RaisedSeen, ResetsRx

LEMMA ReceiveRx == ASSUME IInv, Rx(dev), Receive PROVE Rx(dev')
  BY ReceiveStartBitRx, ReceiveDataBit1Rx, ReceiveDataBit2Rx, ReceiveEndOfBlockRx,
     ReceiveAckSentRx, ReceiveAck1Rx, ReceiveAck2Rx, ReceiveLineErrorRx
  DEF Receive

-----------------------------------------------------------------------------
(* The theorems about receptions.                                          *)

LEMMA NextRx == IInv /\ Rx(dev) /\ [Next]_vars => Rx(dev')
  <1> SUFFICES ASSUME IInv, Rx(dev), [Next]_vars PROVE Rx(dev')
    OBVIOUS
  <1>1. CASE Run \/ Host
    BY <1>1, RunRx, HostRx
  <1>2. CASE Process
    BY <1>2, IdleRx, ReceiveRx, TransmitRx DEF Process
  <1>3. CASE LineMoves \/ UNCHANGED vars
    BY <1>3 DEF LineMoves, vars
  <1> QED BY <1>1, <1>2, <1>3 DEF Next

LEMMA InitRx == Init => Rx(dev)
  BY DEF Init, NewDevice, Rx, Clean

\* Whatever the line and the sketch do, the flags and the cursor of a reception
\* are in step with the bit Process is at.
THEOREM ReceptionsInStep == Spec => []Rx(dev)
  <1> DEFINE RxNow == Rx(dev)
  <1>1. Init => RxNow
    BY InitRx
  <1>2. IInv /\ RxNow /\ [Next]_vars => RxNow'
    BY NextRx
  <1> HIDE DEF RxNow
  <1>3. Spec => []RxNow
    BY <1>1, <1>2, Inductive, PTL DEF Spec
  <1> QED BY <1>3 DEF RxNow

\* What ResetState and ProcessFrame leave: a frame never starts with the cursor,
\* the EOM or the addressee of the frame before it.
THEOREM ReceptionsStartClean == Spec => []ReceptionIsClean
  <1>1. Rx(dev) => ReceptionIsClean
    BY DEF Rx, Clean, ReceptionIsClean
  <1> QED BY <1>1, ReceptionsInStep, PTL

\* Process hands over whole blocks only, at least one, and stores every bit
\* inside the receive buffer.
THEOREM ReceptionsAreAligned == Spec => []ReceiveIsAligned
  <1>1. IInv /\ Rx(dev) => ReceiveIsAligned
    <2> SUFFICES ASSUME IInv, Rx(dev), dev.ePrimary = "RECEIVE" PROVE ReceiveIsAligned
      BY DEF ReceiveIsAligned
    <2>1. /\ RxCursor(dev) /\ RxEnd(dev) /\ dev.eTertiary \in 0..24
          /\ (dev.eSecondary \in {"RCV_DATABIT1", "RCV_DATABIT2"} =>
                dev.eTertiary <= RCV_BIT_EOM)
      BY DEF Rx, Clean, IInv, Stable, Sound, Typed, Counting
    <2> QED
      BY <2>1
      DEF ReceiveIsAligned, RxCursor, RxEnd, InBlock, AtEndOfBlock, MoreToCome, RcvStates,
          RcvTimed, RCV_BIT_EOM
  <1> QED BY <1>1, Inductive, ReceptionsInStep, PTL

\* CheckAddress: a frame for another device is not followed past its header.
THEOREM OnlyOurFramesAreFollowed == Spec => []OnlyFramesForUs
  <1>1. Rx(dev) => OnlyFramesForUs
    BY DEF Rx, Clean, PastHeader, Addressed, OnlyFramesForUs
  <1> QED BY <1>1, ReceptionsInStep, PTL
-----------------------------------------------------------------------------
(* Tx: the resets, the queueing and the allocation.                        *)

LEMMA FreeTx == ASSUME NEW d, Free(d) PROVE Tx(d)
  BY DEF Free, Tx

LEMMA ReturnsTx ==
    ASSUME NEW d, IsDevice(d), Tx(d), NEW w, Returns(d, w) PROVE Tx(dev')
  BY ReturnsAgrees, TxAgrees, AgreesFor, FieldSets

LEMMA ToIdleAgrees ==
    ASSUME NEW d, IsDevice(d)
    PROVE  IsDevice(ToIdle(d)) /\ ToIdle(d).ePrimary = "IDLE" /\ Agrees(d, ToIdle(d), TxStill)
  BY ZenonT(60) DEF ToIdle, Agrees, TxStill, TxFields, IsDevice, Fields

LEMMA NewFrameTx ==
    ASSUME NEW d, IsDevice(d), Queued(d), ~ToPoll(d)
    PROVE  IsDevice(NewFrame(d)) /\ Tx(NewFrame(d))
  <1> DEFINE e == NewFrame(d)
  <1>1. /\ IsDevice(e) /\ e.eSecondary = "IDLE_WAIT" /\ ~e.transmitPending
        /\ Agrees(d, e, TxStill \ {"transmitPending"})
    BY DEF NewFrame, Agrees, TxStill, TxFields, IsDevice, Fields
  <1> HIDE DEF e
  <1>2. Queued(e) /\ ~ToPoll(e)
    BY <1>1 DEF Agrees, TxStill, TxFields, Queued, ToPoll
  <1>3. Tx(e)
    BY <1>1, <1>2 DEF Tx, Sending, Queued, XmitStates, XmitAckStates
  <1> QED BY <1>1, <1>3 DEF e

\* A reset starts the frame that waits, if one does.
LEMMA ResetStateTx ==
    ASSUME NEW d, IsDevice(d), d.transmitPending => Queued(d), ToPoll(d) => ~d.transmitPending
    PROVE  /\ IsDevice(ResetState(d)) /\ Tx(ResetState(d))
           /\ (~d.transmitPending => Free(ResetState(d)))
  <1> DEFINE i == ToIdle(d)
  <1>1. IsDevice(i) /\ i.ePrimary = "IDLE" /\ Agrees(d, i, TxStill)
    BY ToIdleAgrees
  <1> HIDE DEF i
  <1>2. CASE d.transmitPending
    <2>1. Queued(i) /\ ~ToPoll(i)
      BY <1>1, <1>2 DEF Agrees, TxStill, TxFields, Queued, ToPoll
    <2> QED BY <1>1, <1>2, <2>1, NewFrameTx DEF ResetState, i
  <1>3. CASE ~d.transmitPending
    <2>1. Free(i)
      BY <1>1, <1>3 DEF Agrees, TxStill, TxFields, Free
    <2> QED BY <1>1, <1>3, <2>1, FreeTx DEF ResetState, i
  <1> QED BY <1>2, <1>3

\* A frame that is queued while no other is.
LEMMA OnTransmitBeginTx ==
    ASSUME NEW d, IsDevice(d), Free(d), Queued(d), ~ToPoll(d)
    PROVE  Tx(OnTransmitBegin(d))
  <1> DEFINE p == [d EXCEPT !.transmitPending = TRUE]
  <1>1. /\ IsDevice(p) /\ Agrees(d, p, Fields \ {"transmitPending"})
    BY DEF Agrees, IsDevice, Fields
  <1>2. CASE MonitorMode
    BY <1>2, FreeTx DEF OnTransmitBegin
  <1>3. CASE ~MonitorMode /\ d.ePrimary = "IDLE"
    BY <1>3, NewFrameTx DEF OnTransmitBegin
  <1>4. CASE ~MonitorMode /\ d.ePrimary # "IDLE"
    <2>1. Tx(p)
      <3> HIDE DEF p
      <3> QED BY <1>1 DEF Agrees, Fields, Tx, Free, Queued, ToPoll
    <2> QED BY <1>4, <2>1 DEF OnTransmitBegin
  <1> QED BY <1>2, <1>3, <1>4

LEMMA PollTx == ASSUME NEW d, IsDevice(d), Free(d) PROVE IsDevice(Poll(d)) /\ Tx(Poll(d))
  <1> DEFINE h == PutHeader(d, Candidate(d.tertiaryState))
             b == OnTransmitBegin(h)
             e == [b EXCEPT !.secondaryState = "CEC_RCV_POLLING_MESSAGE"]
  <1>1. /\ IsDevice(h) /\ Queued(h)
        /\ Agrees(d, h, Fields \ {"txCount", "txByte", "txBit", "txDest"})
    BY PutHeaderAgrees
  <1> HIDE DEF h
  <1>2. Free(h)
    BY <1>1 DEF Agrees, Fields, Free
  <1>3. /\ IsDevice(b) /\ Queued(b)
        /\ b.transmitPending => b.ePrimary # "TRANSMIT"
        /\ b.ePrimary = "TRANSMIT" => b.eSecondary = "IDLE_WAIT"
    <2>1. CASE MonitorMode \/ h.ePrimary # "IDLE"
      BY <1>1, <1>2, <2>1 DEF OnTransmitBegin, Queued, Free, IsDevice, Fields
    <2>2. CASE ~MonitorMode /\ h.ePrimary = "IDLE"
      BY <1>1, <2>2 DEF OnTransmitBegin, NewFrame, Queued, IsDevice, Fields
    <2> QED BY <2>1, <2>2
  <1> HIDE DEF b
  <1>4. /\ IsDevice(e) /\ e.secondaryState = "CEC_RCV_POLLING_MESSAGE"
        /\ Agrees(b, e, Fields \ {"secondaryState"})
    BY <1>3 DEF Agrees, IsDevice, Fields
  <1>5. e = Poll(d)
    BY DEF Poll, b, h
  <1> HIDE DEF e
  <1>6. /\ Queued(e) /\ ~ToPoll(e)
        /\ e.transmitPending => e.ePrimary # "TRANSMIT"
        /\ e.ePrimary = "TRANSMIT" => e.eSecondary = "IDLE_WAIT"
    BY <1>3, <1>4 DEF Agrees, Fields, Queued, ToPoll
  <1>7. Tx(e)
    BY <1>6 DEF Tx, Sending, Queued, XmitStates, XmitAckStates
  <1> QED BY <1>4, <1>5, <1>7

LEMMA PumpTx == ASSUME NEW d, IsDevice(d), Tx(d) PROVE Tx(Pump(d))
  <1> DEFINE e == [d EXCEPT !.primaryState = "CEC_IDLE"]
  <1>1. e.primaryState = "CEC_IDLE" /\ Agrees(d, e, TxFields \ {"primaryState"})
    BY DEF Agrees, TxFields, IsDevice, Fields
  <1>2. CASE ToPoll(d)
    <2>1. Pump(d) = Poll(d) /\ Free(d)
      BY <1>2 DEF Pump, ToPoll, Tx
    <2> QED BY <2>1, PollTx
  <1>3. CASE ~ToPoll(d)
    <2>1. Pump(d) = d \/ Pump(d) = e
      BY <1>3 DEF Pump, ToPoll
    <2>2. Tx(e)
      <3> HIDE DEF e
      <3> QED BY <1>1 DEF Agrees, TxFields, Tx, Sending, Queued, Free, ToPoll
    <2> QED BY <2>1, <2>2
  <1> QED BY <1>2, <1>3

\* The end of a frame, when no other is queued.
LEMMA OnTransmitCompleteTx ==
    ASSUME NEW d, IsDevice(d), Free(d), NEW success
    PROVE  IsDevice(OnTransmitComplete(d, success)) /\ Tx(OnTransmitComplete(d, success))
  <1> DEFINE n == [d EXCEPT !.tertiaryState = @ + 1]
             r == [n EXCEPT !.logicalAddress = CLA_UNREGISTERED,
                            !.primaryState = "CEC_IDLE"]
  <1>1. IsDevice(n) /\ Free(n)
    BY DEF Free, IsDevice, Fields
  <1>2. IsDevice(r) /\ Free(r)
    BY DEF Free, IsDevice, Fields
  <1>3. IsDevice(Claim(d)) /\ Free(Claim(d))
    BY DEF Claim, Free, IsDevice, Fields
  <1>4. IsDevice(NextCandidate(d)) /\ Tx(NextCandidate(d))
    BY <1>1, <1>2, PollTx, FreeTx DEF NextCandidate
  <1> QED BY <1>3, <1>4, FreeTx DEF OnTransmitComplete

LEMMA RetransmitTx ==
    ASSUME NEW d, IsDevice(d), Tx(d), d.ePrimary = "TRANSMIT"
    PROVE  IsDevice(Retransmit(d)) /\ Tx(Retransmit(d))
  <1> DEFINE i == [ToIdle(d) EXCEPT !.transmitPending = FALSE, !.xmitretry = @ + 1]
             r == [ResetTransmitBuffer(d) EXCEPT
                      !.ePrimary = "TRANSMIT", !.eSecondary = "IDLE_WAIT",
                      !.eTertiary = IDLE_RETRANSMIT_FRAME,
                      !.transmitPending = FALSE, !.xmitretry = @ + 1]
  <1>1. IsDevice(i) /\ Free(i)
    BY ZenonT(60) DEF ToIdle, Free, IsDevice, Fields
  <1>2. d.txCount > 0 /\ ~ToPoll(d)
    BY DEF Tx, Sending, Free
  <1>3. /\ IsDevice(r) /\ r.eSecondary = "IDLE_WAIT" /\ ~r.transmitPending
        /\ r.txByte = 0 /\ r.txBit = 7
        /\ Agrees(d, r, {"txCount", "primaryState", "secondaryState"})
    BY ZenonT(60) DEF ResetTransmitBuffer, Agrees, IsDevice, Fields
  <1>4. Tx(r)
    <2> HIDE DEF r
    <2>1. Queued(r) /\ ~ToPoll(r)
      BY <1>2, <1>3 DEF Agrees, Queued, ToPoll
    <2> QED BY <1>3, <2>1 DEF Tx, Sending, Queued, XmitStates, XmitAckStates
  <1> QED BY <1>1, <1>3, <1>4, OnTransmitCompleteTx DEF Retransmit

\* TransmitFrame when no frame is queued: one that does not fit is refused, with
\* its header left in the buffer.
LEMMA TransmitFrameTx ==
    ASSUME NEW d, IsDevice(d), Free(d), ~ToPoll(d), NEW x, NEW n \in Nat
    PROVE  Tx(TransmitFrame(d, x, n))
  <1> DEFINE h == PutHeader(d, x)
             p == TransmitPartial(h, n)
  <1>1. /\ IsDevice(h) /\ Queued(h) /\ h.txCount = 1
        /\ Agrees(d, h, Fields \ {"txCount", "txByte", "txBit", "txDest"})
    BY PutHeaderAgrees
  <1> HIDE DEF h
  <1>2. Free(h) /\ ~ToPoll(h)
    BY <1>1 DEF Agrees, Fields, Free, ToPoll
  <1>3. IsDevice(p) /\ Free(p) /\ ~ToPoll(p) /\ Queued(p)
    <2>1. p = [h EXCEPT !.txCount = 1 + n, !.txByte = 0, !.txBit = 7]
      BY <1>1 DEF TransmitPartial
    <2> HIDE DEF p
    <2>2. /\ IsDevice(p) /\ p.txCount = 1 + n /\ p.txByte = 0 /\ p.txBit = 7
          /\ Agrees(h, p, Fields \ {"txCount", "txByte", "txBit"})
      BY <1>1, <2>1 DEF Agrees, IsDevice, Fields
    <2>3. Free(p) /\ ~ToPoll(p)
      BY <1>2, <2>2 DEF Agrees, Fields, Free, ToPoll
    <2>4. 1 + n > 0
      OBVIOUS
    <2> QED BY <2>2, <2>3, <2>4 DEF Queued
  <1> HIDE DEF p
  <1> QED BY <1>2, <1>3, FreeTx, OnTransmitBeginTx DEF TransmitFrame, h, p

-----------------------------------------------------------------------------
(* Tx: the steps outside Process.                                          *)

LEMMA RunTx == ASSUME IInv, Tx(dev), Run PROVE Tx(dev')
  <1> DEFINE s == Sampled
             p == Pump(s)
             e == [p EXCEPT !.isrTriggered = FALSE]
  <1>1. IsDevice(s) /\ Agrees(dev, s, TxFields)
    BY DEF Sampled, Agrees, TxFields, IInv, Stable, Sound, IsDevice, Fields
  <1>2. dev' = p \/ dev' = e
    BY DEF Run, RunDue, RunInterrupted, RunAsleep, Pumped
  <1> HIDE DEF s
  <1>3. IsDevice(p) /\ Tx(p)
    BY <1>1, TxAgrees, PumpTx, PumpLine DEF SameLine
  <1> HIDE DEF p
  <1>4. Agrees(p, e, TxFields)
    BY <1>3 DEF Agrees, TxFields, IsDevice, Fields
  <1> HIDE DEF e
  <1> QED BY <1>2, <1>3, <1>4, TxAgrees

LEMMA HostTx == ASSUME HostPaced, IInv, Host PROVE Tx(dev')
  <1> PICK dest \in Destinations, count \in FrameSizes : HostTransmit(dest, count)
    BY DEF Host
  <1>1. IsDevice(dev) /\ Free(dev) /\ ~ToPoll(dev)
    BY DEF IInv, Stable, Sound, HostTransmit, Busy, Free, ToPoll
  <1>2. count \in Nat
    BY FrameAssumption
  <1> QED BY <1>1, <1>2, TransmitFrameTx DEF HostTransmit

-----------------------------------------------------------------------------
(* Tx: a reception leaves the frame to send alone, until it resets.        *)

\* The step ends outside a transmission, or with a reset.
Keeps ==
    \E d, w :
        /\ IsDevice(d) /\ Agrees(dev, d, TxStill) /\ d.ePrimary # "TRANSMIT"
        /\ Returns(d, w) \/ Resets(d)

LEMMA KeepsTx ==
    ASSUME IInv, Tx(dev), dev.ePrimary # "TRANSMIT", Keeps PROVE Tx(dev')
  <1> PICK d, w :
        /\ IsDevice(d) /\ Agrees(dev, d, TxStill) /\ d.ePrimary # "TRANSMIT"
        /\ Returns(d, w) \/ Resets(d)
    BY DEF Keeps
  <1>1. Tx(d)
    BY TxOutside
  <1>2. CASE Returns(d, w)
    BY <1>1, <1>2, ReturnsTx
  <1>3. CASE Resets(d)
    <2>1. IsDevice(ResetState(d)) /\ Tx(ResetState(d))
      BY <1>1, ResetStateTx DEF Tx, Free
    <2> QED BY <1>3, <2>1, ReturnsTx DEF Resets
  <1> QED BY <1>2, <1>3

\* The devices a reception goes through.
Listener(d) == IsDevice(d) /\ Agrees(dev, d, TxStill) /\ d.ePrimary # "TRANSMIT"

LEMMA ListenerKeeps ==
    ASSUME NEW d, Listener(d), NEW w, Returns(d, w) \/ Resets(d) PROVE Keeps
  BY DEF Keeps, Listener

\* What a reception does to them.
LEMMA Listeners ==
    ASSUME NEW d, Listener(d)
    PROVE  /\ \A s, n : Listener(Step(d, s, n))
           /\ \A s : Listener([d EXCEPT !.eSecondary = s])
           /\ Listener(Lower(d)) /\ \A o : Listener(Raise(d, o))
           /\ Listener(ProcessFrame(d)) /\ \A bit : Listener(ReceivedBit(d, bit))
           /\ \A dest : Listener(CheckAddress(d, dest))
  <1>1. \A s, n : Listener(Step(d, s, n))
    <2> TAKE s, n
    <2>1. IsDevice(Step(d, s, n)) /\ Agrees(d, Step(d, s, n), Fields \ {"eSecondary", "eTertiary"})
      BY StepAgrees DEF Listener
    <2> QED BY <2>1 DEF Listener, Agrees, TxStill, TxFields, Fields
  <1>2. \A s : Listener([d EXCEPT !.eSecondary = s])
    BY DEF Listener, Agrees, TxStill, TxFields, IsDevice, Fields
  <1>3. Listener(Lower(d))
    BY LowerAgrees DEF Listener, Agrees, TxStill, TxFields, Fields, LineFields
  <1>4. \A o : Listener(Raise(d, o))
    BY RaiseAgrees DEF Listener, Agrees, TxStill, TxFields, Fields, LineFields
  <1>5. Listener(ProcessFrame(d))
    BY DEF ProcessFrame, ResetReceiveBuffer, Listener, Agrees, TxStill, TxFields, IsDevice,
           Fields
  <1>6. \A bit : Listener(ReceivedBit(d, bit))
    BY ZenonT(60) DEF ReceivedBit, PushReceiveBit, Listener, Agrees, TxStill, TxFields, IsDevice, Fields
  <1>7. \A dest : Listener(CheckAddress(d, dest))
    <2> TAKE dest
    <2> DEFINE e == CheckAddress(d, dest)
    <2>1. IsDevice(e) /\ Agrees(d, e, Fields \ {"follower", "broadcast"})
      BY DEF CheckAddress, Listener, Agrees, IsDevice, Fields
    <2> HIDE DEF e
    <2>2. Listener(e)
      BY <2>1 DEF Listener, Agrees, TxStill, TxFields, Fields
    <2> QED BY <2>2 DEF e
  <1> QED BY <1>1, <1>2, <1>3, <1>4, <1>5, <1>6, <1>7

LEMMA LineErrorKeeps == ASSUME NEW d, Listener(d), LineError(d) PROVE Keeps
  <1> DEFINE g == [d EXCEPT !.eSecondary = "RCV_LINEERROR"]
             e == Lower(g)
             w == Deadline("now", 3600)
  <1>1. Returns(e, w) \/ Resets(d)
    BY DEF LineError
  <1>2. Listener(g)
    BY Listeners
  <1> HIDE DEF g, w
  <1>3. Listener(e)
    BY <1>2, Listeners
  <1> HIDE DEF e
  <1> QED BY <1>1, <1>3, ListenerKeeps
LEMMA SpuriousKeeps ==
    ASSUME IInv, dev.ePrimary # "TRANSMIT", Spurious \/ IdleEdge PROVE Keeps
  <1> DEFINE d == Seen
             q == [dev EXCEPT !.stamps = {}]
             i == [d EXCEPT !.ePrimary = "RECEIVE", !.eSecondary = "RCV_STARTBIT1",
                            !.follower = FALSE, !.broadcast = FALSE,
                            !.amLastTransmittor = FALSE]
  <1>1. Listener(d)
    BY SeenAgrees DEF Listener, Agrees, TxStill, TxFields, Fields, LineFields
  <1>2. Listener(q)
    BY DEF Listener, Agrees, TxStill, TxFields, IInv, Stable, Sound, IsDevice, Fields
  <1>3. Returns(q, Never) \/ Returns(d, Never) \/ Returns(i, Never)
    BY DEF Spurious, IdleEdge
  <1> HIDE DEF d, q
  <1>4. Listener(i)
    BY <1>1 DEF Listener, Agrees, TxStill, TxFields, IsDevice, Fields
  <1> HIDE DEF i
  <1> QED BY <1>1, <1>2, <1>3, <1>4, ListenerKeeps

LEMMA ReceiveBitKeeps ==
    ASSUME NEW t, Listener(Seen),
           \/ ReceiveStartBit1(t) \/ ReceiveStartBit2(t)
           \/ ReceiveDataBit1(t) \/ ReceiveDataBit2(t)
    PROVE  Keeps
  <1> DEFINE d == Seen
             r == ReceivedBit(d, ShortPulse(t))
             e1 == [d EXCEPT !.eSecondary = "RCV_STARTBIT2"]
             e2 == [d EXCEPT !.eSecondary = "RCV_DATABIT1", !.eTertiary = RCV_BIT0]
             e3 == [r EXCEPT !.eSecondary = "RCV_DATABIT2"]
             e4 == [d EXCEPT !.eSecondary = "RCV_DATABIT1", !.eTertiary = @ + 1]
  <1>1. \/ Returns(e1, Never) \/ Returns(e2, Never) \/ Returns(e3, Never)
        \/ Returns(e4, Never) \/ Resets(d) \/ LineError(d)
    BY DEF ReceiveStartBit1, ReceiveStartBit2, ReceiveDataBit1, ReceiveDataBit2
  <1>2. Listener(d)
    OBVIOUS
  <1> HIDE DEF d
  <1>3. Listener(r)
    BY <1>2, Listeners
  <1> HIDE DEF r
  <1>4. Listener(e1) /\ Listener(e3)
    BY <1>2, <1>3, Listeners
  <1>5. Listener(e2) /\ Listener(e4)
    BY <1>2 DEF Listener, Agrees, TxStill, TxFields, IsDevice, Fields
  <1> HIDE DEF e1, e2, e3, e4
  <1> QED BY <1>1, <1>2, <1>4, <1>5, ListenerKeeps, LineErrorKeeps

LEMMA ReceiveBlockKeeps ==
    ASSUME NEW t, NEW dest, Listener(Seen), ReceiveEndOfBlock(t, dest) PROVE Keeps
  <1> DEFINE d == Seen
             a == [d EXCEPT !.eSecondary = "RCV_ACK1", !.eTertiary = RCV_BIT_ACK]
             c == CheckAddress(a, dest)
             l == Lower(c)
             e == [l EXCEPT !.eSecondary = "RCV_ACK_SENT"]
             w == Deadline("bit", 1500)
  <1>1. LineError(d) \/ Resets(c) \/ Returns(e, w) \/ Returns(c, Never)
    BY DEF ReceiveEndOfBlock
  <1>2. Listener(d)
    OBVIOUS
  <1> HIDE DEF d, w
  <1>3. Listener(a)
    BY <1>2 DEF Listener, Agrees, TxStill, TxFields, IsDevice, Fields
  <1> HIDE DEF a
  <1>4. Listener(c)
    BY <1>3, Listeners
  <1> HIDE DEF c
  <1>5. Listener(l)
    BY <1>4, Listeners
  <1> HIDE DEF l
  <1>6. Listener(e)
    BY <1>5, Listeners
  <1> HIDE DEF e
  <1> QED BY <1>1, <1>2, <1>4, <1>6, ListenerKeeps, LineErrorKeeps

LEMMA ReceiveAckKeeps ==
    ASSUME NEW t, Listener(Seen),
           ReceiveAck1(t) \/ ReceiveAck2(t) \/ ReceiveAckSent \/ ReceiveLineError
    PROVE  Keeps
  <1> DEFINE d == Seen
             u == Raise(d, others)
             f == ProcessFrame(d)
             g == ProcessFrame(u)
             e1 == [d EXCEPT !.eSecondary = "RCV_ACK2"]
             e2 == [d EXCEPT !.eSecondary = "RCV_DATABIT1", !.eTertiary = RCV_BIT0]
             e3 == [u EXCEPT !.eSecondary = "RCV_ACK2", !.eTertiary = CEC_E_ACK]
  <1>1. \/ LineError(d) \/ Resets(d) \/ Resets(f) \/ Resets(g) \/ Resets(u)
        \/ Returns(e1, Never) \/ Returns(e2, Never) \/ Returns(e3, Never)
    BY DEF ReceiveAck1, ReceiveAck2, ReceiveAckSent, ReceiveLineError
  <1>2. Listener(d)
    OBVIOUS
  <1> HIDE DEF d
  <1>3. Listener(u) /\ Listener(f) /\ Listener(e1)
    BY <1>2, Listeners
  <1>4. Listener(e2)
    BY <1>2, ZenonT(60) DEF Listener, Agrees, TxStill, TxFields, IsDevice, Fields
  <1> HIDE DEF u, f
  <1>5. Listener(g)
    BY <1>3, Listeners
  <1>6. Listener(e3)
    BY <1>3, ZenonT(60) DEF Listener, Agrees, TxStill, TxFields, IsDevice, Fields
  <1> HIDE DEF g, e1, e2, e3
  <1> QED BY <1>1, <1>2, <1>3, <1>4, <1>5, <1>6, ListenerKeeps, LineErrorKeeps

LEMMA ReceiveTx == ASSUME IInv, Tx(dev), Receive PROVE Tx(dev')
  <1>1. dev.ePrimary = "RECEIVE"
    BY ZenonT(60) DEF Receive, Receiving, ReceiveStartBit1, ReceiveStartBit2, ReceiveDataBit1,
           ReceiveDataBit2, ReceiveEndOfBlock, ReceiveAck1, ReceiveAck2, ReceiveAckSent,
           ReceiveLineError
  <1>2. Listener(Seen)
    BY <1>1, SeenAgrees DEF Listener, Agrees, TxStill, TxFields, Fields, LineFields
  <1>3. Keeps
    BY <1>2, ReceiveBitKeeps, ReceiveBlockKeeps, ReceiveAckKeeps DEF Receive
  <1> QED BY <1>1, <1>3, KeepsTx

-----------------------------------------------------------------------------
(* Tx: the steps of a transmission.                                        *)

LEMMA GivesUpTx ==
    ASSUME GivesUp, Tx(dev), dev.ePrimary = "TRANSMIT" PROVE Tx(dev')
  <1> PICK d, w :
        /\ Sound(d) /\ Agrees(dev, d, Fields \ LineFields)
        /\ \/ Returns(Retransmit(d), w)
           \/ \E success \in BOOLEAN : Returns(OnTransmitComplete(ResetState(d), success), w)
    BY DEF GivesUp, Retransmits, Completes
  <1>1. IsDevice(d) /\ Tx(d)
    BY TxAgrees, AgreesFor, FieldSets DEF Sound
  <1>2. d.ePrimary = "TRANSMIT" /\ ~d.transmitPending
    BY <1>1 DEF Agrees, Fields, LineFields, Tx
  <1>3. IsDevice(ResetState(d)) /\ Free(ResetState(d))
    BY <1>1, <1>2, ResetStateTx
  <1> QED BY <1>1, <1>2, <1>3, RetransmitTx, OnTransmitCompleteTx, ReturnsTx

\* The step goes on, and the cursor it leaves is that of the next state.
LEMMA SendsTx ==
    ASSUME Tx(dev), dev.ePrimary = "TRANSMIT", NEW s, NEW n, NEW p, Sends(s, n, p)
    PROVE  /\ dev'.eSecondary = s /\ dev'.eTertiary = n
           /\ dev'.txBit = p.txBit /\ dev'.txByte = p.txByte /\ dev'.txCount = dev.txCount
           /\ (Sending(dev') => Tx(dev'))
  <1>1. /\ dev'.eSecondary = s /\ dev'.eTertiary = n
        /\ dev'.txBit = p.txBit /\ dev'.txByte = p.txByte
        /\ Agrees(dev, dev', {"ePrimary", "transmitPending", "txCount", "primaryState",
                             "secondaryState"})
    BY DEF Sends, Agrees, SentFields, Fields, LineFields
  <1>2. ~dev'.transmitPending /\ ~ToPoll(dev') /\ dev'.txCount = dev.txCount
    BY <1>1 DEF Agrees, Tx, Free, ToPoll
  <1> QED BY <1>1, <1>2 DEF Tx

LEMMA StaysTx ==
    ASSUME IInv, Tx(dev), dev.ePrimary = "TRANSMIT", AckEdge \/ IdleWaitLow \/ IdleWaitMore
    PROVE  Tx(dev')
  <1>1. Sends(dev.eSecondary, dev.eTertiary, dev)
    BY StaysSends
  <1>2. Sending(dev)
    BY DEF Tx
  <1> QED BY <1>1, <1>2, SendsTx DEF Sending, Queued

LEMMA StartBitTx ==
    ASSUME IInv, Tx(dev), dev.ePrimary = "TRANSMIT", BeginFrame \/ TransmitStartBit1
    PROVE  Tx(dev')
  <1>1. GivesUp \/ \E s \in {"XMIT_STARTBIT1", "XMIT_STARTBIT2"} : Sends(s, dev.eTertiary, dev)
    BY BeginFrameSends, LowPartSends DEF GivesUp
  <1>2. Queued(dev)
    BY DEF Tx, Sending, BeginFrame, TransmitStartBit1, Timed, Transmitting
  <1>3. ASSUME NEW s \in {"XMIT_STARTBIT1", "XMIT_STARTBIT2"}, Sends(s, dev.eTertiary, dev)
        PROVE  Tx(dev')
    <2>1. dev'.eSecondary = s /\ Queued(dev')
      BY <1>2, <1>3, SendsTx DEF Queued
    <2>2. Sending(dev')
      BY <2>1 DEF Sending, Queued, XmitStates, XmitAckStates
    <2> QED BY <1>3, <2>2, SendsTx
  <1> QED BY <1>1, <1>3, GivesUpTx

LEMMA DataBit1Tx ==
    ASSUME IInv, Tx(dev), dev.ePrimary = "TRANSMIT", TransmitDataBit1 PROVE Tx(dev')
  <1> DEFINE s == IF dev.eTertiary = XMIT_BIT_EOM THEN "XMIT_ACK" ELSE "XMIT_DATABIT2"
  <1>1. GivesUp \/ Sends(s, dev.eTertiary, dev)
    BY LowPartSends DEF GivesUp
  <1>2. Sending(dev) /\ dev.eSecondary = "XMIT_DATABIT1"
    BY DEF Tx, TransmitDataBit1, Timed, Transmitting
  <1>3. ASSUME Sends(s, dev.eTertiary, dev) PROVE Tx(dev')
    <2>1. /\ dev'.eSecondary = s /\ dev'.eTertiary = dev.eTertiary
          /\ dev'.txBit = dev.txBit /\ dev'.txByte = dev.txByte /\ dev'.txCount = dev.txCount
      BY <1>3, SendsTx
    <2>2. Sending(dev')
      BY <1>2, <2>1 DEF Sending, Queued, XmitStates, XmitAckStates, XMIT_BIT_EOM
    <2> QED BY <1>3, <2>2, SendsTx
  <1> QED BY <1>1, <1>3, GivesUpTx

LEMMA AckBitTx ==
    ASSUME IInv, Tx(dev), dev.ePrimary = "TRANSMIT",
           \/ TransmitAck \/ TransmitAck2
           \/ Collision \/ TransmitNotAcked \/ TransmitAcked
    PROVE  Tx(dev')
  <1>1. \/ GivesUp
        \/ /\ dev.eSecondary \in {"XMIT_ACK", "XMIT_ACK2"}
           /\ \E s \in {"XMIT_ACK2", "XMIT_ACK_TEST"} : Sends(s, dev.eTertiary, dev)
        \/ /\ dev.eSecondary = "XMIT_ACK_TEST" /\ RemainingTransmitBytes(dev) # 0
           /\ Sends("XMIT_ACK3", dev.eTertiary, dev)
    BY TransmitAckSends, LowPartSends, OutcomeSends
    DEF GivesUp, TransmitAck, TransmitAck2, Timed, Transmitting
  <1>2. Sending(dev) /\ dev.txByte \in Nat /\ dev.txCount \in Nat /\ dev.txByte <= dev.txCount
    BY SizeAssumption DEF Tx, IInv, Stable, Sound, Typed, InRange
  <1>3. ASSUME NEW s \in {"XMIT_ACK2", "XMIT_ACK_TEST"}, Sends(s, dev.eTertiary, dev),
               dev.eSecondary \in XmitAckStates
        PROVE  Tx(dev')
    <2>1. /\ dev'.eSecondary = s
          /\ dev'.txBit = dev.txBit /\ dev'.txByte = dev.txByte /\ dev'.txCount = dev.txCount
      BY <1>3, SendsTx
    <2>2. Sending(dev')
      BY <1>2, <1>3, <2>1 DEF Sending, XmitStates, XmitAckStates
    <2> QED BY <1>3, <2>2, SendsTx
  <1>4. ASSUME Sends("XMIT_ACK3", dev.eTertiary, dev), dev.eSecondary \in XmitAckStates,
               RemainingTransmitBytes(dev) # 0
        PROVE  Tx(dev')
    <2>1. /\ dev'.eSecondary = "XMIT_ACK3"
          /\ dev'.txBit = dev.txBit /\ dev'.txByte = dev.txByte /\ dev'.txCount = dev.txCount
      BY <1>4, SendsTx
    <2>2. dev.txByte < dev.txCount
      BY <1>2, <1>4 DEF RemainingTransmitBytes
    <2>3. Sending(dev')
      BY <1>2, <1>4, <2>1, <2>2 DEF Sending, XmitStates, XmitAckStates
    <2> QED BY <1>4, <2>3, SendsTx
  <1> QED BY <1>1, <1>3, <1>4, GivesUpTx DEF XmitAckStates

\* What a pop does to a cursor that is not at the end.
LEMMA PopAdvances ==
    ASSUME NEW d, Sound(d), d.txByte < d.txCount
    PROVE  LET e == PopTransmitBit(d)
           IN  /\ e.txBit = (IF d.txBit = 0 THEN 7 ELSE d.txBit - 1)
               /\ e.txByte = (IF d.txBit = 0 THEN d.txByte + 1 ELSE d.txByte)
  <1>1. d.txByte # d.txCount
    BY SizeAssumption DEF Sound, Typed
  <1> QED BY <1>1 DEF PopTransmitBit, Sound, IsDevice, Fields

LEMMA FirstBitTx ==
    ASSUME IInv, Tx(dev), dev.ePrimary = "TRANSMIT", NEW bit, TransmitFirstBit(bit)
    PROVE  Tx(dev')
  <1> DEFINE p == PopTransmitBit(dev)
  <1>1. Sends("XMIT_DATABIT1", XMIT_BIT0, p)
    BY FirstBitSends
  <1>2. dev.txByte < dev.txCount /\ dev.txBit = 7 /\ Sound(dev)
    BY DEF Tx, Sending, Queued, TransmitFirstBit, Timed, Transmitting, XmitAckStates, IInv,
           Stable
  <1>3. p.txBit = 6 /\ p.txByte = dev.txByte
    BY <1>2, PopAdvances
  <1> HIDE DEF p
  <1>4. /\ dev'.eSecondary = "XMIT_DATABIT1" /\ dev'.eTertiary = 12
        /\ dev'.txBit = 6 /\ dev'.txByte = dev.txByte /\ dev'.txCount = dev.txCount
    BY <1>1, <1>3, SendsTx DEF XMIT_BIT0
  <1>5. Sending(dev')
    BY <1>2, <1>4 DEF Tx, Sending, XmitStates, XmitAckStates, XMIT_BIT_EOM
  <1> QED BY <1>1, <1>5, SendsTx

LEMMA NextBitTx ==
    ASSUME IInv, Tx(dev), dev.ePrimary = "TRANSMIT", NEW bit, TransmitDataBit2(bit)
    PROVE  Tx(dev')
  <1> DEFINE n == dev.eTertiary + 1
             p == IF n = XMIT_BIT_EOM THEN dev ELSE PopTransmitBit(dev)
  <1>1. Sends("XMIT_DATABIT1", n, p)
    BY NextBitSends
  <1>2. dev.eSecondary = "XMIT_DATABIT2" /\ Sending(dev) /\ Sound(dev)
    BY DEF Tx, TransmitDataBit2, Timed, Transmitting, IInv, Stable
  <1>3. dev.eTertiary \in 12..19
    BY <1>2 DEF IInv, Stable, Counting, XMIT_BIT0, XMIT_BIT_EOM
  <1>4. dev.txCount > 0 /\ dev.txByte \in Nat /\ dev.txCount \in Nat
    BY <1>2, SizeAssumption DEF Sending, Sound, Typed
  <1>5. CASE dev.eTertiary = 19
    <2>1. p = dev
      BY <1>5 DEF XMIT_BIT_EOM
    <2>2. dev.txBit = 7 /\ dev.txByte > 0
      BY <1>2, <1>5 DEF Sending, XMIT_BIT_EOM
    <2> HIDE DEF p
    <2>3. /\ dev'.eSecondary = "XMIT_DATABIT1" /\ dev'.eTertiary = 20
          /\ dev'.txBit = 7 /\ dev'.txByte > 0 /\ dev'.txCount = dev.txCount
      BY <1>1, <1>5, <2>1, <2>2, SendsTx
    <2>4. Sending(dev')
      BY <1>4, <2>3 DEF Sending, XmitStates, XmitAckStates, XMIT_BIT_EOM
    <2> QED BY <1>1, <2>4, SendsTx
  <1>6. CASE dev.eTertiary # 19
    <2>1. p = PopTransmitBit(dev)
      BY <1>3, <1>6 DEF XMIT_BIT_EOM
    <2>2. dev.txBit = 18 - dev.eTertiary /\ dev.txByte < dev.txCount
      BY <1>2, <1>3, <1>6 DEF Sending, XMIT_BIT_EOM
    <2> HIDE DEF p
    <2>3. /\ p.txBit = (IF dev.txBit = 0 THEN 7 ELSE dev.txBit - 1)
          /\ p.txByte = (IF dev.txBit = 0 THEN dev.txByte + 1 ELSE dev.txByte)
      BY <1>2, <2>1, <2>2, PopAdvances
    <2>4. /\ dev'.eSecondary = "XMIT_DATABIT1" /\ dev'.eTertiary = n
          /\ dev'.txBit = p.txBit /\ dev'.txByte = p.txByte /\ dev'.txCount = dev.txCount
      BY <1>1, SendsTx
    <2>5. Sending(dev')
      BY <1>3, <1>4, <1>6, <2>2, <2>3, <2>4
      DEF Sending, XmitStates, XmitAckStates, XMIT_BIT_EOM
    <2> QED BY <1>1, <2>5, SendsTx
  <1> QED BY <1>5, <1>6

LEMMA IdleWaitEdgeTx ==
    ASSUME IInv, Tx(dev), IdleWaitEdge PROVE Tx(dev')
  <1> DEFINE d == Seen
             r == [d EXCEPT !.ePrimary = "RECEIVE", !.eSecondary = "RCV_STARTBIT1",
                            !.transmitPending = TRUE]
  <1>1. IsDevice(d) /\ Tx(d)
    BY SeenAgrees, TxAgrees, AgreesFor, FieldSets
  <1>2. d.ePrimary = "TRANSMIT" /\ d.eSecondary = "IDLE_WAIT"
    BY SeenAgrees DEF IdleWaitEdge, Transmitting, Agrees, Fields, LineFields
  <1>3. Returns(d, Never) \/ Returns(r, Never)
    BY DEF IdleWaitEdge
  <1> HIDE DEF d
  <1>4. Queued(d) /\ ~ToPoll(d)
    BY <1>1, <1>2 DEF Tx, Sending, Free
  <1>5. /\ IsDevice(r) /\ r.ePrimary = "RECEIVE"
        /\ Agrees(d, r, TxStill \ {"transmitPending"})
    BY <1>1 DEF Agrees, TxStill, TxFields, IsDevice, Fields
  <1> HIDE DEF r
  <1>6. Tx(r)
    BY <1>4, <1>5 DEF Agrees, TxStill, TxFields, Tx, Queued, ToPoll
  <1> QED BY <1>1, <1>3, <1>5, <1>6, ReturnsTx

LEMMA TransmitTx == ASSUME IInv, Tx(dev), Transmit PROVE Tx(dev')
  BY TransmitIsTransmitting, IdleWaitEdgeTx, StaysTx, StartBitTx, DataBit1Tx, AckBitTx,
     FirstBitTx, NextBitTx
  DEF Transmit

-----------------------------------------------------------------------------
(* The theorem about transmissions.                                        *)

LEMMA StepTx == ASSUME IInv, Tx(dev), Run \/ Process \/ UNCHANGED dev PROVE Tx(dev')
  <1>1. CASE Spurious \/ IdleEdge
    <2>1. dev.ePrimary # "TRANSMIT"
      BY <1>1 DEF Spurious, IdleEdge
    <2> QED BY <1>1, <2>1, SpuriousKeeps, KeepsTx
  <1> QED BY <1>1, RunTx, ReceiveTx, TransmitTx DEF Process

LEMMA NextTx == ASSUME HostPaced PROVE IInv /\ Tx(dev) /\ [Next]_vars => Tx(dev')
  BY StepTx, HostTx DEF Next, LineMoves, vars

\* With a host that waits for a frame to end before it hands over the next, the
\* transmit cursor is in step with the bit Process sends, and a frame that waits
\* for the line, first or again, waits with the cursor at its start.
THEOREM TransmissionsAreAligned == ASSUME HostPaced PROVE Spec => []TransmitIsAligned
  <1> DEFINE TxNow == Tx(dev)
  <1>1. Init => TxNow
    BY DEF Init, NewDevice, Tx, Free
  <1>2. IInv /\ TxNow /\ [Next]_vars => TxNow'
    BY NextTx
  <1>3. IInv /\ TxNow => TransmitIsAligned
    <2> SUFFICES ASSUME IInv, Tx(dev) PROVE TransmitIsAligned
      OBVIOUS
    <2>1. dev.transmitPending => dev.txCount > 0 /\ dev.txByte = 0 /\ dev.txBit = 7
      BY DEF Tx, Queued
    <2>2. ASSUME dev.ePrimary = "TRANSMIT"
          PROVE  Sending(dev) /\ dev.xmitretry < CEC_E_MAX_RETRANSMIT
      BY <2>2 DEF Tx, IInv, Stable, Sound, InRange
    <2> QED
      BY <2>1, <2>2
      DEF TransmitIsAligned, Sending, Queued, XmitStates, XmitAckStates, XMIT_BIT_EOM
  <1> HIDE DEF TxNow
  <1> QED BY <1>1, <1>2, <1>3, Inductive, PTL DEF Spec

-----------------------------------------------------------------------------
(* The phase of a reception: which edge comes next.                        *)

PhaseFields == {"ePrimary", "eSecondary", "lastLineState"}

LEMMA PhaseAgrees ==
    ASSUME NEW d, NEW e, Agrees(d, e, PhaseFields), InPhase(d) PROVE InPhase(e)
  BY DEF Agrees, PhaseFields, InPhase

LEMMA RestInPhase == ASSUME NEW d, AtRest(d) PROVE InPhase(d)
  BY DEF AtRest, InPhase

LEMMA ReturnsPhase ==
    ASSUME NEW d, IsDevice(d), InPhase(d), NEW w, Returns(d, w) PROVE InPhase(dev')
  <1>1. Agrees(d, dev', Fields \ {"waitTime"})
    BY ReturnsAgrees
  <1>2. Agrees(d, dev', PhaseFields)
    BY <1>1 DEF Agrees, PhaseFields, Fields
  <1> QED BY <1>2, PhaseAgrees

LEMMA ResetsPhase == ASSUME NEW d, IsDevice(d), Resets(d) PROVE InPhase(dev')
  BY ResetStateRest, ResetStateRx, RestInPhase, ReturnsPhase DEF Resets

LEMMA LineErrorPhase == ASSUME NEW d, IsDevice(d), LineError(d) PROVE InPhase(dev')
  <1> DEFINE g == [d EXCEPT !.eSecondary = "RCV_LINEERROR"]
             e == Lower(g)
             w == Deadline("now", 3600)
  <1>1. CASE d.follower \/ d.broadcast
    <2>1. IsDevice(g) /\ g.eSecondary = "RCV_LINEERROR"
      BY DEF IsDevice, Fields
    <2>2. Returns(e, w)
      BY <1>1 DEF LineError
    <2> HIDE DEF g, w
    <2>3. IsDevice(e) /\ e.eSecondary = "RCV_LINEERROR"
      BY <2>1, LowerAgrees DEF Agrees, Fields, LineFields
    <2> HIDE DEF e
    <2>4. InPhase(e)
      BY <2>3 DEF InPhase
    <2> QED BY <2>2, <2>3, <2>4, ReturnsPhase
  <1>2. CASE ~(d.follower \/ d.broadcast)
    BY <1>2, ResetsPhase DEF LineError
  <1> QED BY <1>1, <1>2

\* The reception goes on to the state s, which waits for the other edge.
Awaits(s, level) ==
    /\ s \in {"RCV_STARTBIT1", "RCV_DATABIT1", "RCV_ACK1"} => ~level
    /\ s \in {"RCV_STARTBIT2", "RCV_DATABIT2", "RCV_ACK2"} => level

LEMMA StepPhase ==
    ASSUME NEW d, IsDevice(d), NEW s, NEW n, Awaits(s, d.lastLineState), NEW w,
           Returns(Step(d, s, n), w)
    PROVE  InPhase(dev')
  <1> DEFINE e == Step(d, s, n)
  <1>1. IsDevice(e) /\ e.eSecondary = s /\ e.lastLineState = d.lastLineState
    BY StepAgrees DEF Agrees, Fields
  <1> HIDE DEF e
  <1>2. InPhase(e)
    BY <1>1 DEF InPhase, Awaits
  <1> QED BY <1>1, <1>2, ReturnsPhase DEF e

-----------------------------------------------------------------------------
(* Phase: the steps outside a reception.                                   *)

LEMMA OnTransmitBeginPhase ==
    ASSUME NEW d, IsDevice(d), InPhase(d)
    PROVE  IsDevice(OnTransmitBegin(d)) /\ InPhase(OnTransmitBegin(d))
  <1> DEFINE p == [d EXCEPT !.transmitPending = TRUE]
  <1>1. IsDevice(p) /\ Agrees(d, p, PhaseFields)
    BY DEF Agrees, PhaseFields, IsDevice, Fields
  <1>2. CASE d.ePrimary = "IDLE"
    BY <1>2, OnTransmitBeginRest, OnTransmitBeginLine, RestInPhase DEF AtRest, SameLine
  <1>3. CASE d.ePrimary # "IDLE"
    BY <1>1, <1>3, PhaseAgrees DEF OnTransmitBegin
  <1> QED BY <1>2, <1>3

LEMMA PutHeaderPhase ==
    ASSUME NEW d, IsDevice(d), InPhase(d), NEW x
    PROVE  IsDevice(PutHeader(d, x)) /\ InPhase(PutHeader(d, x))
  <1>1. Agrees(d, PutHeader(d, x), PhaseFields)
    BY PutHeaderAgrees DEF Agrees, PhaseFields, Fields
  <1> QED BY <1>1, PutHeaderAgrees, PhaseAgrees

LEMMA PumpPhase == ASSUME NEW d, IsDevice(d), InPhase(d) PROVE InPhase(Pump(d))
  <1> DEFINE b == OnTransmitBegin(PutHeader(d, Candidate(d.tertiaryState)))
             p == [b EXCEPT !.secondaryState = "CEC_RCV_POLLING_MESSAGE"]
             i == [d EXCEPT !.primaryState = "CEC_IDLE"]
  <1>1. IsDevice(b) /\ InPhase(b)
    BY PutHeaderPhase, OnTransmitBeginPhase
  <1>2. Poll(d) = p
    BY DEF Poll
  <1> HIDE DEF b
  <1>3. Agrees(b, p, PhaseFields)
    BY <1>1 DEF Agrees, PhaseFields, IsDevice, Fields
  <1>4. Agrees(d, i, PhaseFields)
    BY DEF Agrees, PhaseFields, IsDevice, Fields
  <1>5. InPhase(Poll(d)) /\ InPhase(i)
    BY <1>1, <1>2, <1>3, <1>4, PhaseAgrees
  <1> QED BY <1>5 DEF Pump

LEMMA TransmitFramePhase ==
    ASSUME NEW d, IsDevice(d), InPhase(d), NEW x, NEW n PROVE InPhase(TransmitFrame(d, x, n))
  <1> DEFINE h == PutHeader(d, x)
             p == TransmitPartial(h, n)
  <1>1. IsDevice(h) /\ InPhase(h)
    BY PutHeaderPhase
  <1> HIDE DEF h
  <1>2. IsDevice(p) /\ Agrees(h, p, PhaseFields)
    BY <1>1 DEF TransmitPartial, Agrees, PhaseFields, IsDevice, Fields
  <1>3. InPhase(OnTransmitBegin(p))
    BY <1>1, <1>2, PhaseAgrees, OnTransmitBeginPhase
  <1> QED BY <1>1, <1>3 DEF TransmitFrame, h

LEMMA RunPhase == ASSUME IInv, InPhase(dev), Run PROVE InPhase(dev')
  <1> DEFINE s == Sampled
             p == Pump(s)
             e == [p EXCEPT !.isrTriggered = FALSE]
  <1>1. IsDevice(s) /\ Agrees(dev, s, PhaseFields)
    BY DEF Sampled, Agrees, PhaseFields, IInv, Stable, Sound, IsDevice, Fields
  <1>2. dev' = p \/ dev' = e
    BY DEF Run, RunDue, RunInterrupted, RunAsleep, Pumped
  <1> HIDE DEF s
  <1>3. IsDevice(p) /\ InPhase(p)
    BY <1>1, PhaseAgrees, PumpPhase, PumpLine DEF SameLine
  <1> HIDE DEF p
  <1>4. Agrees(p, e, PhaseFields)
    BY <1>3 DEF Agrees, PhaseFields, IsDevice, Fields
  <1> HIDE DEF e
  <1> QED BY <1>2, <1>3, <1>4, PhaseAgrees

LEMMA HostPhase == ASSUME IInv, InPhase(dev), Host PROVE InPhase(dev')
  <1> PICK dest \in Destinations, count \in FrameSizes : HostTransmit(dest, count)
    BY DEF Host
  <1>1. IsDevice(dev)
    BY DEF IInv, Stable, Sound
  <1> QED BY <1>1, TransmitFramePhase DEF HostTransmit

LEMMA IdlePhase ==
    ASSUME IInv, InPhase(dev), Spurious \/ IdleEdge \/ IdleWaitEdge PROVE InPhase(dev')
  <1> DEFINE d == Seen
             q == [dev EXCEPT !.stamps = {}]
             i == [d EXCEPT !.ePrimary = "RECEIVE", !.eSecondary = "RCV_STARTBIT1",
                            !.follower = FALSE, !.broadcast = FALSE,
                            !.amLastTransmittor = FALSE]
             r == [d EXCEPT !.ePrimary = "RECEIVE", !.eSecondary = "RCV_STARTBIT1",
                            !.transmitPending = TRUE]
  <1>1. IsDevice(d) /\ d.ePrimary = dev.ePrimary /\ d.lastLineState = line
    BY SeenSound DEF Sound, Fields
  <1>2. IsDevice(q) /\ Agrees(dev, q, PhaseFields)
    BY DEF Agrees, PhaseFields, IInv, Stable, Sound, IsDevice, Fields
  <1>3. CASE Spurious
    <2>1. Returns(q, Never)
      BY <1>3 DEF Spurious
    <2> HIDE DEF q
    <2> QED BY <1>2, <2>1, PhaseAgrees, ReturnsPhase
  <1>4. CASE IdleEdge \/ IdleWaitEdge
    <2>1. Returns(d, Never) \/ (~line /\ (Returns(i, Never) \/ Returns(r, Never)))
      BY <1>4 DEF IdleEdge, IdleWaitEdge
    <2>2. InPhase(d)
      BY <1>1, <1>4 DEF InPhase, IdleEdge, IdleWaitEdge, Transmitting
    <2> HIDE DEF d
    <2>3. /\ IsDevice(i) /\ i.eSecondary = "RCV_STARTBIT1" /\ i.lastLineState = line
          /\ IsDevice(r) /\ r.eSecondary = "RCV_STARTBIT1" /\ r.lastLineState = line
      BY <1>1 DEF IsDevice, Fields
    <2> HIDE DEF i, r
    <2>4. ~line => InPhase(i) /\ InPhase(r)
      BY <2>3 DEF InPhase
    <2> QED BY <1>1, <2>1, <2>2, <2>3, <2>4, ReturnsPhase
  <1> QED BY <1>3, <1>4

LEMMA TransmitPhase == ASSUME IInv, InPhase(dev), Transmit PROVE InPhase(dev')
  <1>1. CASE IdleWaitEdge
    BY <1>1, IdlePhase
  <1>2. CASE GivesUp
    <2> PICK d, w :
          /\ Sound(d) /\ Agrees(dev, d, Fields \ LineFields)
          /\ \/ Returns(Retransmit(d), w)
             \/ \E success \in BOOLEAN : Returns(OnTransmitComplete(ResetState(d), success), w)
      BY <1>2 DEF GivesUp, Retransmits, Completes
    <2>1. IsDevice(d) /\ IsDevice(Retransmit(d)) /\ IsDevice(ResetState(d))
      BY RetransmitLine, ResetStateRx DEF Sound, SameLine
    <2>2. \A success \in BOOLEAN : LET c == OnTransmitComplete(ResetState(d), success)
                                   IN  IsDevice(c) /\ InPhase(c)
      BY <2>1, ResetStateRest, OnTransmitCompleteRest, OnTransmitCompleteLine, RestInPhase
      DEF SameLine
    <2>3. InPhase(Retransmit(d))
      BY <2>1, RetransmitRest, RestInPhase
    <2> QED BY <2>1, <2>2, <2>3, ReturnsPhase
  <1>3. CASE \E s, n, p : Sends(s, n, p)
    <2>1. dev'.ePrimary = dev.ePrimary
      BY <1>3 DEF Sends, Agrees, SentFields, Fields, LineFields
    <2> QED BY <2>1, TransmitIsTransmitting DEF InPhase
  <1>4. IdleWaitEdge \/ GivesUp \/ \E s, n, p : Sends(s, n, p)
    BY StaysSends, BeginFrameSends, LowPartSends, TransmitAckSends, FirstBitSends,
       NextBitSends, OutcomeSends
    DEF GivesUp, Transmit
  <1> QED BY <1>1, <1>2, <1>3, <1>4

-----------------------------------------------------------------------------
(* Phase: the steps of a reception.                                        *)

\* An edge in phase takes the line to the level that the state waited for.
LEMMA EdgePhase ==
    ASSUME IInv, InPhase(dev), Changed, NEW s, Receiving(s)
    PROVE  /\ IsDevice(Seen) /\ Sound(Seen) /\ Seen.eSecondary = s
           /\ Seen.eTertiary = dev.eTertiary
           /\ s \in {"RCV_STARTBIT1", "RCV_DATABIT1", "RCV_ACK1"} => Seen.lastLineState
           /\ s \in {"RCV_STARTBIT2", "RCV_DATABIT2", "RCV_ACK2"} => ~Seen.lastLineState
  <1>1. /\ Sound(Seen) /\ IsDevice(Seen) /\ Seen.lastLineState = line
        /\ Seen.eTertiary = dev.eTertiary /\ Seen.eSecondary = s
    BY SeenSound DEF Sound, Fields, Receiving
  <1>2. line \in BOOLEAN /\ dev.lastLineState \in BOOLEAN
    BY DEF IInv, Stable, Sound, Typed, line, Line
  <1>3. /\ s \in {"RCV_STARTBIT1", "RCV_DATABIT1", "RCV_ACK1"} => ~dev.lastLineState
        /\ s \in {"RCV_STARTBIT2", "RCV_DATABIT2", "RCV_ACK2"} => dev.lastLineState
    BY DEF InPhase, Receiving
  <1>4. line <=> ~dev.lastLineState
    BY <1>2 DEF Changed
  <1>5. Seen.lastLineState <=> line
    BY <1>1
  <1> QED BY <1>1, <1>3, <1>4, <1>5

LEMMA ReceiveStartBitPhase ==
    ASSUME IInv, InPhase(dev), NEW t, ReceiveStartBit1(t) \/ ReceiveStartBit2(t)
    PROVE  InPhase(dev')
  <1> DEFINE d == Seen
  <1>1. CASE ReceiveStartBit1(t)
    <2>1. IsDevice(d) /\ d.lastLineState
      BY <1>1, EdgePhase DEF ReceiveStartBit1
    <2>2. Returns([d EXCEPT !.eSecondary = "RCV_STARTBIT2"], Never) \/ Resets(d)
      BY <1>1 DEF ReceiveStartBit1
    <2> HIDE DEF d
    <2>3. Returns(Step(d, "RCV_STARTBIT2", d.eTertiary), Never) \/ Resets(d)
      BY <2>1, <2>2, GotoIsStep
    <2> QED BY <2>1, <2>3, StepPhase, ResetsPhase DEF Awaits
  <1>2. CASE ReceiveStartBit2(t)
    <2>1. IsDevice(d) /\ ~d.lastLineState
      BY <1>2, EdgePhase DEF ReceiveStartBit2
    <2>2. Returns(Step(d, "RCV_DATABIT1", RCV_BIT0), Never) \/ Resets(d)
      BY <1>2 DEF ReceiveStartBit2, Step
    <2> HIDE DEF d
    <2> QED BY <2>1, <2>2, StepPhase, ResetsPhase DEF Awaits
  <1> QED BY <1>1, <1>2

LEMMA ReceiveDataBit1Phase ==
    ASSUME IInv, InPhase(dev), NEW t, ReceiveDataBit1(t) PROVE InPhase(dev')
  <1> DEFINE d == Seen
             b == ReceivedBit(d, ShortPulse(t))
  <1>1. IsDevice(d) /\ d.lastLineState
    BY EdgePhase DEF ReceiveDataBit1
  <1>2. Returns([b EXCEPT !.eSecondary = "RCV_DATABIT2"], Never) \/ LineError(d)
    BY DEF ReceiveDataBit1
  <1> HIDE DEF d
  <1>3. IsDevice(b) /\ b.lastLineState = d.lastLineState
    BY <1>1 DEF ReceivedBit, PushReceiveBit, IsDevice, Fields
  <1> HIDE DEF b
  <1>4. Returns(Step(b, "RCV_DATABIT2", b.eTertiary), Never) \/ LineError(d)
    BY <1>2, <1>3, GotoIsStep
  <1> QED BY <1>1, <1>3, <1>4, StepPhase, LineErrorPhase DEF Awaits

LEMMA ReceiveDataBit2Phase ==
    ASSUME IInv, InPhase(dev), NEW t, ReceiveDataBit2(t) PROVE InPhase(dev')
  <1> DEFINE d == Seen
  <1>1. IsDevice(d) /\ ~d.lastLineState
    BY EdgePhase DEF ReceiveDataBit2
  <1>2. Returns([d EXCEPT !.eSecondary = "RCV_DATABIT1", !.eTertiary = @ + 1], Never)
        \/ LineError(d)
    BY DEF ReceiveDataBit2
  <1> HIDE DEF d
  <1>3. Returns(Step(d, "RCV_DATABIT1", d.eTertiary + 1), Never) \/ LineError(d)
    BY <1>1, <1>2 DEF Step, IsDevice, Fields
  <1> QED BY <1>1, <1>3, StepPhase, LineErrorPhase DEF Awaits

LEMMA ReceiveEndOfBlockPhase ==
    ASSUME IInv, InPhase(dev), NEW t, NEW dest, ReceiveEndOfBlock(t, dest)
    PROVE  InPhase(dev')
  <1> DEFINE d == Seen
             e == Step(d, "RCV_ACK1", RCV_BIT_ACK)
             c == CheckAddress(e, dest)
             l == Lower(c)
             w == Deadline("bit", 1500)
  <1>1. IsDevice(d) /\ ~d.lastLineState
    BY EdgePhase DEF ReceiveEndOfBlock
  <1>2. \/ LineError(d) \/ Resets(c) \/ Returns(c, Never)
        \/ Returns([l EXCEPT !.eSecondary = "RCV_ACK_SENT"], w)
    BY DEF ReceiveEndOfBlock, Step
  <1> HIDE DEF d, w
  <1>3. /\ IsDevice(e) /\ e.eSecondary = "RCV_ACK1" /\ e.lastLineState = d.lastLineState
    BY <1>1, StepAgrees DEF Agrees, Fields
  <1> HIDE DEF e
  <1>4. /\ IsDevice(c) /\ c.eSecondary = "RCV_ACK1" /\ c.lastLineState = d.lastLineState
    BY <1>3 DEF CheckAddress, IsDevice, Fields
  <1> HIDE DEF c
  <1>5. IsDevice(l) /\ InPhase(c)
    BY <1>1, <1>4, LowerAgrees DEF InPhase
  <1> HIDE DEF l
  <1>6. \/ LineError(d) \/ Resets(c) \/ Returns(c, Never)
        \/ Returns(Step(l, "RCV_ACK_SENT", l.eTertiary), w)
    BY <1>2, <1>5, GotoIsStep
  <1>7. Awaits("RCV_ACK_SENT", l.lastLineState)
    BY DEF Awaits
  <1> QED BY <1>1, <1>4, <1>5, <1>6, <1>7, StepPhase, LineErrorPhase, ResetsPhase, ReturnsPhase

LEMMA ReceiveAckPhase ==
    ASSUME IInv, InPhase(dev), NEW t, ReceiveAck1(t) \/ ReceiveAck2(t)
    PROVE  InPhase(dev')
  <1> DEFINE d == Seen
             f == ProcessFrame(d)
  <1>1. CASE ReceiveAck1(t)
    <2>1. IsDevice(d) /\ IsDevice(f) /\ d.lastLineState
      BY <1>1, EdgePhase, ProcessFrameSound DEF ReceiveAck1, Sound
    <2>2. LineError(d) \/ Resets(d) \/ Resets(f)
          \/ Returns([d EXCEPT !.eSecondary = "RCV_ACK2"], Never)
      BY <1>1 DEF ReceiveAck1
    <2> HIDE DEF d, f
    <2>3. LineError(d) \/ Resets(d) \/ Resets(f)
          \/ Returns(Step(d, "RCV_ACK2", d.eTertiary), Never)
      BY <2>1, <2>2, GotoIsStep
    <2> QED BY <2>1, <2>3, StepPhase, LineErrorPhase, ResetsPhase DEF Awaits
  <1>2. CASE ReceiveAck2(t)
    <2>1. IsDevice(d) /\ ~d.lastLineState
      BY <1>2, EdgePhase DEF ReceiveAck2
    <2>2. Returns(Step(d, "RCV_DATABIT1", RCV_BIT0), Never) \/ LineError(d)
      BY <1>2 DEF ReceiveAck2, Step
    <2> HIDE DEF d
    <2> QED BY <2>1, <2>2, StepPhase, LineErrorPhase DEF Awaits
  <1> QED BY <1>1, <1>2

\* The level read back is high, unless another device holds the line.
LEMMA ReceiveAckSentPhase ==
    ASSUME IInv, ReceiveAckSent, ~Overlaps PROVE InPhase(dev')
  <1> DEFINE d == Raise(Seen, others)
             f == ProcessFrame(d)
  <1>1. /\ Sound(Seen) /\ IsDevice(Seen) /\ (~Seen.out => ~MonitorMode)
        /\ Seen.lastLineState = line /\ Seen.out = dev.out /\ Seen.eom = dev.eom
    BY SeenHeld, SeenSound DEF Sound, Fields
  <1>2. IsDevice(d) /\ Sound(d) /\ d.eom = dev.eom
    BY <1>1, RaiseAgrees, RaisedSeen DEF Agrees, Fields, LineFields
  <1>3. others => d.lastLineState
    <2>1. CASE MonitorMode
      BY <1>1, <2>1 DEF Raise, line, Line, Sound, Typed
    <2>2. CASE ~MonitorMode
      BY <1>1, <2>2 DEF Raise, IsDevice, Fields, Sound, Typed
    <2> QED BY <2>1, <2>2
  <1>4. ~d.eom => others
    BY <1>2 DEF Overlaps, ReceiveAckSent, Receiving
  <1>5. IF d.eom THEN Resets(f) ELSE Returns(Step(d, "RCV_ACK2", CEC_E_ACK), Never)
    BY DEF ReceiveAckSent, Step
  <1> HIDE DEF d
  <1>6. IsDevice(f)
    BY <1>2, ProcessFrameSound DEF Sound
  <1> HIDE DEF f
  <1>7. ~d.eom => Awaits("RCV_ACK2", d.lastLineState)
    BY <1>3, <1>4 DEF Awaits
  <1> QED BY <1>2, <1>5, <1>6, <1>7, StepPhase, ResetsPhase

LEMMA ProcessPhase ==
    ASSUME IInv, InPhase(dev), ~Overlaps, Process PROVE InPhase(dev')
  <1>1. CASE Receive
    <2>1. CASE ReceiveLineError
      BY <2>1, RaisedSeen, ResetsPhase DEF ReceiveLineError
    <2> QED BY <1>1, <2>1, ReceiveStartBitPhase, ReceiveDataBit1Phase, ReceiveDataBit2Phase,
               ReceiveEndOfBlockPhase, ReceiveAckPhase, ReceiveAckSentPhase
            DEF Receive
  <1> QED BY <1>1, IdlePhase, TransmitPhase DEF Process

\* A receiver stays in phase with the edges of the line, wherever they fall
\* between the sample of Run and that of Process; what may put it out of phase
\* is its own acknowledge, when it ends before that of the initiator.
THEOREM PhaseShiftsInOverlaps == Spec => OnlyOverlapsShiftPhase
  <1>1. IInv /\ [Next]_vars => [InPhase(dev) /\ ~Overlaps => InPhase(dev')]_vars
    <2> SUFFICES ASSUME IInv, [Next]_vars, InPhase(dev), ~Overlaps PROVE InPhase(dev')
      OBVIOUS
    <2>1. CASE UNCHANGED dev
      BY <2>1
    <2> QED BY <2>1, RunPhase, HostPhase, ProcessPhase DEF Next, LineMoves, vars
  <1> QED BY <1>1, Inductive, PTL DEF Spec, OnlyOverlapsShiftPhase
=============================================================================
