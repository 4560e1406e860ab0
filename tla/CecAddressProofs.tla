-------------------------- MODULE CecAddressProofs --------------------------
(***************************************************************************)
(* A logical address, once claimed, is final: no member function changes   *)
(* the address of a device whose allocation has ended (Settled), because   *)
(* OnTransmitComplete reports to the allocation only while it is going on. *)
(* While it is, the frame in the buffer is the poll of the candidate       *)
(* (Promised), and every frame is served as FrameService says: each step   *)
(* of the engine is a step of the service or leaves it alone (Moves).      *)
(***************************************************************************)
EXTENDS CecFrameProofs

\* The device d has ended its allocation with the addresses l and a.
Settled(d, l, a) ==
    /\ IsDevice(d)
    /\ d.primaryState = "CEC_IDLE" /\ d.logicalAddress = l /\ d.address = a

-----------------------------------------------------------------------------
(* The member functions.                                                   *)

LEMMA ToIdleSettled ==
    ASSUME NEW d, NEW l, NEW a, Settled(d, l, a) PROVE Settled(ToIdle(d), l, a)
  BY ZenonT(60) DEF Settled, ToIdle, IsDevice, Fields

LEMMA NewFrameSettled ==
    ASSUME NEW d, NEW l, NEW a, Settled(d, l, a) PROVE Settled(NewFrame(d), l, a)
  BY DEF Settled, NewFrame, IsDevice, Fields

LEMMA ResetStateSettled ==
    ASSUME NEW d, NEW l, NEW a, Settled(d, l, a) PROVE Settled(ResetState(d), l, a)
  BY ToIdleSettled, NewFrameSettled DEF ResetState

LEMMA OnTransmitCompleteSettled ==
    ASSUME NEW d, NEW l, NEW a, Settled(d, l, a), NEW success
    PROVE  Settled(OnTransmitComplete(d, success), l, a)
  BY DEF OnTransmitComplete, Allocating, Settled

LEMMA RetransmitSettled ==
    ASSUME NEW d, NEW l, NEW a, Settled(d, l, a) PROVE Settled(Retransmit(d), l, a)
  <1> DEFINE t == ToIdle(d)
             i == [t EXCEPT !.transmitPending = FALSE, !.xmitretry = @ + 1]
             r == [ResetTransmitBuffer(d) EXCEPT
                      !.ePrimary = "TRANSMIT", !.eSecondary = "IDLE_WAIT",
                      !.eTertiary = IDLE_RETRANSMIT_FRAME,
                      !.transmitPending = FALSE, !.xmitretry = @ + 1]
  <1>1. Settled(i, l, a)
    <2>1. Settled(t, l, a)
      BY ToIdleSettled
    <2> HIDE DEF t
    <2> QED BY <2>1 DEF Settled, IsDevice, Fields
  <1>2. Settled(r, l, a)
    BY ZenonT(60) DEF Settled, ResetTransmitBuffer, IsDevice, Fields
  <1>3. Settled(OnTransmitComplete(i, FALSE), l, a)
    <2> HIDE DEF i
    <2> QED BY <1>1, OnTransmitCompleteSettled
  <1> QED BY <1>2, <1>3 DEF Retransmit

LEMMA PumpSettled ==
    ASSUME NEW d, NEW l, NEW a, Settled(d, l, a) PROVE Settled(Pump(d), l, a)
  BY DEF Pump, Settled, IsDevice, Fields

LEMMA TransmitFrameSettled ==
    ASSUME NEW d, NEW l, NEW a, Settled(d, l, a), NEW x, NEW n
    PROVE  Settled(TransmitFrame(d, x, n), l, a)
  <1> DEFINE h == PutHeader(d, x)
             p == TransmitPartial(h, n)
  <1>1. Settled(h, l, a)
    BY ZenonT(60) DEF PutHeader, TransmitPartial, ClearTransmitBuffer, Settled, IsDevice, Fields
  <1> HIDE DEF h
  <1>2. Settled(p, l, a)
    BY <1>1 DEF TransmitPartial, Settled, IsDevice, Fields
  <1> HIDE DEF p
  <1>3. Settled(NewFrame(p), l, a) /\ Settled([p EXCEPT !.transmitPending = TRUE], l, a)
    BY <1>2, ZenonT(60) DEF NewFrame, Settled, IsDevice, Fields
  <1>4. Settled(OnTransmitBegin(p), l, a)
    BY <1>2, <1>3 DEF OnTransmitBegin
  <1> QED BY <1>1, <1>4 DEF TransmitFrame, h, p

\* Driving the line, moving the cursors and the states, noting the addressee.
LEMMA LowerSettled ==
    ASSUME NEW d, NEW l, NEW a, Settled(d, l, a) PROVE Settled(Lower(d), l, a)
  BY DEF Lower, Settled, IsDevice, Fields

LEMMA RaiseSettled ==
    ASSUME NEW d, NEW l, NEW a, Settled(d, l, a), NEW o PROVE Settled(Raise(d, o), l, a)
  BY DEF Raise, Settled, IsDevice, Fields

LEMMA HasChangedSettled ==
    ASSUME NEW d, NEW l, NEW a, Settled(d, l, a), NEW level PROVE Settled(HasChanged(d, level), l, a)
  BY DEF HasChanged, Settled, IsDevice, Fields

LEMMA PopTransmitBitSettled ==
    ASSUME NEW d, NEW l, NEW a, Settled(d, l, a) PROVE Settled(PopTransmitBit(d), l, a)
  BY DEF PopTransmitBit, Settled, IsDevice, Fields

LEMMA ProcessFrameSettled ==
    ASSUME NEW d, NEW l, NEW a, Settled(d, l, a) PROVE Settled(ProcessFrame(d), l, a)
  BY DEF ProcessFrame, ResetReceiveBuffer, Settled, IsDevice, Fields

LEMMA ReceivedBitSettled ==
    ASSUME NEW d, NEW l, NEW a, Settled(d, l, a), NEW bit
    PROVE  Settled(ReceivedBit(d, bit), l, a)
  <1>1. Settled([d EXCEPT !.eom = bit], l, a)
    BY DEF Settled, IsDevice, Fields
  <1>2. Settled(PushReceiveBit(d), l, a)
    BY DEF PushReceiveBit, Settled, IsDevice, Fields
  <1> QED BY <1>1, <1>2 DEF ReceivedBit

LEMMA CheckAddressSettled ==
    ASSUME NEW d, NEW l, NEW a, Settled(d, l, a), NEW dest
    PROVE  Settled(CheckAddress(d, dest), l, a)
  BY DEF CheckAddress, Settled, IsDevice, Fields

LEMMA GotoSettled ==
    ASSUME NEW d, NEW l, NEW a, Settled(d, l, a), NEW s
    PROVE  Settled([d EXCEPT !.eSecondary = s], l, a)
  BY DEF Settled, IsDevice, Fields

LEMMA StepSettled ==
    ASSUME NEW d, NEW l, NEW a, Settled(d, l, a), NEW s, NEW n
    PROVE  Settled([d EXCEPT !.eSecondary = s, !.eTertiary = n], l, a)
  BY DEF Settled, IsDevice, Fields

-----------------------------------------------------------------------------
(* How Process returns.                                                    *)

LEMMA ReturnsSettled ==
    ASSUME NEW d, NEW l, NEW a, Settled(d, l, a), NEW w, Returns(d, w)
    PROVE  Settled(dev', l, a)
  BY DEF Returns, Settled, IsDevice, Fields

LEMMA ResetsSettled ==
    ASSUME NEW d, NEW l, NEW a, Settled(d, l, a), Resets(d) PROVE Settled(dev', l, a)
  <1>1. Settled(ResetState(d), l, a)
    BY ResetStateSettled
  <1>2. Returns(ResetState(d), WakeAfterReset(d))
    BY DEF Resets
  <1> QED BY <1>1, <1>2, ReturnsSettled

LEMMA LineErrorSettled ==
    ASSUME NEW d, NEW l, NEW a, Settled(d, l, a), LineError(d) PROVE Settled(dev', l, a)
  <1> DEFINE g == [d EXCEPT !.eSecondary = "RCV_LINEERROR"]
  <1>1. Settled(g, l, a)
    BY GotoSettled
  <1>2. Settled(Lower(g), l, a)
    <2> HIDE DEF g
    <2> QED BY <1>1, LowerSettled
  <1>3. Returns(Lower(g), Deadline("now", 3600)) \/ Resets(d)
    BY DEF LineError
  <1> HIDE DEF g
  <1> QED BY <1>2, <1>3, ReturnsSettled, ResetsSettled

LEMMA SeenSettled ==
    ASSUME NEW l, NEW a, Settled(dev, l, a) PROVE Settled(Seen, l, a)
  <1>1. Settled([dev EXCEPT !.stamps = {}], l, a)
    BY DEF Settled, IsDevice, Fields
  <1> QED BY <1>1, HasChangedSettled DEF Seen

-----------------------------------------------------------------------------
(* The steps outside Process.                                              *)

LEMMA PumpedSettled ==
    ASSUME NEW l, NEW a, Settled(dev, l, a) PROVE Settled(Pumped, l, a)
  <1>1. Settled(Sampled, l, a)
    BY DEF Sampled, Settled, IsDevice, Fields
  <1> QED BY <1>1, PumpSettled DEF Pumped

LEMMA RunSettled ==
    ASSUME NEW l, NEW a, Settled(dev, l, a), Run PROVE Settled(dev', l, a)
  <1> DEFINE d == Pumped
  <1>1. Settled(d, l, a)
    BY PumpedSettled
  <1>2. dev' = d \/ dev' = [d EXCEPT !.isrTriggered = FALSE]
    BY DEF Run, RunDue, RunInterrupted, RunAsleep
  <1> HIDE DEF d
  <1>3. Settled([d EXCEPT !.isrTriggered = FALSE], l, a)
    BY <1>1 DEF Settled, IsDevice, Fields
  <1> QED BY <1>1, <1>2, <1>3

LEMMA HostSettled ==
    ASSUME NEW l, NEW a, Settled(dev, l, a), Host PROVE Settled(dev', l, a)
  <1> PICK dest \in Destinations, count \in FrameSizes : HostTransmit(dest, count)
    BY DEF Host
  <1> QED BY TransmitFrameSettled DEF HostTransmit

-----------------------------------------------------------------------------
(* The steps of Process.                                                   *)

\* A step that only changes states and flags of the engine.
LEMMA EdgesSettled ==
    ASSUME NEW l, NEW a, Settled(dev, l, a),
           Spurious \/ IdleEdge \/ IdleWaitEdge \/ AckEdge \/ IdleWaitLow \/ IdleWaitMore
    PROVE  Settled(dev', l, a)
  <1> DEFINE d == Seen
             i == [d EXCEPT !.ePrimary = "RECEIVE", !.eSecondary = "RCV_STARTBIT1",
                            !.follower = FALSE, !.broadcast = FALSE,
                            !.amLastTransmittor = FALSE]
             r == [d EXCEPT !.ePrimary = "RECEIVE", !.eSecondary = "RCV_STARTBIT1",
                            !.transmitPending = TRUE]
             q == [dev EXCEPT !.stamps = {}]
             w == Deadline("change", NeededIdleTime(dev))
  <1>1. Settled(d, l, a)
    BY SeenSettled
  <1>2. Settled(q, l, a)
    BY DEF Settled, IsDevice, Fields
  <1>3. \/ Returns(d, Never) \/ Returns(d, dev.waitTime) \/ Returns(d, w)
        \/ Returns(i, Never) \/ Returns(r, Never) \/ Returns(q, Never)
    BY DEF Spurious, IdleEdge, IdleWaitEdge, AckEdge, IdleWaitLow, IdleWaitMore
  <1> HIDE DEF d, q, w
  <1>4. Settled(i, l, a)
    BY <1>1 DEF Settled, IsDevice, Fields
  <1>5. Settled(r, l, a)
    BY <1>1 DEF Settled, IsDevice, Fields
  <1> HIDE DEF i, r
  <1> QED BY <1>1, <1>2, <1>3, <1>4, <1>5, ReturnsSettled

LEMMA ReceiveStartSettled ==
    ASSUME NEW l, NEW a, Settled(dev, l, a), NEW t,
           ReceiveStartBit1(t) \/ ReceiveStartBit2(t)
    PROVE  Settled(dev', l, a)
  <1> DEFINE d == Seen
             f == [d EXCEPT !.eSecondary = "RCV_STARTBIT2"]
             e == [d EXCEPT !.eSecondary = "RCV_DATABIT1", !.eTertiary = RCV_BIT0]
  <1>1. Settled(d, l, a)
    BY SeenSettled
  <1>2. Resets(d) \/ Returns(f, Never) \/ Returns(e, Never)
    BY DEF ReceiveStartBit1, ReceiveStartBit2
  <1> HIDE DEF d
  <1>3. Settled(f, l, a) /\ Settled(e, l, a)
    BY <1>1, GotoSettled, StepSettled
  <1> HIDE DEF e, f
  <1> QED BY <1>1, <1>2, <1>3, ResetsSettled, ReturnsSettled

LEMMA ReceiveDataBit1Settled ==
    ASSUME NEW l, NEW a, Settled(dev, l, a), NEW t, ReceiveDataBit1(t)
    PROVE  Settled(dev', l, a)
  <1> DEFINE d == Seen
             b == ReceivedBit(d, ShortPulse(t))
             e == [b EXCEPT !.eSecondary = "RCV_DATABIT2"]
  <1>1. Settled(d, l, a)
    BY SeenSettled
  <1>2. LineError(d) \/ Returns(e, Never)
    BY DEF ReceiveDataBit1
  <1> HIDE DEF d
  <1>3. Settled(b, l, a)
    BY <1>1, ReceivedBitSettled
  <1> HIDE DEF b
  <1>4. Settled(e, l, a)
    BY <1>3, GotoSettled
  <1> HIDE DEF e
  <1> QED BY <1>1, <1>2, <1>4, LineErrorSettled, ReturnsSettled

\* The ends of a bit period that is not the end of a block.
LEMMA ReceivePeriodSettled ==
    ASSUME NEW l, NEW a, Settled(dev, l, a), NEW t, ReceiveDataBit2(t) \/ ReceiveAck2(t)
    PROVE  Settled(dev', l, a)
  <1> DEFINE d == Seen
             e == [d EXCEPT !.eSecondary = "RCV_DATABIT1", !.eTertiary = @ + 1]
             f == [d EXCEPT !.eSecondary = "RCV_DATABIT1", !.eTertiary = RCV_BIT0]
  <1>1. Settled(d, l, a)
    BY SeenSettled
  <1>2. LineError(d) \/ Returns(e, Never) \/ Returns(f, Never)
    BY DEF ReceiveDataBit2, ReceiveAck2
  <1> HIDE DEF d
  <1>3. Settled(e, l, a)
    BY <1>1 DEF Settled, IsDevice, Fields
  <1>4. Settled(f, l, a)
    BY <1>1, StepSettled
  <1> HIDE DEF e, f
  <1> QED BY <1>1, <1>2, <1>3, <1>4, LineErrorSettled, ReturnsSettled

LEMMA ReceiveEndOfBlockSettled ==
    ASSUME NEW l, NEW a, Settled(dev, l, a), NEW t, NEW dest, ReceiveEndOfBlock(t, dest)
    PROVE  Settled(dev', l, a)
  <1> DEFINE d == Seen
             g == [d EXCEPT !.eSecondary = "RCV_ACK1", !.eTertiary = RCV_BIT_ACK]
             c == CheckAddress(g, dest)
             e == [Lower(c) EXCEPT !.eSecondary = "RCV_ACK_SENT"]
             w == Deadline("bit", 1500)
  <1>1. Settled(d, l, a)
    BY SeenSettled
  <1>2. LineError(d) \/ Resets(c) \/ Returns(c, Never) \/ Returns(e, w)
    BY DEF ReceiveEndOfBlock
  <1> HIDE DEF d, w
  <1>3. Settled(g, l, a)
    BY <1>1, StepSettled
  <1> HIDE DEF g
  <1>4. Settled(c, l, a)
    BY <1>3, CheckAddressSettled
  <1> HIDE DEF c
  <1>5. Settled(e, l, a)
    <2>1. Settled(Lower(c), l, a)
      BY <1>4, LowerSettled
    <2> QED BY <2>1, GotoSettled
  <1> HIDE DEF e
  <1> QED BY <1>1, <1>2, <1>4, <1>5, LineErrorSettled, ResetsSettled, ReturnsSettled

LEMMA ReceiveAckSettled ==
    ASSUME NEW l, NEW a, Settled(dev, l, a),
           ReceiveAckSent \/ ReceiveLineError \/ \E t \in Elapsed : ReceiveAck1(t)
    PROVE  Settled(dev', l, a)
  <1> DEFINE d == Seen
             r == Raise(d, others)
             f == ProcessFrame(d)
             p == ProcessFrame(r)
             e == [d EXCEPT !.eSecondary = "RCV_ACK2"]
             s == [r EXCEPT !.eSecondary = "RCV_ACK2", !.eTertiary = CEC_E_ACK]
  <1>1. Settled(d, l, a)
    BY SeenSettled
  <1>2. \/ LineError(d) \/ Resets(d) \/ Resets(f) \/ Returns(e, Never)
        \/ Resets(p) \/ Returns(s, Never) \/ Resets(r)
    BY DEF ReceiveAckSent, ReceiveLineError, ReceiveAck1
  <1> HIDE DEF d
  <1>3. Settled(r, l, a) /\ Settled(f, l, a) /\ Settled(e, l, a)
    BY <1>1, RaiseSettled, ProcessFrameSettled, GotoSettled
  <1> HIDE DEF r, f, e
  <1>4. Settled(p, l, a) /\ Settled(s, l, a)
    BY <1>3, ProcessFrameSettled, StepSettled
  <1> HIDE DEF p, s
  <1> QED BY <1>1, <1>2, <1>3, <1>4, LineErrorSettled, ResetsSettled, ReturnsSettled

LEMMA ReceiveSettled ==
    ASSUME NEW l, NEW a, Settled(dev, l, a), Receive PROVE Settled(dev', l, a)
  BY ReceiveStartSettled, ReceiveDataBit1Settled, ReceivePeriodSettled,
     ReceiveEndOfBlockSettled, ReceiveAckSettled
  DEF Receive

LEMMA BeginFrameSettled ==
    ASSUME NEW l, NEW a, Settled(dev, l, a), BeginFrame PROVE Settled(dev', l, a)
  <1> DEFINE p == Lower(Seen)
             e == [p EXCEPT !.amLastTransmittor = TRUE,
                            !.broadcast = (dev.txDest = BROADCAST),
                            !.eSecondary = "XMIT_STARTBIT1"]
  <1>1. Settled(p, l, a)
    BY SeenSettled, LowerSettled
  <1>2. Returns(e, Deadline("bit", 3700))
    BY DEF BeginFrame
  <1> HIDE DEF p
  <1>3. Settled(e, l, a)
    BY <1>1 DEF Settled, IsDevice, Fields
  <1> HIDE DEF e
  <1> QED BY <1>2, <1>3, ReturnsSettled

\* The end of the low part of a bit.
LEMMA LowPartSettled ==
    ASSUME NEW l, NEW a, Settled(dev, l, a),
           TransmitStartBit1 \/ TransmitDataBit1 \/ TransmitAck2
    PROVE  Settled(dev', l, a)
  <1> DEFINE d == Raise(Seen, others)
             t == Retransmit(d)
  <1>1. Settled(d, l, a)
    BY SeenSettled, RaiseSettled
  <1>2. \/ Returns(t, Never)
        \/ \E s, w : Returns([d EXCEPT !.eSecondary = s], w)
    <2>1. CASE TransmitStartBit1
      BY <2>1 DEF TransmitStartBit1
    <2>2. CASE TransmitDataBit1
      <3> DEFINE x == IF d.eTertiary = XMIT_BIT_EOM THEN "XMIT_ACK" ELSE "XMIT_DATABIT2"
      <3>1. \/ Returns(t, Never)
            \/ Returns([d EXCEPT !.eSecondary = x], Deadline("bit", 2400))
        BY <2>2 DEF TransmitDataBit1
      <3> HIDE DEF d, t, x
      <3>2. CASE Returns([d EXCEPT !.eSecondary = x], Deadline("bit", 2400))
        <4> DEFINE y == Deadline("bit", 2400)
        <4>1. Returns([d EXCEPT !.eSecondary = x], y)
          BY <3>2
        <4> HIDE DEF y
        <4> QED BY <4>1
      <3> QED BY <3>1, <3>2
    <2>3. CASE TransmitAck2
      BY <2>3 DEF TransmitAck2
    <2> QED BY <2>1, <2>2, <2>3
  <1> HIDE DEF d
  <1>3. Settled(t, l, a)
    BY <1>1, RetransmitSettled
  <1> HIDE DEF t
  <1>4. ASSUME NEW s, NEW w, Returns([d EXCEPT !.eSecondary = s], w)
        PROVE  Settled(dev', l, a)
    <2> DEFINE e == [d EXCEPT !.eSecondary = s]
    <2>1. Settled(e, l, a) /\ Returns(e, w)
      BY <1>1, <1>4, GotoSettled
    <2> HIDE DEF e
    <2> QED BY <2>1, ReturnsSettled
  <1> QED BY <1>2, <1>3, <1>4, ReturnsSettled

LEMMA TransmitBitSettled ==
    ASSUME NEW l, NEW a, Settled(dev, l, a), NEW bit,
           TransmitFirstBit(bit) \/ TransmitDataBit2(bit)
    PROVE  Settled(dev', l, a)
  <1> DEFINE p == Lower(Seen)
             q == PopTransmitBit(p)
             e == [q EXCEPT !.eSecondary = "XMIT_DATABIT1", !.eTertiary = XMIT_BIT0]
             d == [p EXCEPT !.eTertiary = @ + 1, !.eSecondary = "XMIT_DATABIT1"]
             f == PopTransmitBit(d)
             w == Deadline("bit", LowTime(bit))
  <1>1. Settled(p, l, a)
    BY SeenSettled, LowerSettled
  <1>2. Returns(e, w) \/ Returns(d, w) \/ Returns(f, w)
    BY DEF TransmitFirstBit, TransmitDataBit2
  <1> HIDE DEF p, w
  <1>3. Settled(q, l, a)
    BY <1>1, PopTransmitBitSettled
  <1>4. Settled(d, l, a)
    BY <1>1 DEF Settled, IsDevice, Fields
  <1> HIDE DEF q, d
  <1>5. Settled(e, l, a) /\ Settled(f, l, a)
    BY <1>3, <1>4, StepSettled, PopTransmitBitSettled
  <1> HIDE DEF e, f
  <1> QED BY <1>2, <1>4, <1>5, ReturnsSettled

LEMMA TransmitAckSettled ==
    ASSUME NEW l, NEW a, Settled(dev, l, a), TransmitAck PROVE Settled(dev', l, a)
  <1> DEFINE p == Lower(Seen)
             e == [p EXCEPT !.eSecondary = "XMIT_ACK2"]
  <1>1. Settled(p, l, a)
    BY SeenSettled, LowerSettled
  <1>2. Returns(e, Deadline("bit", 600))
    BY DEF TransmitAck
  <1> HIDE DEF p
  <1>3. Settled(e, l, a)
    BY <1>1, GotoSettled
  <1> HIDE DEF e
  <1> QED BY <1>2, <1>3, ReturnsSettled

\* The steps that give up, try again or complete a frame.
LEMMA CompletesSettled ==
    ASSUME NEW d, NEW l, NEW a, Settled(d, l, a), NEW success,
           Returns(OnTransmitComplete(ResetState(d), success), Never)
    PROVE  Settled(dev', l, a)
  <1> DEFINE r == ResetState(d)
             c == OnTransmitComplete(r, success)
  <1>1. Settled(r, l, a)
    BY ResetStateSettled
  <1>2. Settled(c, l, a)
    <2> HIDE DEF r
    <2> QED BY <1>1, OnTransmitCompleteSettled
  <1>3. Returns(c, Never)
    OBVIOUS
  <1> HIDE DEF c
  <1> QED BY <1>2, <1>3, ReturnsSettled

LEMMA RetransmitsSettled ==
    ASSUME NEW d, NEW l, NEW a, Settled(d, l, a), NEW w, Returns(Retransmit(d), w)
    PROVE  Settled(dev', l, a)
  <1>1. Settled(Retransmit(d), l, a)
    BY RetransmitSettled
  <1> QED BY <1>1, ReturnsSettled

LEMMA OutcomeSettled ==
    ASSUME NEW l, NEW a, Settled(dev, l, a),
           Collision \/ TransmitNotAcked \/ TransmitAcked
    PROVE  Settled(dev', l, a)
  <1> DEFINE d == Seen
             e == [d EXCEPT !.eSecondary = "XMIT_ACK3"]
             w == Deadline("bit", 2400)
  <1>1. Settled(d, l, a)
    BY SeenSettled
  <1>2. CASE Collision
    <2>1. Returns(Retransmit(d), LongPast)
      BY <1>2 DEF Collision
    <2> HIDE DEF d
    <2> QED BY <1>1, <2>1, RetransmitsSettled
  <1>3. CASE TransmitNotAcked
    <2>1. \/ Returns(OnTransmitComplete(ResetState(d), FALSE), Never)
          \/ Returns(Retransmit(d), LongPast)
      BY <1>3 DEF TransmitNotAcked
    <2> HIDE DEF d
    <2> QED BY <1>1, <2>1, RetransmitsSettled, CompletesSettled
  <1>4. CASE TransmitAcked
    <2>1. \/ Returns(OnTransmitComplete(ResetState(d), TRUE), Never)
          \/ Returns(e, w)
      BY <1>4 DEF TransmitAcked, Returns
    <2> HIDE DEF d
    <2>2. Settled(e, l, a)
      BY <1>1, GotoSettled
    <2> HIDE DEF e, w
    <2>3. CASE Returns(OnTransmitComplete(ResetState(d), TRUE), Never)
      BY <1>1, <2>3, CompletesSettled
    <2>4. CASE Returns(e, w)
      BY <2>2, <2>4, ReturnsSettled
    <2> QED BY <2>1, <2>3, <2>4
  <1> QED BY <1>2, <1>3, <1>4

LEMMA TransmitSettled ==
    ASSUME NEW l, NEW a, Settled(dev, l, a), Transmit PROVE Settled(dev', l, a)
  BY EdgesSettled, BeginFrameSettled, LowPartSettled, TransmitBitSettled,
     TransmitAckSettled, OutcomeSettled
  DEF Transmit

-----------------------------------------------------------------------------
(* The specification.                                                      *)

LEMMA StepSettles ==
    IInv /\ [Next]_vars =>
        (dev.primaryState = "CEC_IDLE" =>
            /\ dev'.primaryState = "CEC_IDLE"
            /\ dev'.logicalAddress = dev.logicalAddress
            /\ dev'.address = dev.address)
  <1> SUFFICES ASSUME IInv, [Next]_vars, dev.primaryState = "CEC_IDLE"
               PROVE  Settled(dev', dev.logicalAddress, dev.address)
    BY DEF Settled
  <1>1. Settled(dev, dev.logicalAddress, dev.address)
    BY DEF Settled, IInv, Stable, Sound
  <1>2. CASE (Run \/ Process \/ Host) /\ UNCHANGED others
    BY <1>1, <1>2, RunSettled, HostSettled, EdgesSettled, ReceiveSettled, TransmitSettled
    DEF Process
  <1>3. CASE LineMoves \/ UNCHANGED vars
    BY <1>1, <1>3 DEF LineMoves, vars
  <1> QED BY <1>2, <1>3 DEF Next

\* A logical address, once claimed, is never given up or changed, whatever
\* frames are received, sent, given up or left unacknowledged afterwards:
\* OnTransmitComplete tells a failed frame from an unanswered poll.
THEOREM AddressStays == Spec => AddressIsFinal
  <1>1. IInv /\ [Next]_vars =>
            [dev.primaryState = "CEC_IDLE" =>
                /\ dev'.primaryState = "CEC_IDLE"
                /\ dev'.logicalAddress = dev.logicalAddress
                /\ dev'.address = dev.address]_vars
    BY StepSettles
  <1> QED BY <1>1, Inductive, PTL DEF Spec, AddressIsFinal

-----------------------------------------------------------------------------
(* The service of a device: what FrameService sees of it.                  *)

Waits(d) == d.ePrimary = "TRANSMIT" \/ d.transmitPending
OnLine(d) == d.ePrimary = "TRANSMIT" /\ d.eSecondary # "IDLE_WAIT"

Stage(d) ==
    IF OnLine(d) THEN IF d.eSecondary = "XMIT_ACK_TEST" THEN "asking" ELSE "sending"
    ELSE IF Waits(d) THEN "waiting" ELSE "empty"
Held(d) == IF Waits(d) THEN <<d.txDest, d.txCount>> ELSE <<>>
Tried(d) == IF d.ePrimary = "TRANSMIT" THEN d.xmitretry ELSE 0
Blocks(d) ==
    IF ~Waits(d) THEN 0 ELSE IF OnLine(d) /\ BlockIsOut(d) THEN d.txByte - 1 ELSE d.txByte

PollFrames == (0..15) \X {1}

\* The service of d is as said here, and that of e is the same as that of d.
At(d, stage, frame, tries, blocks) ==
    Stage(d) = stage /\ Held(d) = frame /\ Tried(d) = tries /\ Blocks(d) = blocks
Same(d, e) == At(e, Stage(d), Held(d), Tried(d), Blocks(d))
Ended(e) == At(e, "empty", <<>>, 0, 0)

\* The try of d fails, if the line has given this answer.
Failed(d, answered) ==
    Stage(d) = "sending" \/ (Stage(d) = "asking" /\ ~answered /\ Held(d) \notin PollFrames)
PollsNext(d, e) ==
    Held(d) \in PollFrames /\ \E f \in PollFrames \ {Held(d)} : At(e, "waiting", f, 0, 0)

\* From d, asking or not, to e the service makes a step of FrameService, or none.
Moves(d, e, answered) ==
    \/ Same(d, e)
    \/ Stage(d) = "empty" /\ \E f \in AnyFrames : At(e, "waiting", f, 0, 0)
    \/ Stage(d) = "waiting" /\ At(e, "waiting", Held(d), 0, 0)
    \/ Stage(d) = "waiting" /\ At(e, "sending", Held(d), Tried(d), Blocks(d))
    \/ Stage(d) = "sending" /\ At(e, "asking", Held(d), Tried(d), Blocks(d))
    \/ /\ Stage(d) = "asking" /\ answered /\ Blocks(d) + 1 # Held(d)[2]
       /\ At(e, "sending", Held(d), Tried(d), Blocks(d) + 1)
    \/ /\ Stage(d) = "asking" /\ Blocks(d) + 1 = Held(d)[2]
       /\ answered \/ Held(d) \in PollFrames
       /\ Ended(e)
    \/ Stage(d) = "asking" /\ answered /\ PollsNext(d, e)
    \/ /\ Failed(d, answered) /\ Tried(d) + 1 < CEC_E_MAX_RETRANSMIT
       /\ At(e, "waiting", Held(d), Tried(d) + 1, 0)
    \/ Failed(d, answered) /\ Tried(d) + 1 = CEC_E_MAX_RETRANSMIT /\ Ended(e)

\* While an address is allocated the frame of the device is the poll.
Promised(d) ==
    /\ d.primaryState = "CEC_ALLOCATE_LOGICAL_ADDRESS" => ~MonitorMode
    /\ Allocating(d) =>
        Waits(d) /\ d.txCount = 1 /\ d.txDest = Candidate(d.tertiaryState)

\* The fields that all this depends on.
AllocationFields == {"primaryState", "secondaryState", "tertiaryState", "logicalAddress"}
ServedFields ==
    {"ePrimary", "eSecondary", "eTertiary", "transmitPending", "txDest", "txCount", "txByte",
     "xmitretry"}

LEMMA ServedSame == ASSUME NEW d, NEW e, Agrees(d, e, ServedFields) PROVE Same(d, e)
  <1>1. /\ OnLine(e) <=> OnLine(d)
        /\ Waits(e) <=> Waits(d)
        /\ BlockIsOut(e) <=> BlockIsOut(d)
        /\ e.eSecondary = d.eSecondary /\ e.ePrimary = d.ePrimary /\ e.txDest = d.txDest
        /\ e.txCount = d.txCount /\ e.txByte = d.txByte /\ e.xmitretry = d.xmitretry
    BY DEF Agrees, ServedFields, OnLine, Waits, BlockIsOut
  <1> QED BY <1>1 DEF Same, At, Stage, Held, Tried, Blocks

LEMMA SameMoves ==
    ASSUME NEW c, NEW d, NEW e, NEW a
    PROVE  /\ Same(d, e) /\ Moves(c, d, a) => Moves(c, e, a)
           /\ Same(c, d) /\ Moves(d, e, a) => Moves(c, e, a)
  BY DEF Same, At, Ended, Moves, Failed, PollsNext

LEMMA ServedAgrees ==
    ASSUME NEW d, NEW e, Agrees(d, e, ServedFields), Agrees(d, e, AllocationFields), Promised(d)
    PROVE  Promised(e)
  BY DEF Agrees, ServedFields, AllocationFields, Waits, Promised, Allocating

LEMMA ServedSets ==
    /\ ServedFields \subseteq Fields \ LineFields
    /\ AllocationFields \subseteq Fields \ LineFields
    /\ ServedFields \subseteq Fields \ {"waitTime"}
    /\ AllocationFields \subseteq Fields \ {"waitTime"}
    /\ AllocationFields \subseteq TxStill
  BY DEF ServedFields, AllocationFields, Fields, LineFields, TxStill, TxFields

\* A device that has been handed over with its wake-up time.
LEMMA ReturnsServed ==
    ASSUME NEW d, IsDevice(d), NEW w, Returns(d, w)
    PROVE  Same(d, dev') /\ (Promised(d) => Promised(dev'))
  <1>1. Agrees(d, dev', ServedFields) /\ Agrees(d, dev', AllocationFields)
    BY ReturnsAgrees, ServedSets, AgreesFor
  <1> QED BY <1>1, ServedSame, ServedAgrees

\* A device that is not on the line, with the cursor at the start of its frame.
LEMMA Resting ==
    ASSUME NEW d, ~OnLine(d)
    PROVE  /\ Free(d) => Ended(d)
           /\ Waits(d) /\ d.txByte = 0 => At(d, "waiting", <<d.txDest, d.txCount>>, Tried(d), 0)
           /\ d.ePrimary # "TRANSMIT" => Tried(d) = 0
  BY DEF Ended, At, Free, Stage, Held, Tried, Blocks, OnLine, Waits

-----------------------------------------------------------------------------
(* Polls.                                                                  *)

\* The candidates of a device type differ, up to the end of its row.
LEMMA CandidatesDiffer ==
    ASSUME NEW i \in 0..3, Candidate(i + 1) # CLA_UNREGISTERED
    PROVE  Candidate(i + 1) # Candidate(i)
  BY TypeAssumption DEF Candidate, ValidLogicalAddresses, CLA_UNREGISTERED

\* A frame that has just been put into the buffer of a device without one waits.
LEMMA BeginsToWait ==
    ASSUME NEW d, IsDevice(d), Free(d), d.txByte = 0, ~MonitorMode
    PROVE  LET b == OnTransmitBegin(d)
           IN  /\ IsDevice(b) /\ Waits(b) /\ b.txDest = d.txDest /\ b.txCount = d.txCount
               /\ b.tertiaryState = d.tertiaryState
               /\ At(b, "waiting", <<d.txDest, d.txCount>>, 0, 0)
  <1> DEFINE b == OnTransmitBegin(d)
  <1>1. /\ IsDevice(b) /\ Waits(b) /\ ~OnLine(b)
        /\ b.txDest = d.txDest /\ b.txCount = d.txCount
        /\ b.txByte = 0 /\ b.tertiaryState = d.tertiaryState
        /\ b.ePrimary = "TRANSMIT" => b.xmitretry = 0
    <2>1. CASE d.ePrimary = "IDLE"
      BY <2>1 DEF OnTransmitBegin, NewFrame, Waits, OnLine, IsDevice, Fields
    <2>2. CASE d.ePrimary # "IDLE"
      BY <2>2 DEF OnTransmitBegin, Waits, OnLine, Free, IsDevice, Fields
    <2> QED BY <2>1, <2>2
  <1> HIDE DEF b
  <1>2. Tried(b) = 0
    BY <1>1 DEF Tried
  <1> QED BY <1>1, <1>2, Resting DEF b

LEMMA PollServed ==
    ASSUME NEW d, IsDevice(d), d.tertiaryState \in 0..4, Free(d), ~MonitorMode
    PROVE  /\ IsDevice(Poll(d)) /\ Promised(Poll(d))
           /\ At(Poll(d), "waiting", <<Candidate(d.tertiaryState), 1>>, 0, 0)
           /\ <<Candidate(d.tertiaryState), 1>> \in PollFrames
  <1> DEFINE x == Candidate(d.tertiaryState)
             h == PutHeader(d, x)
             b == OnTransmitBegin(h)
             e == [b EXCEPT !.secondaryState = "CEC_RCV_POLLING_MESSAGE"]
  <1>1. x \in 0..15
    BY CandidateType
  <1>2. /\ IsDevice(h) /\ h.txCount = 1 /\ h.txDest = x /\ h.txByte = 0
        /\ Agrees(d, h, Fields \ {"txCount", "txByte", "txBit", "txDest"})
    BY PutHeaderAgrees DEF Queued
  <1>3. h.tertiaryState = d.tertiaryState /\ Free(h)
    BY <1>2 DEF Agrees, Fields, Free
  <1>4. e = Poll(d)
    BY DEF Poll
  <1> HIDE DEF h
  <1>5. /\ IsDevice(b) /\ Waits(b) /\ b.txCount = 1 /\ b.txDest = x
        /\ b.tertiaryState = d.tertiaryState /\ At(b, "waiting", <<x, 1>>, 0, 0)
    BY <1>2, <1>3, BeginsToWait
  <1> HIDE DEF b, x
  <1>6. /\ IsDevice(e) /\ Agrees(b, e, ServedFields) /\ e.tertiaryState = b.tertiaryState
    BY <1>5 DEF Agrees, ServedFields, IsDevice, Fields
  <1> HIDE DEF e
  <1>7. Waits(e) /\ e.txCount = 1 /\ e.txDest = x /\ e.tertiaryState = d.tertiaryState
    BY <1>5, <1>6 DEF Agrees, ServedFields, Waits
  <1>8. Promised(e)
    BY <1>7 DEF Promised, x
  <1>9. At(e, "waiting", <<x, 1>>, 0, 0)
    BY <1>5, <1>6, ServedSame DEF Same, At
  <1> QED BY <1>1, <1>4, <1>6, <1>8, <1>9 DEF x, PollFrames

LEMMA PollsAreFrames == PollFrames \subseteq AnyFrames
  <1>1. 1 \in 1..SERIAL_BUFFER_SIZE
    BY SizeAssumption
  <1> QED BY <1>1 DEF PollFrames, AnyFrames

-----------------------------------------------------------------------------
(* The steps outside Process.                                              *)

LEMMA RunServed ==
    ASSUME IInv, Tx(dev), Promised(dev), Run, NEW a
    PROVE  Moves(dev, dev', a) /\ Promised(dev')
  <1> DEFINE s == Sampled
             p == Pump(s)
             i == [s EXCEPT !.primaryState = "CEC_IDLE"]
             e == [p EXCEPT !.isrTriggered = FALSE]
  <1>1. dev' = p \/ dev' = e
    BY DEF Run, RunDue, RunInterrupted, RunAsleep, Pumped
  <1>2. Sound(s) /\ Agrees(dev, s, ServedFields) /\ Agrees(dev, s, TxFields)
    <2>1. IsDevice(dev) /\ Typed(dev) /\ InRange(dev) /\ line \in BOOLEAN
      BY DEF IInv, Stable, Sound, Typed, line, Line
    <2>2. IsDevice(s) /\ Agrees(dev, s, Fields \ {"lastLineState2", "isrTriggered"})
      BY <2>1 DEF Sampled, Agrees, IsDevice, Fields
    <2>3. s.lastLineState2 \in BOOLEAN /\ s.isrTriggered \in BOOLEAN
      BY <2>1 DEF Sampled, Typed, IsDevice, Fields
    <2> HIDE DEF s
    <2>4. Typed(s) /\ InRange(s)
      BY <2>1, <2>2, <2>3 DEF Typed, InRange, Agrees, Fields
    <2> QED BY <2>2, <2>4 DEF Sound, Agrees, ServedFields, TxFields, Fields
  <1>3. Agrees(dev, s, AllocationFields)
    BY <1>2 DEF Agrees, TxFields, AllocationFields
  <1> HIDE DEF s
  <1>4. Tx(s) /\ Promised(s) /\ Same(dev, s)
    BY <1>2, <1>3, TxAgrees, ServedAgrees, ServedSame
  <1>5. IsDevice(p) /\ Moves(s, p, a) /\ Promised(p)
    <2>1. CASE ToPoll(s)
      <3>1. p = Poll(s) /\ Free(s) /\ ~MonitorMode
        BY <1>4, <2>1 DEF Pump, ToPoll, Tx, Promised
      <3>2. Stage(s) = "empty"
        BY <3>1 DEF Stage, Free, OnLine, Waits
      <3>3. /\ IsDevice(p) /\ Promised(p)
            /\ \E f \in PollFrames : At(p, "waiting", f, 0, 0)
        BY <1>2, <3>1, PollServed DEF Sound, Typed
      <3> QED BY <3>2, <3>3, PollsAreFrames DEF Moves
    <2>2. CASE ~ToPoll(s)
      <3>1. p = s \/ p = i
        BY <2>2 DEF Pump, ToPoll
      <3>2. IsDevice(i) /\ i.primaryState = "CEC_IDLE" /\ Agrees(s, i, ServedFields)
        BY <1>2 DEF Agrees, ServedFields, Sound, IsDevice, Fields
      <3> HIDE DEF i, p
      <3>3. Promised(i)
        BY <3>2 DEF Promised, Allocating
      <3>4. Same(s, i) /\ Same(s, s)
        BY <3>2, ServedSame DEF Same, At
      <3> QED BY <1>2, <1>4, <3>1, <3>2, <3>3, <3>4 DEF Moves, Sound
    <2> QED BY <2>1, <2>2
  <1> HIDE DEF p
  <1>6. Agrees(p, e, ServedFields) /\ Agrees(p, e, AllocationFields)
    BY <1>5 DEF Agrees, ServedFields, AllocationFields, IsDevice, Fields
  <1> HIDE DEF e
  <1>7. Promised(e) /\ Same(p, e)
    BY <1>5, <1>6, ServedAgrees, ServedSame
  <1> QED BY <1>1, <1>4, <1>5, <1>7, SameMoves

\* A host that waits hands over a frame while none is queued; monitor mode and
\* a frame that does not fit leave the device without one.
LEMMA HostServed == ASSUME HostPaced, IInv, Host, NEW a PROVE Moves(dev, dev', a)
  <1> PICK dest \in Destinations, count \in FrameSizes : HostTransmit(dest, count)
    BY DEF Host
  <1> DEFINE h == PutHeader(dev, dest)
             p == TransmitPartial(h, count)
             b == OnTransmitBegin(p)
  <1>1. IsDevice(dev) /\ Free(dev) /\ dest \in 0..15 /\ count \in Nat
    BY FrameAssumption DEF IInv, Stable, Sound, HostTransmit, Busy, Free
  <1>2. dev' = IF Fits(h, count) THEN b ELSE h
    BY DEF HostTransmit, TransmitFrame
  <1>3. /\ IsDevice(h) /\ h.txCount = 1 /\ h.txDest = dest
        /\ Agrees(dev, h, Fields \ {"txCount", "txByte", "txBit", "txDest"})
    BY <1>1, PutHeaderAgrees
  <1> HIDE DEF h
  <1>4. Free(h)
    BY <1>1, <1>3 DEF Agrees, Fields, Free
  <1>5. /\ IsDevice(p) /\ Free(p) /\ p.txDest = dest /\ p.txCount = 1 + count /\ p.txByte = 0
    <2>1. p = [h EXCEPT !.txCount = 1 + count, !.txByte = 0, !.txBit = 7]
      BY <1>3 DEF TransmitPartial
    <2> HIDE DEF p
    <2> QED BY <1>3, <1>4, <2>1 DEF Free, IsDevice, Fields
  <1> HIDE DEF p
  <1>6. ASSUME NEW d, Free(d) PROVE Ended(d)
    BY <1>6, Resting DEF Free, OnLine
  <1>7. CASE ~Fits(h, count) \/ MonitorMode
    <2>1. Free(dev')
      BY <1>2, <1>4, <1>5, <1>7 DEF OnTransmitBegin
    <2> QED BY <1>1, <1>6, <2>1 DEF Moves, Same, At, Ended
  <1>8. CASE Fits(h, count) /\ ~MonitorMode
    <2>1. At(b, "waiting", <<dest, 1 + count>>, 0, 0)
      BY <1>5, <1>8, BeginsToWait
    <2>2. 1 + count \in 1..SERIAL_BUFFER_SIZE
      BY <1>1, <1>3, <1>8, SizeAssumption DEF Fits
    <2>3. Stage(dev) = "empty" /\ <<dest, 1 + count>> \in AnyFrames
      BY <1>1, <1>6, <2>2 DEF Ended, At, AnyFrames
    <2> QED BY <1>2, <1>8, <2>1, <2>3 DEF Moves
  <1> QED BY <1>7, <1>8

-----------------------------------------------------------------------------
(* The steps of a reception: a frame that waits goes on waiting.           *)

LEMMA KeepsServed ==
    ASSUME IInv, Promised(dev), dev.ePrimary # "TRANSMIT", Keeps, NEW a
    PROVE  Moves(dev, dev', a) /\ Promised(dev')
  <1> PICK d, w :
        /\ IsDevice(d) /\ Agrees(dev, d, TxStill) /\ d.ePrimary # "TRANSMIT"
        /\ Returns(d, w) \/ Resets(d)
    BY DEF Keeps
  <1> DEFINE i == ToIdle(d)
             n == NewFrame(i)
  \* Off the line the service depends on less than that.
  <1>1. ASSUME NEW x, NEW y, ~OnLine(x), ~OnLine(y), Tried(x) = 0, Tried(y) = 0,
               Waits(x) <=> Waits(y), Agrees(x, y, TxStill \ {"transmitPending"}), Promised(x)
        PROVE  Same(x, y) /\ Promised(y)
    <2>1. /\ y.txDest = x.txDest /\ y.txCount = x.txCount /\ y.txByte = x.txByte
          /\ Agrees(x, y, AllocationFields)
      BY <1>1 DEF Agrees, TxStill, TxFields, AllocationFields
    <2>2. Same(x, y)
      BY <1>1, <2>1 DEF Same, At, Stage, Held, Blocks
    <2> QED BY <1>1, <2>1, <2>2 DEF Agrees, AllocationFields, Promised, Allocating
  <1>2. ASSUME NEW x, x.ePrimary # "TRANSMIT" PROVE ~OnLine(x) /\ Tried(x) = 0
    BY <1>2, Resting DEF OnLine
  <1>3. Same(dev, d) /\ Promised(d)
    <2>1. Waits(dev) <=> Waits(d)
      BY DEF Agrees, TxStill, TxFields, Waits
    <2>2. Agrees(dev, d, TxStill \ {"transmitPending"})
      BY DEF Agrees
    <2> QED BY <1>1, <1>2, <2>1, <2>2
  <1>4. IsDevice(i) /\ i.ePrimary = "IDLE" /\ Agrees(d, i, TxStill)
    BY ToIdleAgrees
  <1>5. Resets(d) => \E v : Returns(IF d.transmitPending THEN n ELSE i, v)
    BY DEF Resets, ResetState
  <1> HIDE DEF i
  <1>6. /\ IsDevice(n) /\ n.ePrimary = "TRANSMIT" /\ n.eSecondary = "IDLE_WAIT"
        /\ n.xmitretry = 0 /\ Agrees(i, n, TxStill \ {"transmitPending"})
    BY <1>4, ZenonT(60) DEF NewFrame, Agrees, TxStill, TxFields, IsDevice, Fields
  <1> HIDE DEF n
  <1>7. Same(d, i) /\ Promised(i) /\ (d.transmitPending <=> i.transmitPending)
    <2>1. (d.transmitPending <=> i.transmitPending) /\ (Waits(d) <=> Waits(i))
      BY <1>4 DEF Agrees, TxStill, TxFields, Waits
    <2>2. Agrees(d, i, TxStill \ {"transmitPending"}) /\ i.ePrimary # "TRANSMIT"
      BY <1>4 DEF Agrees
    <2> QED BY <1>1, <1>2, <1>3, <2>1, <2>2
  <1>8. i.transmitPending => Same(i, n) /\ Promised(n)
    <2>1. ~OnLine(n) /\ Tried(n) = 0 /\ Waits(n) /\ i.ePrimary # "TRANSMIT"
      BY <1>4, <1>6 DEF OnLine, Tried, Waits
    <2>2. i.transmitPending => Waits(i)
      BY DEF Waits
    <2> QED BY <1>1, <1>2, <1>6, <1>7, <2>1, <2>2
  <1>9. PICK f, v : IsDevice(f) /\ Returns(f, v) /\ Promised(f) /\ Same(dev, f)
    <2>1. Same(dev, i)
      BY <1>3, <1>7 DEF Same, At
    <2>2. i.transmitPending => Same(dev, n)
      BY <1>8, <2>1 DEF Same, At
    <2> QED BY <1>3, <1>4, <1>5, <1>6, <1>7, <1>8, <2>1, <2>2
  <1>10. Same(f, dev') /\ Promised(dev')
    BY <1>9, ReturnsServed
  <1> QED BY <1>9, <1>10 DEF Moves, Same, At

LEMMA ReceiveServed ==
    ASSUME IInv, Promised(dev), Spurious \/ IdleEdge \/ Receive, NEW a
    PROVE  Moves(dev, dev', a) /\ Promised(dev')
  <1>1. CASE Spurious \/ IdleEdge
    <2>1. dev.ePrimary # "TRANSMIT"
      BY <1>1 DEF Spurious, IdleEdge
    <2> QED BY <1>1, <2>1, SpuriousKeeps, KeepsServed
  <1>2. CASE Receive
    <2>1. dev.ePrimary = "RECEIVE"
      <3>1. ASSUME NEW t \in Elapsed,
                   \/ ReceiveStartBit1(t) \/ ReceiveStartBit2(t)
                   \/ ReceiveDataBit1(t) \/ ReceiveDataBit2(t)
                   \/ ReceiveAck1(t) \/ ReceiveAck2(t)
            PROVE  dev.ePrimary = "RECEIVE"
        BY <3>1 DEF Receiving, ReceiveStartBit1, ReceiveStartBit2, ReceiveDataBit1,
                    ReceiveDataBit2, ReceiveAck1, ReceiveAck2
      <3>2. ASSUME NEW t, NEW dest, ReceiveEndOfBlock(t, dest) PROVE dev.ePrimary = "RECEIVE"
        BY <3>2 DEF Receiving, ReceiveEndOfBlock
      <3>3. CASE ReceiveAckSent \/ ReceiveLineError
        BY <3>3 DEF Receiving, ReceiveAckSent, ReceiveLineError
      <3> QED BY <1>2, <3>1, <3>2, <3>3 DEF Receive
    <2>2. Listener(Seen)
      BY <2>1, SeenAgrees DEF Listener, Agrees, TxStill, TxFields, Fields, LineFields
    <2>3. Keeps
      BY <1>2, <2>2, ReceiveBitKeeps, ReceiveBlockKeeps, ReceiveAckKeeps DEF Receive
    <2> QED BY <2>1, <2>3, KeepsServed
  <1> QED BY <1>1, <1>2

-----------------------------------------------------------------------------
(* The steps of a transmission.                                            *)

\* Another device has begun a frame first.
LEMMA IdleWaitEdgeServed ==
    ASSUME IInv, Tx(dev), Promised(dev), IdleWaitEdge, NEW a
    PROVE  Moves(dev, dev', a) /\ Promised(dev')
  <1> DEFINE d == Seen
             r == [d EXCEPT !.ePrimary = "RECEIVE", !.eSecondary = "RCV_STARTBIT1",
                            !.transmitPending = TRUE]
  <1>1. IsDevice(d) /\ Agrees(dev, d, ServedFields) /\ Agrees(dev, d, AllocationFields)
    BY SeenAgrees, ServedSets, AgreesFor
  <1>2. Returns(d, Never) \/ Returns(r, Never)
    BY DEF IdleWaitEdge
  <1>3. Stage(dev) = "waiting" /\ Waits(dev) /\ dev.txByte = 0
    BY DEF IdleWaitEdge, Transmitting, Stage, OnLine, Waits, Tx, Sending, Queued
  <1> HIDE DEF d
  <1>4. Same(dev, d) /\ Promised(d)
    BY <1>1, ServedAgrees, ServedSame
  <1>5. /\ IsDevice(r) /\ r.ePrimary = "RECEIVE" /\ r.transmitPending
        /\ r.txDest = d.txDest /\ r.txCount = d.txCount /\ r.txByte = d.txByte
        /\ Agrees(d, r, AllocationFields)
    BY <1>1 DEF Agrees, AllocationFields, IsDevice, Fields
  <1> HIDE DEF r
  <1>6. At(r, "waiting", Held(dev), 0, 0)
    <2>1. /\ ~OnLine(r) /\ Waits(r) /\ Tried(r) = 0 /\ r.txByte = 0
          /\ Held(dev) = <<r.txDest, r.txCount>>
      BY <1>1, <1>3, <1>5 DEF Agrees, ServedFields, OnLine, Waits, Tried, Held
    <2> QED BY <2>1, Resting
  <1>7. Promised(r)
    BY <1>4, <1>5 DEF Agrees, AllocationFields, Promised, Allocating, Waits
  <1>8. Moves(dev, d, a) /\ Moves(dev, r, a)
    BY <1>3, <1>4, <1>6 DEF Moves
  <1> QED BY <1>1, <1>2, <1>4, <1>5, <1>7, <1>8, ReturnsServed, SameMoves

\* A step that goes on changes the state, the bit counter and the cursor only.
LEMMA SendsServed ==
    ASSUME Promised(dev), dev.ePrimary = "TRANSMIT", NEW s, NEW n, NEW p, Sends(s, n, p)
    PROVE  /\ Promised(dev') /\ Waits(dev) /\ Waits(dev')
           /\ OnLine(dev') <=> s # "IDLE_WAIT"
           /\ dev'.eSecondary = s /\ dev'.eTertiary = n /\ dev'.txByte = p.txByte
           /\ Held(dev') = Held(dev) /\ Tried(dev') = Tried(dev)
  <1>1. /\ dev'.eSecondary = s /\ dev'.eTertiary = n /\ dev'.txByte = p.txByte
        /\ Agrees(dev, dev', ServedFields \ {"eSecondary", "eTertiary", "txByte"})
        /\ Agrees(dev, dev', AllocationFields)
    BY DEF Sends, Agrees, SentFields, ServedFields, AllocationFields, Fields, LineFields
  <1>2. Held(dev') = Held(dev) /\ Tried(dev') = Tried(dev) /\ Waits(dev) /\ Waits(dev')
    BY <1>1 DEF Agrees, ServedFields, Held, Tried, Waits
  <1>3. OnLine(dev') <=> s # "IDLE_WAIT"
    BY <1>1 DEF Agrees, ServedFields, OnLine
  <1>4. Promised(dev')
    BY <1>1, <1>2 DEF Agrees, ServedFields, AllocationFields, Promised, Allocating
  <1> QED BY <1>1, <1>2, <1>3, <1>4

LEMMA StaysServed ==
    ASSUME IInv, Tx(dev), Promised(dev), dev.ePrimary = "TRANSMIT", NEW a,
           AckEdge \/ IdleWaitLow \/ IdleWaitMore \/ BeginFrame
    PROVE  Moves(dev, dev', a) /\ Promised(dev')
  <1>1. CASE AckEdge \/ IdleWaitLow \/ IdleWaitMore
    <2>1. Sends(dev.eSecondary, dev.eTertiary, dev)
      BY <1>1, StaysSends
    <2>2. /\ Promised(dev') /\ Waits(dev) /\ Waits(dev') /\ (OnLine(dev') <=> OnLine(dev))
          /\ dev'.eSecondary = dev.eSecondary /\ dev'.eTertiary = dev.eTertiary
          /\ dev'.txByte = dev.txByte /\ Held(dev') = Held(dev) /\ Tried(dev') = Tried(dev)
      BY <2>1, SendsServed DEF OnLine
    <2>3. Same(dev, dev')
      BY <2>2 DEF Same, At, Stage, Blocks, BlockIsOut
    <2> QED BY <2>2, <2>3 DEF Moves
  <1>2. CASE BeginFrame
    <2>1. Sends("XMIT_STARTBIT1", dev.eTertiary, dev) /\ dev.eSecondary = "IDLE_WAIT"
      BY <1>2, BeginFrameSends DEF BeginFrame, Timed, Transmitting
    <2>2. /\ Promised(dev') /\ Waits(dev) /\ Waits(dev') /\ OnLine(dev') /\ ~OnLine(dev)
          /\ dev'.eSecondary = "XMIT_STARTBIT1" /\ dev'.txByte = dev.txByte
          /\ Held(dev') = Held(dev) /\ Tried(dev') = Tried(dev)
      BY <2>1, SendsServed DEF OnLine
    <2>3. Stage(dev) = "waiting" /\ At(dev', "sending", Held(dev), Tried(dev), Blocks(dev))
      BY <2>2 DEF At, Stage, Blocks, BlockIsOut, XmitAckStates
    <2> QED BY <2>2, <2>3 DEF Moves
  <1> QED BY <1>1, <1>2

\* The bits of a block: the cursor moves on with the last one of the header or
\* of an operand, which is when the block is out.
LEMMA BitsServed ==
    ASSUME IInv, Tx(dev), Promised(dev), dev.ePrimary = "TRANSMIT", NEW a,
           NEW bit, TransmitFirstBit(bit) \/ TransmitDataBit2(bit)
    PROVE  Moves(dev, dev', a) /\ Promised(dev')
  <1> DEFINE p == PopTransmitBit(dev)
             n == dev.eTertiary + 1
             q == IF n = XMIT_BIT_EOM THEN dev ELSE p
  <1>1. Sending(dev) /\ Sound(dev) /\ dev.txByte \in Nat /\ dev.eTertiary \in 0..24
    BY SizeAssumption DEF Tx, IInv, Stable, Sound, Typed, InRange
  <1>2. ASSUME NEW m, NEW c, Sends("XMIT_DATABIT1", m, c), dev.eSecondary # "IDLE_WAIT",
               dev.eSecondary # "XMIT_ACK_TEST",
               (IF m >= XMIT_BIT_EOM - 1 THEN c.txByte - 1 ELSE c.txByte) =
               (IF BlockIsOut(dev) THEN dev.txByte - 1 ELSE dev.txByte)
        PROVE  Moves(dev, dev', a) /\ Promised(dev')
    <2>1. /\ Promised(dev') /\ Waits(dev) /\ Waits(dev') /\ OnLine(dev') /\ OnLine(dev)
          /\ dev'.eSecondary = "XMIT_DATABIT1" /\ dev'.eTertiary = m
          /\ dev'.txByte = c.txByte /\ Held(dev') = Held(dev) /\ Tried(dev') = Tried(dev)
      BY <1>2, SendsServed DEF OnLine
    <2>2. BlockIsOut(dev') <=> m >= XMIT_BIT_EOM - 1
      BY <2>1 DEF BlockIsOut, XmitAckStates
    <2>3. Same(dev, dev')
      BY <1>2, <2>1, <2>2 DEF Same, At, Stage, Blocks
    <2> QED BY <2>1, <2>3 DEF Moves
  <1>3. CASE TransmitFirstBit(bit)
    <2>1. Sends("XMIT_DATABIT1", XMIT_BIT0, p)
      BY <1>3, FirstBitSends
    <2>2. dev.eSecondary \in {"XMIT_STARTBIT2", "XMIT_ACK3"}
      BY <1>3 DEF TransmitFirstBit, Timed, Transmitting
    <2>3. dev.txByte < dev.txCount /\ dev.txBit = 7 /\ ~BlockIsOut(dev)
      BY <1>1, <2>2 DEF Sending, Queued, XmitAckStates, BlockIsOut
    <2>4. p.txByte = dev.txByte
      BY <1>1, <2>3, PopAdvances
    <2> HIDE DEF p
    <2> QED BY <1>2, <2>1, <2>2, <2>3, <2>4 DEF XMIT_BIT0, XMIT_BIT_EOM
  <1>4. CASE TransmitDataBit2(bit)
    <2>1. Sends("XMIT_DATABIT1", n, q)
      BY <1>4, NextBitSends
    <2>2. dev.eSecondary = "XMIT_DATABIT2"
      BY <1>4 DEF TransmitDataBit2, Timed, Transmitting
    <2>3. BlockIsOut(dev) <=> dev.eTertiary >= XMIT_BIT_EOM - 1
      BY <2>2 DEF BlockIsOut, XmitAckStates
    <2>4. dev.eTertiary < XMIT_BIT_EOM
      BY <1>1, <2>2, <1>4 DEF IInv, Stable, Counting, TransmitDataBit2, Timed, Transmitting,
                         XMIT_BIT0, XMIT_BIT_EOM
    <2>5. (IF n >= XMIT_BIT_EOM - 1 THEN q.txByte - 1 ELSE q.txByte) =
          (IF BlockIsOut(dev) THEN dev.txByte - 1 ELSE dev.txByte)
      <3>1. CASE dev.eTertiary = 19
        BY <1>1, <2>3, <3>1 DEF XMIT_BIT_EOM
      <3>2. CASE dev.eTertiary < 19
        <4>1. dev.txBit = 18 - dev.eTertiary /\ dev.txByte < dev.txCount
          BY <1>1, <2>2, <3>2 DEF Sending, XMIT_BIT_EOM
        <4>2. p.txByte = IF dev.eTertiary = 18 THEN dev.txByte + 1 ELSE dev.txByte
          BY <1>1, <4>1, PopAdvances
        <4> HIDE DEF p
        <4> QED BY <1>1, <2>3, <3>2, <4>2 DEF XMIT_BIT_EOM
      <3> QED BY <1>1, <2>4, <3>1, <3>2 DEF XMIT_BIT_EOM
    <2> HIDE DEF n, q
    <2> QED BY <1>2, <2>1, <2>2, <2>5
  <1> QED BY <1>3, <1>4

\* The end of the frame that a device sends, which leaves it as i.
LEMMA OnTransmitCompleteServed ==
    ASSUME NEW d, Sound(d), Promised(d), OnLine(d),
           NEW i, IsDevice(i), Free(i), Agrees(d, i, AllocationFields), NEW success \in BOOLEAN
    PROVE  LET c == OnTransmitComplete(i, success)
           IN  IsDevice(c) /\ Promised(c) /\ (Ended(c) \/ (success /\ PollsNext(d, c)))
  <1> DEFINE c == OnTransmitComplete(i, success)
             n == [i EXCEPT !.tertiaryState = @ + 1]
             r == [n EXCEPT !.logicalAddress = CLA_UNREGISTERED,
                            !.primaryState = "CEC_IDLE"]
  <1>1. ASSUME NEW e, Free(e) PROVE Ended(e)
    BY <1>1, Resting DEF Free, OnLine
  <1>2. CASE ~Allocating(i)
    <2>1. Promised(i)
      BY <1>2 DEF Promised, Agrees, AllocationFields
    <2> QED BY <1>1, <1>2, <2>1 DEF OnTransmitComplete
  <1>3. CASE Allocating(i) /\ ~success
    <2>1. IsDevice(Claim(i)) /\ Free(Claim(i)) /\ Claim(i).primaryState = "CEC_IDLE"
      BY DEF Claim, Free, IsDevice, Fields
    <2>2. Promised(Claim(i))
      BY <2>1 DEF Promised, Allocating
    <2> QED BY <1>1, <1>3, <2>1, <2>2 DEF OnTransmitComplete
  <1>4. CASE Allocating(i) /\ success
    <2>1. c = IF Candidate(n.tertiaryState) # CLA_UNREGISTERED THEN Poll(n) ELSE r
      BY <1>4 DEF OnTransmitComplete, NextCandidate
    <2>2. /\ Allocating(d) /\ ~MonitorMode
          /\ i.tertiaryState = d.tertiaryState /\ d.tertiaryState \in 0..3
      BY <1>4 DEF Agrees, AllocationFields, Allocating, Promised, Sound, Typed, InRange
    <2>3. IsDevice(n) /\ Free(n) /\ n.tertiaryState = d.tertiaryState + 1
      BY <2>2 DEF Free, IsDevice, Fields
    <2> HIDE DEF n
    <2>4. IsDevice(r) /\ Free(r) /\ r.primaryState = "CEC_IDLE"
      BY <2>3 DEF Free, IsDevice, Fields
    <2> HIDE DEF r, c
    <2>5. Promised(r)
      BY <2>4 DEF Promised, Allocating
    <2>6. CASE Candidate(n.tertiaryState) # CLA_UNREGISTERED
      <3>1. n.tertiaryState \in 0..4
        BY <2>2, <2>3
      <3>2. /\ IsDevice(c) /\ Promised(c)
            /\ At(c, "waiting", <<Candidate(n.tertiaryState), 1>>, 0, 0)
            /\ <<Candidate(n.tertiaryState), 1>> \in PollFrames
        BY <2>1, <2>2, <2>3, <2>6, <3>1, PollServed
      <3>3. Held(d) = <<Candidate(d.tertiaryState), 1>>
        BY <2>2 DEF Promised, Held
      <3>4. Candidate(d.tertiaryState) \in 0..15
        BY <2>2, CandidateType
      <3>5. Candidate(n.tertiaryState) # Candidate(d.tertiaryState)
        BY <2>2, <2>3, <2>6, CandidatesDiffer
      <3>6. Held(d) \in PollFrames
        BY <3>3, <3>4 DEF PollFrames
      <3>7. <<Candidate(n.tertiaryState), 1>> # Held(d)
        BY <3>3, <3>5
      <3>8. PollsNext(d, c)
        BY <3>2, <3>6, <3>7 DEF PollsNext
      <3> QED BY <1>4, <3>2, <3>8 DEF c
    <2>7. CASE Candidate(n.tertiaryState) = CLA_UNREGISTERED
      BY <1>1, <2>1, <2>4, <2>5, <2>7 DEF c
    <2> QED BY <2>6, <2>7
  <1> QED BY <1>2, <1>3, <1>4

LEMMA RetransmitServed ==
    ASSUME NEW d, Sound(d), Promised(d), OnLine(d), NEW a, Failed(d, a)
    PROVE  /\ IsDevice(Retransmit(d)) /\ Moves(d, Retransmit(d), a)
           /\ Promised(Retransmit(d))
  <1> DEFINE i == [ToIdle(d) EXCEPT !.transmitPending = FALSE, !.xmitretry = @ + 1]
             r == [ResetTransmitBuffer(d) EXCEPT
                      !.ePrimary = "TRANSMIT", !.eSecondary = "IDLE_WAIT",
                      !.eTertiary = IDLE_RETRANSMIT_FRAME,
                      !.transmitPending = FALSE, !.xmitretry = @ + 1]
  <1>1. IsDevice(d) /\ d.ePrimary = "TRANSMIT" /\ Waits(d) /\ Tried(d) = d.xmitretry
    BY DEF Sound, OnLine, Waits, Tried
  <1>2. CASE d.xmitretry + 1 = CEC_E_MAX_RETRANSMIT
    <2>1. IsDevice(i) /\ Free(i) /\ Agrees(d, i, AllocationFields)
      BY <1>1, ZenonT(60) DEF ToIdle, Free, Agrees, AllocationFields, IsDevice, Fields
    <2> HIDE DEF i
    <2>2. LET c == OnTransmitComplete(i, FALSE)
          IN  IsDevice(c) /\ Ended(c) /\ Promised(c)
      BY <2>1, OnTransmitCompleteServed
    <2>3. Retransmit(d) = OnTransmitComplete(i, FALSE)
      BY <1>2 DEF Retransmit, i
    <2> QED BY <1>1, <1>2, <2>2, <2>3 DEF Moves
  <1>3. CASE d.xmitretry + 1 # CEC_E_MAX_RETRANSMIT
    <2>1. /\ IsDevice(r) /\ r.ePrimary = "TRANSMIT" /\ r.eSecondary = "IDLE_WAIT"
          /\ r.xmitretry = d.xmitretry + 1 /\ r.txDest = d.txDest /\ r.txCount = d.txCount
          /\ r.txByte = 0 /\ Agrees(d, r, AllocationFields)
      BY <1>1, ZenonT(60) DEF ResetTransmitBuffer, Agrees, AllocationFields, IsDevice, Fields
    <2>2. Retransmit(d) = r
      BY <1>3 DEF Retransmit
    <2> HIDE DEF r
    <2>3. d.xmitretry + 1 < CEC_E_MAX_RETRANSMIT
      BY <1>1, <1>3, RetryAssumption DEF Sound, Typed, InRange
    <2>4. /\ ~OnLine(r) /\ Waits(r) /\ Tried(r) = d.xmitretry + 1
          /\ <<r.txDest, r.txCount>> = Held(d)
      BY <1>1, <2>1 DEF OnLine, Waits, Tried, Held
    <2>5. At(r, "waiting", Held(d), d.xmitretry + 1, 0)
      BY <2>1, <2>4, Resting
    <2>6. Promised(r)
      BY <2>1 DEF Agrees, AllocationFields, Promised, Allocating, Waits
    <2> QED BY <1>1, <2>1, <2>2, <2>3, <2>5, <2>6 DEF Moves
  <1> QED BY <1>2, <1>3

LEMMA RetransmitsServed ==
    ASSUME IInv, Promised(dev), OnLine(dev), Retransmits, NEW a, Failed(dev, a)
    PROVE  Moves(dev, dev', a) /\ Promised(dev')
  <1> PICK d, w : /\ Sound(d) /\ Agrees(dev, d, Fields \ LineFields)
                  /\ Returns(Retransmit(d), w)
    BY DEF Retransmits
  <1>1. Agrees(dev, d, ServedFields) /\ Agrees(dev, d, AllocationFields)
    BY ServedSets, AgreesFor
  <1>2. Same(dev, d) /\ Promised(d)
    BY <1>1, ServedAgrees, ServedSame
  <1>3. OnLine(d) /\ Failed(d, a)
    BY <1>1, <1>2 DEF Agrees, ServedFields, OnLine, Failed, Same, At
  <1>4. /\ IsDevice(Retransmit(d)) /\ Moves(d, Retransmit(d), a) /\ Promised(Retransmit(d))
    BY <1>2, <1>3, RetransmitServed
  <1> QED BY <1>2, <1>4, ReturnsServed, SameMoves

LEMMA CompletesServed ==
    ASSUME IInv, Tx(dev), Promised(dev), OnLine(dev), NEW success \in BOOLEAN,
           Completes(success)
    PROVE  (Ended(dev') \/ (success /\ PollsNext(dev, dev'))) /\ Promised(dev')
  <1> PICK d, w : /\ Sound(d) /\ Agrees(dev, d, Fields \ LineFields)
                  /\ Returns(OnTransmitComplete(ResetState(d), success), w)
    BY DEF Completes
  <1> DEFINE i == ToIdle(d)
             c == OnTransmitComplete(i, success)
  <1>1. Agrees(dev, d, ServedFields) /\ Agrees(dev, d, AllocationFields)
    BY ServedSets, AgreesFor
  <1>2. Same(dev, d) /\ Promised(d)
    BY <1>1, ServedAgrees, ServedSame
  <1>3. OnLine(d) /\ ~d.transmitPending
    BY <1>1 DEF Agrees, ServedFields, OnLine, Tx
  <1>4. IsDevice(i) /\ i.ePrimary = "IDLE" /\ Agrees(d, i, TxStill)
    BY ToIdleAgrees DEF Sound
  <1>5. ResetState(d) = i
    BY <1>3 DEF ResetState
  <1> HIDE DEF i
  <1>6. Free(i) /\ Agrees(d, i, AllocationFields)
    BY <1>3, <1>4 DEF Agrees, TxStill, TxFields, AllocationFields, Free
  <1>7. IsDevice(c) /\ Promised(c) /\ (Ended(c) \/ (success /\ PollsNext(d, c)))
    BY <1>2, <1>3, <1>4, <1>6, OnTransmitCompleteServed
  <1> HIDE DEF c
  <1>8. Same(c, dev') /\ Promised(dev')
    BY <1>5, <1>7, ReturnsServed DEF c
  <1> QED BY <1>2, <1>7, <1>8 DEF Same, At, Ended, PollsNext

\* The low part of a bit ends, or the initiator begins its own acknowledge bit.
LEMMA LowPartServed ==
    ASSUME IInv, Tx(dev), Promised(dev), dev.ePrimary = "TRANSMIT", NEW a,
           \/ TransmitStartBit1 \/ TransmitDataBit1 \/ TransmitAck \/ TransmitAck2
           \/ Collision
    PROVE  Moves(dev, dev', a) /\ Promised(dev')
  <1>1. OnLine(dev) /\ Stage(dev) = "sending"
    BY DEF TransmitStartBit1, TransmitDataBit1, TransmitAck, TransmitAck2, Collision, Timed,
           Transmitting, OnLine, Stage, XmitAckStates
  <1>2. Retransmits => Moves(dev, dev', a) /\ Promised(dev')
    BY <1>1, RetransmitsServed DEF Failed
  <1>3. ASSUME NEW s, Sends(s, dev.eTertiary, dev), s # "IDLE_WAIT",
               dev'.eSecondary = s /\ dev'.eTertiary = dev.eTertiary =>
                   (BlockIsOut(dev') <=> BlockIsOut(dev))
        PROVE  /\ Promised(dev')
               /\ At(dev', IF s = "XMIT_ACK_TEST" THEN "asking" ELSE "sending", Held(dev),
                     Tried(dev), Blocks(dev))
    <2>1. /\ Promised(dev') /\ Waits(dev) /\ Waits(dev') /\ OnLine(dev')
          /\ dev'.eSecondary = s /\ dev'.eTertiary = dev.eTertiary
          /\ dev'.txByte = dev.txByte /\ Held(dev') = Held(dev) /\ Tried(dev') = Tried(dev)
      BY <1>3, SendsServed
    <2>2. BlockIsOut(dev') <=> BlockIsOut(dev)
      BY <1>3, <2>1
    <2> QED BY <1>1, <2>1, <2>2 DEF At, Stage, Blocks
  <1>4. ASSUME NEW s, Sends(s, dev.eTertiary, dev), s \notin {"IDLE_WAIT", "XMIT_ACK_TEST"},
               dev'.eSecondary = s /\ dev'.eTertiary = dev.eTertiary =>
                   (BlockIsOut(dev') <=> BlockIsOut(dev))
        PROVE  Moves(dev, dev', a) /\ Promised(dev')
    BY <1>1, <1>3, <1>4 DEF Moves, Same, At
  <1>5. CASE TransmitStartBit1
    <2>1. dev.eSecondary = "XMIT_STARTBIT1"
      BY <1>5 DEF TransmitStartBit1, Timed, Transmitting
    <2>2. Retransmits \/ Sends("XMIT_STARTBIT2", dev.eTertiary, dev)
      BY <1>5, LowPartSends
    <2>3. dev'.eSecondary = "XMIT_STARTBIT2" => (BlockIsOut(dev') <=> BlockIsOut(dev))
      BY <2>1 DEF BlockIsOut, XmitAckStates
    <2> QED BY <1>2, <1>4, <2>2, <2>3
  <1>6. CASE TransmitDataBit1
    <2> DEFINE s == IF dev.eTertiary = XMIT_BIT_EOM THEN "XMIT_ACK" ELSE "XMIT_DATABIT2"
    <2>1. dev.eSecondary = "XMIT_DATABIT1"
      BY <1>6 DEF TransmitDataBit1, Timed, Transmitting
    <2>2. Retransmits \/ Sends(s, dev.eTertiary, dev)
      BY <1>6, LowPartSends
    <2>3. dev'.eSecondary = s /\ dev'.eTertiary = dev.eTertiary =>
              (BlockIsOut(dev') <=> BlockIsOut(dev))
      BY <2>1 DEF BlockIsOut, XmitAckStates, XMIT_BIT_EOM
    <2>4. s \notin {"IDLE_WAIT", "XMIT_ACK_TEST"}
      OBVIOUS
    <2> HIDE DEF s
    <2> QED BY <1>2, <1>4, <2>2, <2>3, <2>4
  <1>7. CASE TransmitAck
    <2>1. dev.eSecondary = "XMIT_ACK" /\ Sends("XMIT_ACK2", dev.eTertiary, dev)
      BY <1>7, TransmitAckSends DEF TransmitAck, Timed, Transmitting
    <2>2. dev'.eSecondary = "XMIT_ACK2" => (BlockIsOut(dev') <=> BlockIsOut(dev))
      BY <2>1 DEF BlockIsOut, XmitAckStates
    <2> QED BY <1>4, <2>1, <2>2
  <1>8. CASE TransmitAck2
    <2>1. dev.eSecondary = "XMIT_ACK2" /\ Sends("XMIT_ACK_TEST", dev.eTertiary, dev)
      BY <1>8, LowPartSends DEF TransmitAck2, Timed, Transmitting
    <2>2. dev'.eSecondary = "XMIT_ACK_TEST" => (BlockIsOut(dev') <=> BlockIsOut(dev))
      BY <2>1 DEF BlockIsOut, XmitAckStates
    <2>3. Promised(dev') /\ At(dev', "asking", Held(dev), Tried(dev), Blocks(dev))
      BY <1>3, <2>1, <2>2
    <2> QED BY <1>1, <2>3 DEF Moves
  <1>9. CASE Collision
    BY <1>2, <1>9, Outcomes
  <1> QED BY <1>5, <1>6, <1>7, <1>8, <1>9

\* Whether the line says that the block is acknowledged.
Answered == ~Unacknowledged

\* The acknowledge test decides whether the next block follows, the frame is over
\* or it is put back.
LEMMA TestServed ==
    ASSUME IInv, Tx(dev), Promised(dev), TransmitNotAcked \/ TransmitAcked
    PROVE  Moves(dev, dev', Answered) /\ Promised(dev')
  <1> DEFINE over == RemainingTransmitBytes(dev) = 0
  <1>1. dev.ePrimary = "TRANSMIT" /\ dev.eSecondary = "XMIT_ACK_TEST"
    BY DEF TransmitNotAcked, TransmitAcked, Timed, Transmitting
  <1>2. OnLine(dev) /\ Stage(dev) = "asking" /\ BlockIsOut(dev) /\ Waits(dev)
    BY <1>1 DEF OnLine, Stage, BlockIsOut, XmitAckStates, Waits
  <1>3. /\ dev.txByte \in Nat /\ dev.txCount \in Nat /\ 0 < dev.txByte
        /\ dev.txByte <= dev.txCount /\ dev.txDest \in 0..15
    BY <1>1, SizeAssumption
    DEF Tx, Sending, XmitAckStates, IInv, Stable, Sound, Typed, InRange
  <1>4. /\ Held(dev) = <<dev.txDest, dev.txCount>> /\ Blocks(dev) + 1 = dev.txByte
        /\ Held(dev)[2] = dev.txCount
    BY <1>2, <1>3 DEF Held, Blocks
  <1>5. over <=> Blocks(dev) + 1 = Held(dev)[2]
    BY <1>3, <1>4 DEF RemainingTransmitBytes
  <1>6. Held(dev) \in PollFrames <=> dev.txCount = 1
    BY <1>3, <1>4 DEF PollFrames
  <1>7. CASE TransmitNotAcked
    <2>1. ~Answered
      BY <1>7 DEF TransmitNotAcked, Answered
    <2>2. IF over /\ dev.txCount = 1 THEN Completes(FALSE) ELSE Retransmits
      BY <1>7, Outcomes
    <2>3. CASE over /\ dev.txCount = 1
      <3>1. Ended(dev') /\ Promised(dev')
        BY <1>2, <2>2, <2>3, CompletesServed
      <3> QED BY <1>2, <1>5, <1>6, <2>3, <3>1 DEF Moves
    <2>4. CASE ~(over /\ dev.txCount = 1)
      <3>1. dev.txCount # 1
        BY <1>3, <2>4 DEF RemainingTransmitBytes
      <3>2. Failed(dev, Answered)
        BY <1>2, <1>6, <2>1, <3>1 DEF Failed
      <3> HIDE DEF over
      <3> QED BY <1>2, <2>2, <2>4, <3>2, RetransmitsServed
    <2> QED BY <2>3, <2>4
  <1>8. CASE TransmitAcked
    <2>1. Answered
      BY <1>8 DEF TransmitAcked, Answered
    <2>2. IF over THEN Completes(TRUE) ELSE Sends("XMIT_ACK3", dev.eTertiary, dev)
      BY <1>8, Outcomes
    <2>3. CASE over
      <3>1. (Ended(dev') \/ PollsNext(dev, dev')) /\ Promised(dev')
        BY <1>2, <2>2, <2>3, CompletesServed
      <3> QED BY <1>2, <1>5, <2>1, <2>3, <3>1 DEF Moves
    <2>4. CASE ~over
      <3>1. /\ Promised(dev') /\ Waits(dev') /\ OnLine(dev')
            /\ dev'.eSecondary = "XMIT_ACK3" /\ dev'.txByte = dev.txByte
            /\ Held(dev') = Held(dev) /\ Tried(dev') = Tried(dev)
        BY <1>1, <2>2, <2>4, SendsServed
      <3>2. At(dev', "sending", Held(dev), Tried(dev), Blocks(dev) + 1)
        BY <1>4, <3>1 DEF At, Stage, Blocks, BlockIsOut, XmitAckStates
      <3> QED BY <1>2, <1>5, <2>1, <2>4, <3>1, <3>2 DEF Moves
    <2> QED BY <2>3, <2>4
  <1> QED BY <1>7, <1>8

LEMMA TransmitServed ==
    ASSUME IInv, Tx(dev), Promised(dev), Transmit
    PROVE  Moves(dev, dev', Answered) /\ Promised(dev')
  <1>1. dev.ePrimary = "TRANSMIT"
    BY TransmitIsTransmitting
  <1> QED BY <1>1, IdleWaitEdgeServed, StaysServed, BitsServed, LowPartServed, TestServed
          DEF Transmit

-----------------------------------------------------------------------------
(* The theorems about the service.                                         *)

LEMMA StepServed ==
    ASSUME IInv, Tx(dev), Promised(dev), Run \/ Process \/ UNCHANGED dev
    PROVE  Moves(dev, dev', Answered) /\ Promised(dev')
  <1>1. CASE UNCHANGED dev
    BY <1>1 DEF Moves, Same, At, Promised, Allocating, Waits
  <1> QED BY <1>1, RunServed, ReceiveServed, TransmitServed DEF Process

\* While the address is allocated TransmitFrame refuses every frame, so that the
\* cursor is in step even if the host does not wait for its frames later.
Allocates(d) == Promised(d) /\ (d.primaryState # "CEC_IDLE" => Tx(d))

LEMMA NextAllocates == IInv /\ Allocates(dev) /\ [Next]_vars => Allocates(dev')
  <1> SUFFICES ASSUME IInv, Allocates(dev), [Next]_vars PROVE Allocates(dev')
    OBVIOUS
  <1>1. CASE dev.primaryState = "CEC_IDLE"
    <2>1. dev'.primaryState = "CEC_IDLE"
      BY <1>1, StepSettles
    <2> QED BY <2>1 DEF Allocates, Promised, Allocating
  <1>2. CASE dev.primaryState # "CEC_IDLE"
    <2>1. Run \/ Process \/ UNCHANGED dev
      BY <1>2 DEF Next, Host, HostTransmit, LineMoves, vars
    <2>2. Tx(dev) /\ Promised(dev)
      BY <1>2 DEF Allocates
    <2>3. Promised(dev')
      BY <2>1, <2>2, StepServed
    <2>4. Tx(dev')
      BY <2>1, <2>2, StepTx
    <2> QED BY <2>3, <2>4 DEF Allocates
  <1> QED BY <1>1, <1>2

LEMMA InitAllocates == Init => Allocates(dev)
  BY DEF Init, NewDevice, Allocates, Promised, Allocating, Tx, Free

LEMMA AlwaysAllocates == Spec => []Allocates(dev)
  <1> DEFINE Inv == Allocates(dev)
  <1>1. Init => Inv
    BY InitAllocates
  <1>2. IInv /\ Inv /\ [Next]_vars => Inv'
    BY NextAllocates
  <1> HIDE DEF Inv
  <1>3. Spec => []Inv
    BY <1>1, <1>2, Inductive, PTL DEF Spec
  <1> QED BY <1>3 DEF Inv

\* While an address is allocated, the one frame in the transmit buffer is the
\* poll of the candidate, waiting or on the wire, whatever is received or
\* collides meanwhile: the end of a frame that OnTransmitComplete reports to the
\* allocation is the answer of the candidate and of no other.
THEOREM PollsAreAnswered == Spec => []PollInFlight
  <1> DEFINE Inv == Allocates(dev)
  <1>1. Inv => PollInFlight
    BY DEF Allocates, Promised, PollInFlight, Waits, Busy
  <1> HIDE DEF Inv
  <1>2. Spec => []Inv
    BY AlwaysAllocates DEF Inv
  <1> QED BY <1>1, <1>2, PTL

service == <<ServiceStage, ServiceFrame, ServiceTries, ServiceBlocks, ServiceAnswer>>

LEMMA PollsAreFound ==
    ASSUME NEW f PROVE f \in PollFrames <=> f \in Service!Polls
  BY PollsAreFrames DEF PollFrames, AnyFrames, Service!Polls, Service!Size

LEMMA MovesServes == ASSUME Moves(dev, dev', Answered) PROVE [Service!Next]_service
  <1>1. At(dev, ServiceStage, ServiceFrame, ServiceTries, ServiceBlocks)
    BY DEF ServiceStage, ServiceFrame, ServiceTries, ServiceBlocks, OnTheWire, Busy, At, Stage,
           Held, Tried, Blocks, OnLine, Waits
  <1>2. At(dev', ServiceStage', ServiceFrame', ServiceTries', ServiceBlocks')
    BY DEF ServiceStage, ServiceFrame, ServiceTries, ServiceBlocks, OnTheWire, Busy, At, Stage,
           Held, Tried, Blocks, OnLine, Waits
  <1>3. Service!Listens
    BY DEF Service!Listens, ServiceAnswer
  <1>4. ServiceStage = "asking" => (ServiceAnswer <=> Answered)
    BY DEF ServiceAnswer, Answered
  <1>5. ServiceStage # "asking" => ServiceAnswer = FALSE
    BY DEF ServiceAnswer
  <1>6. ServiceStage' # "asking" => ServiceAnswer' = FALSE
    BY DEF ServiceAnswer
  <1>7. CASE Same(dev, dev')
    <2>1. /\ ServiceStage' = ServiceStage /\ ServiceFrame' = ServiceFrame
          /\ ServiceTries' = ServiceTries /\ ServiceBlocks' = ServiceBlocks
      BY <1>1, <1>2, <1>7 DEF Same, At
    <2>2. ServiceStage = "asking" => Service!Hear
      BY <2>1 DEF Service!Hear
    <2>3. ServiceStage # "asking" => UNCHANGED service
      BY <1>5, <1>6, <2>1 DEF service
    <2> QED BY <1>3, <2>2, <2>3 DEF Service!Next
  <1>8. CASE Stage(dev) = "empty" /\ \E f \in AnyFrames : At(dev', "waiting", f, 0, 0)
    <2>1. Service!Accept
      BY <1>1, <1>2, <1>8 DEF At, Service!Accept, Service!Waits
    <2> QED BY <1>3, <2>1 DEF Service!Next
  <1>9. CASE Stage(dev) = "waiting" /\ At(dev', "waiting", Held(dev), 0, 0)
    <2>1. Service!Yield
      BY <1>1, <1>2, <1>9 DEF At, Service!Yield, Service!Waits
    <2> QED BY <1>3, <2>1 DEF Service!Next
  <1>10. CASE /\ Stage(dev) = "waiting"
              /\ At(dev', "sending", Held(dev), Tried(dev), Blocks(dev))
    <2>1. Service!Start
      BY <1>1, <1>2, <1>10 DEF At, Service!Start
    <2> QED BY <1>3, <2>1 DEF Service!Next
  <1>11. CASE /\ Stage(dev) = "sending"
              /\ At(dev', "asking", Held(dev), Tried(dev), Blocks(dev))
    <2>1. Service!Ask
      BY <1>1, <1>2, <1>11 DEF At, Service!Ask
    <2> QED BY <1>3, <2>1 DEF Service!Next
  <1>12. CASE /\ Stage(dev) = "asking" /\ Answered /\ Blocks(dev) + 1 # Held(dev)[2]
              /\ At(dev', "sending", Held(dev), Tried(dev), Blocks(dev) + 1)
    <2>1. Service!NextBlock
      BY <1>1, <1>2, <1>4, <1>12 DEF At, Service!NextBlock, Service!LastBlock, Service!Size
    <2> QED BY <1>3, <2>1 DEF Service!Next
  <1>13. CASE /\ Stage(dev) = "asking" /\ Blocks(dev) + 1 = Held(dev)[2]
              /\ Answered \/ Held(dev) \in PollFrames
              /\ Ended(dev')
    <2>1. Service!Finish
      BY <1>1, <1>2, <1>4, <1>13, PollsAreFound
      DEF At, Ended, Service!Finish, Service!Leaves, Service!LastBlock, Service!Size
    <2> QED BY <1>3, <2>1 DEF Service!Next
  <1>14. CASE Stage(dev) = "asking" /\ Answered /\ PollsNext(dev, dev')
    <2>1. Service!PollNext
      BY <1>1, <1>2, <1>4, <1>14, PollsAreFound
      DEF At, PollsNext, Service!PollNext, Service!Waits
    <2> QED BY <1>3, <2>1 DEF Service!Next
  <1>15. Failed(dev, Answered) => Service!Fails
    BY <1>1, <1>4, PollsAreFound DEF At, Failed, Service!Fails
  <1>16. CASE /\ Failed(dev, Answered) /\ Tried(dev) + 1 < CEC_E_MAX_RETRANSMIT
              /\ At(dev', "waiting", Held(dev), Tried(dev) + 1, 0)
    <2>1. Service!Again
      BY <1>1, <1>2, <1>15, <1>16 DEF At, Service!Again, Service!Waits
    <2> QED BY <1>3, <2>1 DEF Service!Next
  <1>17. CASE /\ Failed(dev, Answered) /\ Tried(dev) + 1 = CEC_E_MAX_RETRANSMIT
              /\ Ended(dev')
    <2>1. Service!GiveUp
      BY <1>1, <1>2, <1>15, <1>17 DEF At, Ended, Service!GiveUp, Service!Leaves
    <2> QED BY <1>3, <2>1 DEF Service!Next
  <1> QED BY <1>7, <1>8, <1>9, <1>10, <1>11, <1>12, <1>13, <1>14, <1>16, <1>17 DEF Moves

Serves == Tx(dev) /\ Allocates(dev)

LEMMA InitServes == Init => Serves /\ Service!Init
  <1>1. Init => Tx(dev) /\ Service!Init
    BY DEF Init, NewDevice, Tx, Free, Service!Init, ServiceStage, ServiceFrame, ServiceTries,
           ServiceBlocks, ServiceAnswer, OnTheWire, Busy
  <1> QED BY <1>1, InitAllocates DEF Serves

LEMMA ServesPolls == Serves => PollInFlight
  BY DEF Serves, Allocates, Promised, PollInFlight, Waits, Busy

LEMMA NextServes ==
    ASSUME HostPaced
    PROVE  IInv /\ Serves /\ [Next]_vars
             => Serves' /\ [Service!Next]_service
  <1> SUFFICES ASSUME IInv, Tx(dev), Allocates(dev), [Next]_vars
               PROVE  Serves' /\ [Service!Next]_service
    BY DEF Serves
  <1>1. Serves'
    BY NextTx, NextAllocates DEF Serves
  <1>2. Promised(dev)
    BY DEF Allocates
  <1>3. CASE Host
    BY <1>1, <1>3, HostServed, MovesServes
  <1>4. CASE Run \/ Process \/ UNCHANGED dev
    BY <1>1, <1>2, <1>4, StepServed, MovesServes
  <1> QED BY <1>3, <1>4 DEF Next, LineMoves, vars

\* With a host that waits for a frame to end before it hands over the next, the
\* engine serves the frames as FrameService promises.  A frame is never lost or
\* changed: each block follows on the acknowledge of the one before it, the frame
\* ends by the answer to its last block, and a try that fails by a collision or a
\* missing acknowledge puts it back to its first block, CEC_E_MAX_RETRANSMIT - 1
\* times in a row, before it is given up.  A reception only makes it wait.
THEOREM FramesServed == ASSUME HostPaced PROVE Spec => FramesAreServed
  <1>1. Init => Serves /\ Service!Init
    BY InitServes
  <1>2. IInv /\ Serves /\ [Next]_vars
          => Serves' /\ [Service!Next]_service
    BY NextServes
  <1> QED BY <1>1, <1>2, Inductive, PTL DEF Spec, FramesAreServed, Service!Spec, service
=============================================================================
