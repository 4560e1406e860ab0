--------------------------- MODULE CecDeviceProofs ---------------------------
(***************************************************************************)
(* Lemmas about the member functions of CEC_Device, for every value of the *)
(* constants: they keep the object well formed (Sound), and those that     *)
(* only reset or queue something leave the line alone (SameLine).          *)
(*                                                                         *)
(* A device is handled as a function on its field names (IsDevice) with a  *)
(* type for each field (Typed), which the provers digest far better than   *)
(* membership in the set of records Device; DeviceTyped joins the two.     *)
(***************************************************************************)
EXTENDS CecDevice, TLAPS

Fields ==
    {"ePrimary", "eSecondary", "eTertiary", "xmitretry", "eom", "follower", "broadcast",
     "amLastTransmittor", "transmitPending", "rxByte", "rxBit", "txByte", "txBit",
     "txCount", "txDest", "out", "lastLineState", "lastLineState2", "isrTriggered",
     "stamps", "waitTime", "primaryState", "secondaryState", "tertiaryState",
     "logicalAddress", "address"}

IsDevice(d) == d = [f \in Fields |-> d[f]]

WakeUpTimes == [base : {"bit", "change", "now", "zero", "never"}, plus : Nat]

Typed(d) ==
    /\ d.ePrimary          \in {"IDLE", "TRANSMIT", "RECEIVE"}
    /\ d.eSecondary        \in RcvStates \cup XmitStates
    /\ d.eTertiary         \in 0..24
    /\ d.xmitretry         \in 0..CEC_E_MAX_RETRANSMIT
    /\ d.eom               \in BOOLEAN
    /\ d.follower          \in BOOLEAN
    /\ d.broadcast         \in BOOLEAN
    /\ d.amLastTransmittor \in BOOLEAN
    /\ d.transmitPending   \in BOOLEAN
    /\ d.rxByte            \in Nat
    /\ d.rxBit             \in 0..7
    /\ d.txByte            \in 0..SERIAL_BUFFER_SIZE
    /\ d.txBit             \in 0..7
    /\ d.txCount           \in 0..SERIAL_BUFFER_SIZE
    /\ d.txDest            \in 0..15
    /\ d.out               \in BOOLEAN
    /\ d.lastLineState     \in BOOLEAN
    /\ d.lastLineState2    \in BOOLEAN
    /\ d.isrTriggered      \in BOOLEAN
    /\ d.stamps            \in SUBSET {"bit", "change"}
    /\ d.waitTime          \in WakeUpTimes
    /\ d.primaryState      \in {"CEC_IDLE", "CEC_READY", "CEC_ALLOCATE_LOGICAL_ADDRESS"}
    /\ d.secondaryState    \in {"CEC_XMIT_POLLING_MESSAGE", "CEC_RCV_POLLING_MESSAGE"}
    /\ d.tertiaryState     \in 0..4
    /\ d.logicalAddress    \in 0..15
    /\ d.address           \in 0..15

\* What keeps the counters in their ranges: the retry counter of a frame being
\* sent has not reached its limit, the transmit cursor has not passed the end,
\* and while addresses are allocated there is a next candidate to go to.
InRange(d) ==
    /\ d.ePrimary = "TRANSMIT" => d.xmitretry < CEC_E_MAX_RETRANSMIT
    /\ d.txByte <= d.txCount
    /\ d.primaryState = "CEC_ALLOCATE_LOGICAL_ADDRESS" => d.tertiaryState <= 3

Sound(d) == IsDevice(d) /\ Typed(d) /\ InRange(d)

\* e differs from d in nothing that concerns the line or the wake-up time.
SameLine(d, e) ==
    /\ IsDevice(e)
    /\ e.out = d.out /\ e.lastLineState = d.lastLineState /\ e.waitTime = d.waitTime

LEMMA DeviceTyped == ASSUME NEW d PROVE d \in Device <=> IsDevice(d) /\ Typed(d)
  BY DEF Device, IsDevice, Typed, Fields, WakeUpTimes

\* Every candidate is an address, and the fifth entry of a row ends it.
LEMMA CandidateType ==
    /\ \A i \in 0..4 : Candidate(i) \in 0..15
    /\ Candidate(4) = CLA_UNREGISTERED
  BY TypeAssumption DEF Candidate, ValidLogicalAddresses, CLA_UNREGISTERED

-----------------------------------------------------------------------------
(* The state resets, the queueing of a frame and the allocation leave the  *)
(* line alone.                                                             *)

LEMMA ToIdleLine == ASSUME NEW d, IsDevice(d) PROVE SameLine(d, ToIdle(d))
  BY DEF SameLine, ToIdle, IsDevice, Fields

LEMMA NewFrameLine == ASSUME NEW d, IsDevice(d) PROVE SameLine(d, NewFrame(d))
  BY DEF SameLine, NewFrame, IsDevice, Fields

LEMMA ResetStateLine == ASSUME NEW d, IsDevice(d) PROVE SameLine(d, ResetState(d))
  BY ToIdleLine, NewFrameLine DEF ResetState, SameLine

LEMMA OnTransmitBeginLine ==
    ASSUME NEW d, IsDevice(d) PROVE SameLine(d, OnTransmitBegin(d))
  BY NewFrameLine DEF OnTransmitBegin, SameLine, IsDevice, Fields

LEMMA PutHeaderLine ==
    ASSUME NEW d, IsDevice(d), NEW x PROVE SameLine(d, PutHeader(d, x))
  BY DEF PutHeader, TransmitPartial, ClearTransmitBuffer, SameLine, IsDevice, Fields

LEMMA PollLine == ASSUME NEW d, IsDevice(d) PROVE SameLine(d, Poll(d))
  <1> DEFINE h == PutHeader(d, Candidate(d.tertiaryState))
  <1>1. SameLine(d, h)
    BY PutHeaderLine
  <1>2. SameLine(h, OnTransmitBegin(h))
    BY <1>1, OnTransmitBeginLine DEF SameLine
  <1>3. \A e : IsDevice(e) =>
                 SameLine(e, [e EXCEPT !.secondaryState = "CEC_RCV_POLLING_MESSAGE"])
    BY DEF SameLine, IsDevice, Fields
  <1> QED BY <1>1, <1>2, <1>3 DEF Poll, SameLine

LEMMA ClaimLine == ASSUME NEW d, IsDevice(d) PROVE SameLine(d, Claim(d))
  BY DEF Claim, SameLine, IsDevice, Fields

LEMMA NextCandidateLine == ASSUME NEW d, IsDevice(d) PROVE SameLine(d, NextCandidate(d))
  <1> DEFINE n == [d EXCEPT !.tertiaryState = @ + 1]
  <1>1. SameLine(d, n)
    BY DEF SameLine, IsDevice, Fields
  <1>2. SameLine(n, Poll(n))
    BY <1>1, PollLine DEF SameLine
  <1>3. SameLine(n, [n EXCEPT !.logicalAddress = CLA_UNREGISTERED,
                              !.primaryState = "CEC_IDLE"])
    BY <1>1 DEF SameLine, IsDevice, Fields
  <1> QED BY <1>1, <1>2, <1>3 DEF NextCandidate, SameLine

LEMMA OnTransmitCompleteLine ==
    ASSUME NEW d, IsDevice(d), NEW success \in BOOLEAN
    PROVE  SameLine(d, OnTransmitComplete(d, success))
  BY ClaimLine, NextCandidateLine DEF OnTransmitComplete, SameLine

LEMMA RetransmitLine == ASSUME NEW d, IsDevice(d) PROVE SameLine(d, Retransmit(d))
  <1> DEFINE i == [ToIdle(d) EXCEPT !.transmitPending = FALSE, !.xmitretry = @ + 1]
  <1>1. SameLine(d, i)
    BY ToIdleLine DEF SameLine, IsDevice, Fields
  <1>2. SameLine(d, OnTransmitComplete(i, FALSE))
    BY <1>1, OnTransmitCompleteLine DEF SameLine
  <1>3. SameLine(d, [ResetTransmitBuffer(d) EXCEPT
                        !.ePrimary = "TRANSMIT", !.eSecondary = "IDLE_WAIT",
                        !.eTertiary = IDLE_RETRANSMIT_FRAME,
                        !.transmitPending = FALSE, !.xmitretry = @ + 1])
    BY DEF ResetTransmitBuffer, SameLine, IsDevice, Fields
  <1> QED BY <1>2, <1>3 DEF Retransmit

LEMMA PumpLine == ASSUME NEW d, IsDevice(d) PROVE SameLine(d, Pump(d))
  BY PollLine DEF Pump, SameLine, IsDevice, Fields

LEMMA TransmitFrameLine ==
    ASSUME NEW d, IsDevice(d), NEW x, NEW n
    PROVE  SameLine(d, TransmitFrame(d, x, n))
  <1> DEFINE h == PutHeader(d, x)
             p == TransmitPartial(h, n)
  <1>1. SameLine(d, h)
    BY PutHeaderLine
  <1>2. SameLine(h, p)
    BY <1>1 DEF TransmitPartial, SameLine, IsDevice, Fields
  <1>3. SameLine(p, OnTransmitBegin(p))
    BY <1>2, OnTransmitBeginLine DEF SameLine
  <1> QED BY <1>1, <1>2, <1>3 DEF TransmitFrame, SameLine

-----------------------------------------------------------------------------
(* Every member function keeps the object well formed.                     *)

LEMMA ToIdleSound == ASSUME NEW d, Sound(d) PROVE Sound(ToIdle(d))
  <1> DEFINE e == ToIdle(d)
  <1>1. IsDevice(e)
    BY DEF ToIdle, Sound, IsDevice, Fields
  <1>2. Typed(e)
    BY DEF ToIdle, Sound, IsDevice, Fields, Typed, RcvStates
  <1>3. InRange(e)
    BY DEF ToIdle, Sound, IsDevice, Fields, InRange
  <1> QED BY <1>1, <1>2, <1>3 DEF Sound

LEMMA NewFrameSound == ASSUME NEW d, Sound(d) PROVE Sound(NewFrame(d))
  <1> DEFINE e == NewFrame(d)
  <1>1. IsDevice(e)
    BY DEF NewFrame, Sound, IsDevice, Fields
  <1>2. Typed(e)
    BY RetryAssumption DEF NewFrame, Sound, IsDevice, Fields, Typed, XmitStates,
                           IDLE_NEW_FRAME, IDLE_SUBSEQUENT_FRAME
  <1>3. InRange(e)
    BY RetryAssumption DEF NewFrame, Sound, IsDevice, Fields, InRange
  <1> QED BY <1>1, <1>2, <1>3 DEF Sound

LEMMA ResetStateSound == ASSUME NEW d, Sound(d) PROVE Sound(ResetState(d))
  BY ToIdleSound, NewFrameSound DEF ResetState

LEMMA OnTransmitBeginSound == ASSUME NEW d, Sound(d) PROVE Sound(OnTransmitBegin(d))
  <1>1. Sound([d EXCEPT !.transmitPending = TRUE])
    BY DEF Sound, IsDevice, Typed, Fields, InRange
  <1> QED BY <1>1, NewFrameSound DEF OnTransmitBegin

LEMMA PutHeaderSound ==
    ASSUME NEW d, Sound(d), NEW x \in 0..15
    PROVE  Sound(PutHeader(d, x)) /\ PutHeader(d, x).txCount = 1
  <1> DEFINE e == PutHeader(d, x)
  <1>1. IsDevice(e)
    BY DEF PutHeader, TransmitPartial, ClearTransmitBuffer, Sound, IsDevice, Fields
  <1>2. Typed(e)
    BY SizeAssumption
    DEF PutHeader, TransmitPartial, ClearTransmitBuffer, Sound, IsDevice, Fields, Typed
  <1>3. InRange(e)
    BY DEF PutHeader, TransmitPartial, ClearTransmitBuffer, Sound, IsDevice, Fields, InRange
  <1>4. e.txCount = 1
    BY DEF PutHeader, TransmitPartial, ClearTransmitBuffer, Sound, IsDevice, Fields
  <1> QED BY <1>1, <1>2, <1>3, <1>4 DEF Sound

LEMMA PollSound == ASSUME NEW d, Sound(d) PROVE Sound(Poll(d))
  <1> DEFINE h == PutHeader(d, Candidate(d.tertiaryState))
             b == OnTransmitBegin(h)
  <1>1. Sound(h)
    BY PutHeaderSound, CandidateType DEF Sound, Typed
  <1>2. Sound(b)
    BY <1>1, OnTransmitBeginSound
  <1>3. \A e : Sound(e) => Sound([e EXCEPT !.secondaryState = "CEC_RCV_POLLING_MESSAGE"])
    BY DEF Sound, IsDevice, Typed, Fields, InRange
  <1> QED BY <1>2, <1>3 DEF Poll

LEMMA ClaimSound == ASSUME NEW d, Sound(d) PROVE Sound(Claim(d))
  <1>1. Candidate(d.tertiaryState) \in 0..15
    BY CandidateType DEF Sound, Typed
  <1> QED BY <1>1 DEF Claim, Sound, IsDevice, Typed, Fields, InRange

LEMMA NextCandidateSound ==
    ASSUME NEW d, Sound(d), d.primaryState = "CEC_ALLOCATE_LOGICAL_ADDRESS"
    PROVE  Sound(NextCandidate(d))
  <1> DEFINE n == [d EXCEPT !.tertiaryState = @ + 1]
             r == [n EXCEPT !.logicalAddress = CLA_UNREGISTERED,
                            !.primaryState = "CEC_IDLE"]
  <1>1. IsDevice(n) /\ Typed(n) /\ n.tertiaryState = d.tertiaryState + 1
    BY DEF Sound, IsDevice, Typed, Fields, InRange
  <1>2. CASE Candidate(n.tertiaryState) # CLA_UNREGISTERED
    <2>1. n.tertiaryState <= 3
      BY <1>1, <1>2, CandidateType DEF Typed
    <2>2. Sound(n)
      BY <1>1, <2>1 DEF Sound, IsDevice, Typed, Fields, InRange
    <2> QED BY <2>2, <1>2, PollSound DEF NextCandidate
  <1>3. CASE Candidate(n.tertiaryState) = CLA_UNREGISTERED
    <2>1. IsDevice(r)
      BY DEF Sound, IsDevice, Fields
    <2>2. Typed(r)
      BY <1>1 DEF IsDevice, Fields, Typed, CLA_UNREGISTERED
    <2>3. InRange(r)
      BY DEF Sound, IsDevice, Fields, InRange
    <2> QED BY <2>1, <2>2, <2>3, <1>3 DEF NextCandidate, Sound
  <1> QED BY <1>2, <1>3

LEMMA OnTransmitCompleteSound ==
    ASSUME NEW d, Sound(d), NEW success \in BOOLEAN
    PROVE  Sound(OnTransmitComplete(d, success))
  BY ClaimSound, NextCandidateSound DEF OnTransmitComplete, Allocating

LEMMA RetransmitSound ==
    ASSUME NEW d, Sound(d), d.xmitretry < CEC_E_MAX_RETRANSMIT
    PROVE  Sound(Retransmit(d))
  <1> DEFINE t == ToIdle(d)
             i == [t EXCEPT !.transmitPending = FALSE, !.xmitretry = @ + 1]
             r == [ResetTransmitBuffer(d) EXCEPT
                      !.ePrimary = "TRANSMIT", !.eSecondary = "IDLE_WAIT",
                      !.eTertiary = IDLE_RETRANSMIT_FRAME,
                      !.transmitPending = FALSE, !.xmitretry = @ + 1]
  <1>1. Sound(i)
    <2>1. Sound(t) /\ t.ePrimary = "IDLE" /\ t.xmitretry = d.xmitretry
      BY ToIdleSound, ZenonT(60) DEF ToIdle, Sound, IsDevice, Fields
    <2> HIDE DEF t
    <2>2. IsDevice(i)
      BY <2>1 DEF Sound, IsDevice, Fields
    <2>3. Typed(i)
      BY <2>1, RetryAssumption DEF Sound, IsDevice, Fields, Typed
    <2>4. InRange(i)
      BY <2>1 DEF Sound, IsDevice, Fields, InRange
    <2> QED BY <2>2, <2>3, <2>4 DEF Sound
  <1>2. Sound(OnTransmitComplete(i, FALSE))
    BY <1>1, OnTransmitCompleteSound
  <1>3. ASSUME d.xmitretry + 1 # CEC_E_MAX_RETRANSMIT PROVE Sound(r)
    <2>1. IsDevice(r)
      BY DEF ResetTransmitBuffer, Sound, IsDevice, Fields
    <2>2. Typed(r)
      BY RetryAssumption, SizeAssumption
      DEF ResetTransmitBuffer, Sound, IsDevice, Fields, Typed, XmitStates,
          IDLE_RETRANSMIT_FRAME
    <2>3. InRange(r)
      BY <1>3, RetryAssumption
      DEF ResetTransmitBuffer, Sound, IsDevice, Fields, InRange, Typed
    <2> QED BY <2>1, <2>2, <2>3 DEF Sound
  <1> QED BY <1>2, <1>3 DEF Retransmit

LEMMA PumpSound == ASSUME NEW d, Sound(d) PROVE Sound(Pump(d))
  <1>1. Sound([d EXCEPT !.primaryState = "CEC_IDLE"])
    BY DEF Sound, IsDevice, Typed, Fields, InRange
  <1> QED BY <1>1, PollSound DEF Pump

LEMMA TransmitFrameSound ==
    ASSUME NEW d, Sound(d), NEW x \in 0..15, NEW n \in Nat
    PROVE  Sound(TransmitFrame(d, x, n))
  <1> DEFINE h == PutHeader(d, x)
             p == TransmitPartial(h, n)
  <1>1. Sound(h)
    BY PutHeaderSound
  <1>2. ASSUME Fits(h, n) PROVE Sound(p)
    <2> HIDE DEF h
    <2>1. IsDevice(p)
      BY <1>1 DEF TransmitPartial, Sound, IsDevice, Fields
    <2>2. Typed(p)
      BY <1>1, <1>2, SizeAssumption DEF Fits, TransmitPartial, Sound, IsDevice, Fields, Typed
    <2>3. InRange(p)
      BY <1>1, <1>2 DEF TransmitPartial, Sound, IsDevice, Fields, InRange, Typed
    <2> QED BY <2>1, <2>2, <2>3 DEF Sound
  <1> QED BY <1>1, <1>2, OnTransmitBeginSound DEF TransmitFrame

LEMMA PopTransmitBitSound == ASSUME NEW d, Sound(d) PROVE Sound(PopTransmitBit(d))
  <1> DEFINE e == PopTransmitBit(d)
  <1>1. IsDevice(e)
    BY DEF PopTransmitBit, Sound, IsDevice, Fields
  <1>2. Typed(e)
    BY SizeAssumption DEF PopTransmitBit, Sound, IsDevice, Fields, Typed, InRange
  <1>3. InRange(e)
    BY DEF PopTransmitBit, Sound, IsDevice, Fields, Typed, InRange
  <1> QED BY <1>1, <1>2, <1>3 DEF Sound

LEMMA PushReceiveBitSound == ASSUME NEW d, Sound(d) PROVE Sound(PushReceiveBit(d))
  <1> DEFINE e == PushReceiveBit(d)
  <1>1. IsDevice(e)
    BY DEF PushReceiveBit, Sound, IsDevice, Fields
  <1>2. Typed(e)
    BY DEF PushReceiveBit, Sound, IsDevice, Fields, Typed
  <1>3. InRange(e)
    BY DEF PushReceiveBit, Sound, IsDevice, Fields, InRange
  <1> QED BY <1>1, <1>2, <1>3 DEF Sound

LEMMA RaiseSound ==
    ASSUME NEW d, Sound(d), NEW others \in BOOLEAN PROVE Sound(Raise(d, others))
  <1> DEFINE e == Raise(d, others)
  <1>1. IsDevice(e)
    BY DEF Raise, Sound, IsDevice, Fields
  <1>2. /\ e.out \in BOOLEAN /\ e.lastLineState \in BOOLEAN
        /\ e.lastLineState2 \in BOOLEAN /\ e.stamps \in SUBSET {"bit", "change"}
    BY DEF Raise, Sound, IsDevice, Fields, Typed
  <1>3. \A f \in Fields \ {"out", "lastLineState", "lastLineState2", "stamps"} : e[f] = d[f]
    BY DEF Raise, Sound, IsDevice, Fields
  <1> HIDE DEF e
  <1>4. Typed(e)
    BY <1>2, <1>3 DEF Sound, Typed, Fields
  <1>5. InRange(e)
    BY <1>3 DEF Sound, InRange, Fields
  <1> QED BY <1>1, <1>4, <1>5 DEF Sound, e

LEMMA LowerSound == ASSUME NEW d, Sound(d) PROVE Sound(Lower(d))
  <1> DEFINE e == Lower(d)
  <1>1. IsDevice(e)
    BY DEF Lower, Sound, IsDevice, Fields
  <1>2. /\ e.out \in BOOLEAN /\ e.lastLineState \in BOOLEAN
        /\ e.lastLineState2 \in BOOLEAN /\ e.stamps \in SUBSET {"bit", "change"}
    BY DEF Lower, Sound, IsDevice, Fields, Typed
  <1>3. \A f \in Fields \ {"out", "lastLineState", "lastLineState2", "stamps"} : e[f] = d[f]
    BY DEF Lower, Sound, IsDevice, Fields
  <1> HIDE DEF e
  <1>4. Typed(e)
    BY <1>2, <1>3 DEF Sound, Typed, Fields
  <1>5. InRange(e)
    BY <1>3 DEF Sound, InRange, Fields
  <1> QED BY <1>1, <1>4, <1>5 DEF Sound, e

LEMMA HasChangedSound ==
    ASSUME NEW d, Sound(d), NEW level \in BOOLEAN PROVE Sound(HasChanged(d, level))
  <1> DEFINE e == HasChanged(d, level)
  <1>1. IsDevice(e)
    BY DEF HasChanged, Sound, IsDevice, Fields
  <1>2. Typed(e)
    BY DEF HasChanged, Sound, IsDevice, Fields, Typed
  <1>3. InRange(e)
    BY DEF HasChanged, Sound, IsDevice, Fields, InRange
  <1> QED BY <1>1, <1>2, <1>3 DEF Sound
=============================================================================
