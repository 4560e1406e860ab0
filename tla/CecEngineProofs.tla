--------------------------- MODULE CecEngineProofs ---------------------------
(***************************************************************************)
(* Safety of the signalling engine, for every buffer size, retry limit,    *)
(* device type, mode and set of times, frames and destinations.  The       *)
(* inductive invariant IInv says that the object is well formed, that the  *)
(* bit counter is in its range where it is counted on, and that a line     *)
(* pulled low is pulled legitimately and with a wake-up time to let go.    *)
(***************************************************************************)
EXTENDS CecEngine, CecDeviceProofs

\* The bit counter, in the states that add one to it.
Counting(d) ==
    /\ d.ePrimary = "RECEIVE" /\ d.eSecondary \in {"RCV_DATABIT1", "RCV_DATABIT2"} =>
        d.eTertiary <= RCV_BIT_EOM
    /\ d.ePrimary = "TRANSMIT" /\ d.eSecondary = "XMIT_DATABIT1" =>
        d.eTertiary \in XMIT_BIT0..XMIT_BIT_EOM
    /\ d.ePrimary = "TRANSMIT" /\ d.eSecondary = "XMIT_DATABIT2" =>
        d.eTertiary \in XMIT_BIT0..XMIT_BIT_EOM - 1

Legitimate(d) ==
    \/ d.ePrimary = "TRANSMIT"
       /\ d.eSecondary \in {"XMIT_STARTBIT1", "XMIT_DATABIT1", "XMIT_ACK2"}
    \/ d.ePrimary = "RECEIVE" /\ d.eSecondary = "RCV_ACK_SENT" /\ d.follower
    \/ d.ePrimary = "RECEIVE" /\ d.eSecondary = "RCV_LINEERROR"
       /\ (d.follower \/ d.broadcast)

\* The device d may sleep until w.
Holding(d, w) ==
    ~d.out => /\ ~MonitorMode /\ ~d.lastLineState
              /\ w # Never /\ Legitimate(d)

Stable(d, w) == Sound(d) /\ Counting(d) /\ Holding(d, w) /\ w \in WakeUpTimes

IInv ==
    /\ Stable(dev, dev.waitTime)
    /\ call \in {"none", "due", "irq"}
    /\ others \in BOOLEAN

-----------------------------------------------------------------------------
(* Consequences of IInv.                                                   *)

LEMMA IInvTypeOK == IInv => TypeOK
  BY DeviceTyped DEF IInv, Stable, Sound, TypeOK

LEMMA IInvHold == IInv => HoldIsLegitimate /\ HoldIsTimed
  BY DEF IInv, Stable, Holding, Legitimate, HoldIsLegitimate, HoldIsTimed

-----------------------------------------------------------------------------
(* Devices that have just been reset, and how Process returns.             *)

\* Neither receiving nor inside a frame.
AtRest(d) ==
    d.ePrimary = "IDLE" \/ (d.ePrimary = "TRANSMIT" /\ d.eSecondary = "IDLE_WAIT")

LEMMA OnTransmitBeginRest ==
    ASSUME NEW d, IsDevice(d), AtRest(d) PROVE AtRest(OnTransmitBegin(d))
  BY DEF OnTransmitBegin, NewFrame, AtRest, IsDevice, Fields

LEMMA PollRest == ASSUME NEW d, IsDevice(d), AtRest(d) PROVE AtRest(Poll(d))
  <1> DEFINE h == PutHeader(d, Candidate(d.tertiaryState))
             b == OnTransmitBegin(h)
  <1>1. IsDevice(h) /\ AtRest(h)
    <2>1. IsDevice(h)
      BY PutHeaderLine DEF SameLine
    <2>2. h.ePrimary = d.ePrimary /\ h.eSecondary = d.eSecondary
      BY DEF PutHeader, TransmitPartial, ClearTransmitBuffer, IsDevice, Fields
    <2> QED BY <2>1, <2>2 DEF AtRest
  <1>2. IsDevice(b) /\ AtRest(b)
    BY <1>1, OnTransmitBeginRest, OnTransmitBeginLine DEF SameLine
  <1> HIDE DEF b
  <1>3. AtRest([b EXCEPT !.secondaryState = "CEC_RCV_POLLING_MESSAGE"])
    BY <1>2 DEF AtRest, IsDevice, Fields
  <1> QED BY <1>3 DEF Poll, b

LEMMA ResetStateRest == ASSUME NEW d, IsDevice(d) PROVE AtRest(ResetState(d))
  <1>1. AtRest(ToIdle(d))
    BY DEF ToIdle, AtRest, IsDevice, Fields
  <1>2. \A e : IsDevice(e) => AtRest(NewFrame(e))
    BY DEF NewFrame, AtRest, IsDevice, Fields
  <1> QED BY <1>1, <1>2, ToIdleLine DEF ResetState, SameLine

LEMMA OnTransmitCompleteRest ==
    ASSUME NEW d, IsDevice(d), AtRest(d), NEW success \in BOOLEAN
    PROVE  AtRest(OnTransmitComplete(d, success))
  <1> DEFINE n == [d EXCEPT !.tertiaryState = @ + 1]
  <1>1. AtRest(Claim(d))
    BY DEF Claim, AtRest, IsDevice, Fields
  <1>2. IsDevice(n) /\ AtRest(n)
    BY DEF AtRest, IsDevice, Fields
  <1>3. AtRest([n EXCEPT !.logicalAddress = CLA_UNREGISTERED, !.primaryState = "CEC_IDLE"])
    BY <1>2 DEF AtRest, IsDevice, Fields
  <1>4. AtRest(NextCandidate(d))
    BY <1>2, <1>3, PollRest DEF NextCandidate
  <1> QED BY <1>1, <1>4 DEF OnTransmitComplete

LEMMA RetransmitRest == ASSUME NEW d, IsDevice(d) PROVE AtRest(Retransmit(d))
  <1> DEFINE i == [ToIdle(d) EXCEPT !.transmitPending = FALSE, !.xmitretry = @ + 1]
  <1>1. IsDevice(i) /\ AtRest(i)
    BY ZenonT(60) DEF ToIdle, AtRest, IsDevice, Fields
  <1>2. AtRest(OnTransmitComplete(i, FALSE))
    BY <1>1, OnTransmitCompleteRest
  <1>3. AtRest([ResetTransmitBuffer(d) EXCEPT
                    !.ePrimary = "TRANSMIT", !.eSecondary = "IDLE_WAIT",
                    !.eTertiary = IDLE_RETRANSMIT_FRAME,
                    !.transmitPending = FALSE, !.xmitretry = @ + 1])
    BY DEF ResetTransmitBuffer, AtRest, IsDevice, Fields
  <1> QED BY <1>2, <1>3 DEF Retransmit

\* A device at rest that has released the line may sleep for any time.
LEMMA RestIsStable ==
    ASSUME NEW d, NEW e, NEW w \in WakeUpTimes,
           Sound(e), AtRest(e), SameLine(d, e), d.out
    PROVE  Stable(e, w)
  BY DEF Stable, Counting, Holding, AtRest, SameLine

LEMMA WakeTypes ==
    /\ Never \in WakeUpTimes /\ Now \in WakeUpTimes /\ LongPast \in WakeUpTimes
    /\ \A b \in {"bit", "change", "now", "zero", "never"}, n \in Nat :
            Deadline(b, n) \in WakeUpTimes
    /\ \A b \in {"bit", "change", "now", "zero"}, n \in Nat : Deadline(b, n) # Never
  BY DEF Never, Now, LongPast, Deadline, WakeUpTimes

LEMMA ReturnsIInv ==
    ASSUME NEW d, NEW w, Stable(d, w), Returns(d, w), others' \in BOOLEAN
    PROVE  IInv'
  <1>1. dev' = [d EXCEPT !.waitTime = w] /\ call' = "none"
    BY DEF Returns
  <1>2. /\ dev'.waitTime = w
        /\ \A f \in Fields \ {"waitTime"} : dev'[f] = d[f]
    BY <1>1 DEF Stable, Sound, IsDevice, Fields
  <1>3. IsDevice(dev')
    BY <1>1 DEF Stable, Sound, IsDevice, Fields
  <1>4. Typed(dev')
    BY <1>2 DEF Stable, Sound, Typed, Fields
  <1>5. InRange(dev')
    BY <1>2 DEF Stable, Sound, InRange, Fields
  <1>6. Counting(dev') /\ Holding(dev', dev'.waitTime)
    BY <1>2 DEF Stable, Counting, Holding, Legitimate, Fields
  <1> QED BY <1>1, <1>2, <1>3, <1>4, <1>5, <1>6 DEF IInv, Stable, Sound

LEMMA ResetsIInv ==
    ASSUME NEW d, Sound(d), d.out, Resets(d), others' \in BOOLEAN
    PROVE  IInv'
  <1>1. WakeAfterReset(d) \in WakeUpTimes
    BY WakeTypes DEF WakeAfterReset
  <1>2. Stable(ResetState(d), WakeAfterReset(d))
    BY <1>1, ResetStateSound, ResetStateRest, ResetStateLine, RestIsStable DEF Sound
  <1> QED BY <1>2, ReturnsIInv DEF Resets

LEMMA RetransmitIInv ==
    ASSUME NEW d, Sound(d), d.out, d.ePrimary = "TRANSMIT", NEW w \in WakeUpTimes,
           Returns(Retransmit(d), w), others' \in BOOLEAN
    PROVE  IInv'
  <1>1. d.xmitretry < CEC_E_MAX_RETRANSMIT
    BY DEF Sound, InRange
  <1>2. Stable(Retransmit(d), w)
    BY <1>1, RetransmitSound, RetransmitRest, RetransmitLine, RestIsStable DEF Sound
  <1> QED BY <1>2, ReturnsIInv

LEMMA CompletesIInv ==
    ASSUME NEW d, Sound(d), d.out, NEW success \in BOOLEAN,
           Returns(OnTransmitComplete(ResetState(d), success), Never), others' \in BOOLEAN
    PROVE  IInv'
  <1> DEFINE r == ResetState(d)
             c == OnTransmitComplete(r, success)
  <1>1. Sound(r) /\ AtRest(r) /\ SameLine(d, r)
    BY ResetStateSound, ResetStateRest, ResetStateLine DEF Sound
  <1>2. Sound(c) /\ AtRest(c) /\ SameLine(d, c)
    BY <1>1, OnTransmitCompleteSound, OnTransmitCompleteRest, OnTransmitCompleteLine
    DEF Sound, SameLine
  <1>3. Stable(c, Never)
    BY <1>2, RestIsStable, WakeTypes
  <1> QED BY <1>3, ReturnsIInv

\* A change of state that leaves the line alone.
LEMMA GotoSound ==
    ASSUME NEW d, Sound(d), NEW s \in RcvStates \cup XmitStates
    PROVE  LET e == [d EXCEPT !.eSecondary = s]
           IN  /\ Sound(e) /\ SameLine(d, e) /\ e.eSecondary = s
               /\ \A f \in Fields \ {"eSecondary"} : e[f] = d[f]
  <1> DEFINE e == [d EXCEPT !.eSecondary = s]
  <1>1. IsDevice(e) /\ SameLine(d, e) /\ e.eSecondary = s
    BY DEF Sound, SameLine, IsDevice, Fields
  <1>2. \A f \in Fields \ {"eSecondary"} : e[f] = d[f]
    BY DEF Sound, IsDevice, Fields
  <1> HIDE DEF e
  <1>3. Typed(e)
    BY <1>1, <1>2 DEF Sound, Typed, Fields
  <1>4. InRange(e)
    BY <1>2 DEF Sound, InRange, Fields
  <1> QED BY <1>1, <1>2, <1>3, <1>4 DEF Sound, e

LEMMA CountSound ==
    ASSUME NEW d, Sound(d), NEW n \in 0..24
    PROVE  LET e == [d EXCEPT !.eTertiary = n]
           IN  /\ Sound(e) /\ SameLine(d, e) /\ e.eTertiary = n
               /\ \A f \in Fields \ {"eTertiary"} : e[f] = d[f]
  <1> DEFINE e == [d EXCEPT !.eTertiary = n]
  <1>1. IsDevice(e) /\ SameLine(d, e) /\ e.eTertiary = n
    BY DEF Sound, SameLine, IsDevice, Fields
  <1>2. \A f \in Fields \ {"eTertiary"} : e[f] = d[f]
    BY DEF Sound, IsDevice, Fields
  <1> HIDE DEF e
  <1>3. Typed(e)
    BY <1>1, <1>2 DEF Sound, Typed, Fields
  <1>4. InRange(e)
    BY <1>2 DEF Sound, InRange, Fields
  <1> QED BY <1>1, <1>2, <1>3, <1>4 DEF Sound, e

\* Both changes of state at once.
Step(d, s, n) == [d EXCEPT !.eSecondary = s, !.eTertiary = n]

Stepped(d, s, n) ==
    LET e == Step(d, s, n)
    IN  /\ Sound(e) /\ SameLine(d, e) /\ e.eSecondary = s /\ e.eTertiary = n
        /\ \A f \in Fields \ {"eSecondary", "eTertiary"} : e[f] = d[f]

LEMMA StepSound ==
    ASSUME NEW d, Sound(d), NEW s \in RcvStates \cup XmitStates, NEW n \in 0..24
    PROVE  Stepped(d, s, n)
  <1> DEFINE g == [d EXCEPT !.eSecondary = s]
             e == [g EXCEPT !.eTertiary = n]
  <1>1. /\ Sound(g) /\ SameLine(d, g) /\ g.eSecondary = s
        /\ \A f \in Fields \ {"eSecondary"} : g[f] = d[f]
    BY GotoSound
  <1> HIDE DEF g
  <1>2. /\ Sound(e) /\ SameLine(g, e) /\ e.eTertiary = n
        /\ \A f \in Fields \ {"eTertiary"} : e[f] = g[f]
    BY <1>1, CountSound
  <1> HIDE DEF e
  <1>3. /\ Sound(e) /\ SameLine(d, e) /\ e.eSecondary = s /\ e.eTertiary = n
        /\ \A f \in Fields \ {"eSecondary", "eTertiary"} : e[f] = d[f]
    BY <1>1, <1>2 DEF SameLine, Fields
  <1> QED BY <1>3 DEF Stepped, Step, e, g

\* A device that has released the line may sleep for any time.
LEMMA ReleasedIsStable ==
    ASSUME NEW d, Sound(d), Counting(d), d.out, NEW w \in WakeUpTimes
    PROVE  Stable(d, w)
  BY DEF Stable, Holding

LEMMA SeenSound ==
    ASSUME IInv
    PROVE  /\ Sound(Seen) /\ Counting(Seen) /\ Seen.lastLineState = line
           /\ \A f \in Fields \ {"lastLineState", "stamps"} : Seen[f] = dev[f]
  <1>1. Sound(dev) /\ line \in BOOLEAN
    BY DEF IInv, Stable, Sound, Typed, line, Line
  <1>2. Sound([dev EXCEPT !.stamps = {}])
    BY <1>1 DEF Sound, IsDevice, Fields, Typed, InRange
  <1>3. Sound(Seen)
    BY <1>1, <1>2, HasChangedSound DEF Seen
  <1>4. Seen.lastLineState = line
    BY <1>1 DEF Seen, HasChanged, Changed, Sound, IsDevice, Fields
  <1>5. \A f \in Fields \ {"lastLineState", "stamps"} : Seen[f] = dev[f]
    BY <1>1 DEF Seen, HasChanged, Sound, IsDevice, Fields
  <1>6. Counting(Seen)
    BY <1>5 DEF IInv, Stable, Counting, Fields
  <1> QED BY <1>3, <1>4, <1>5, <1>6

\* While the device pulls the line low, no edge can be seen.
LEMMA HeldIsUnchanged == ASSUME IInv, Changed PROVE dev.out = TRUE
  BY DEF IInv, Stable, Sound, Typed, Holding, Changed, line, Line

LEMMA ReleasedOutside ==
    ASSUME IInv, ~Legitimate(dev) PROVE dev.out = TRUE
  BY DEF IInv, Stable, Sound, Typed, Holding

-----------------------------------------------------------------------------
(* The initial state, and the steps outside Process.                       *)

LEMMA InitIInv == Init => IInv
  <1> SUFFICES ASSUME Init PROVE IInv
    OBVIOUS
  <1>1. IsDevice(dev)
    BY DEF Init, NewDevice, IsDevice, Fields
  <1>2. Typed(dev)
    BY WakeTypes, RetryAssumption, SizeAssumption
    DEF Init, NewDevice, Typed, RcvStates, CLA_UNREGISTERED
  <1>3. InRange(dev) /\ Counting(dev) /\ Holding(dev, dev.waitTime)
    BY DEF Init, NewDevice, InRange, Counting, Holding
  <1> QED BY <1>1, <1>2, <1>3 DEF Init, IInv, Stable, Sound, Typed

\* What Run does before it decides: the line is as it was, and a device that
\* pulls it low stays in its state.
LEMMA PumpedStable ==
    ASSUME IInv PROVE Stable(Pumped, Pumped.waitTime)
  <1>1. Sound(dev) /\ Counting(dev) /\ Holding(dev, dev.waitTime) /\ line \in BOOLEAN
    BY DEF IInv, Stable, Sound, Typed, line, Line
  <1>2. IsDevice(Sampled) /\ \A f \in Fields \ {"lastLineState2", "isrTriggered"} : Sampled[f] = dev[f]
    BY <1>1 DEF Sampled, Sound, IsDevice, Fields
  <1>3. Sampled.lastLineState2 \in BOOLEAN /\ Sampled.isrTriggered \in BOOLEAN
    BY <1>1 DEF Sampled, Sound, Typed, IsDevice, Fields
  <1>4. Typed(Sampled)
    BY <1>1, <1>2, <1>3 DEF Sound, Typed, Fields
  <1>5. Sound(Sampled)
    BY <1>1, <1>2, <1>4 DEF Sound, InRange, Fields
  <1>6. Sound(Pumped) /\ SameLine(Sampled, Pumped)
    BY <1>5, PumpSound, PumpLine DEF Pumped, Sound
  <1>7. \/ AtRest(Pumped) /\ AtRest(Sampled)
        \/ \A f \in {"ePrimary", "eSecondary", "eTertiary", "follower", "broadcast"} :
              Pumped[f] = Sampled[f]
    <2> DEFINE d == Sampled
               h == PutHeader(d, Candidate(d.tertiaryState))
               b == OnTransmitBegin(h)
               p == [b EXCEPT !.secondaryState = "CEC_RCV_POLLING_MESSAGE"]
               Same(x, y) == \A f \in {"ePrimary", "eSecondary", "eTertiary", "follower", "broadcast"} : x[f] = y[f]
    <2> HIDE DEF d
    <2>0. IsDevice(d) BY <1>2 DEF d
    <2>1. CASE d.ePrimary = "IDLE"
      <3>1. AtRest(d) BY <2>1 DEF AtRest
      <3>2. AtRest([d EXCEPT !.primaryState = "CEC_IDLE"])
        BY <2>0, <3>1 DEF AtRest, IsDevice, Fields
      <3> QED BY <2>0, <3>1, <3>2, PollRest DEF Pumped, Pump, d
    <2>2. CASE d.ePrimary # "IDLE"
      <3>1. IsDevice(h) /\ Same(h, d)
        BY <2>0 DEF PutHeader, TransmitPartial, ClearTransmitBuffer, IsDevice, Fields
      <3> HIDE DEF h
      <3>2. IsDevice(b) /\ Same(b, h)
        BY <2>2, <3>1 DEF OnTransmitBegin, IsDevice, Fields
      <3> HIDE DEF b
      <3>3. Same(p, b)
        BY <3>2 DEF IsDevice, Fields
      <3>4. p = Poll(d)
        BY DEF p, b, h, Poll
      <3> HIDE DEF p
      <3>5. Same([d EXCEPT !.primaryState = "CEC_IDLE"], d)
        BY <2>0 DEF IsDevice, Fields
      <3>6. Same(Pump(d), d)
        BY <3>1, <3>2, <3>3, <3>4, <3>5 DEF Pump
      <3> QED BY <3>6 DEF Pumped, d
    <2> QED BY <2>1, <2>2
  <1>8. CASE AtRest(Pumped) /\ AtRest(Sampled)
    <2>1. ~Legitimate(dev)
      BY <1>8, <1>2 DEF Legitimate, AtRest, Fields
    <2>2. Sampled.out = TRUE
      BY <2>1, <1>2, ReleasedOutside DEF Fields
    <2> QED BY <1>6, <1>8, <2>2, RestIsStable DEF Sound, Typed
  <1>9. CASE \A f \in {"ePrimary", "eSecondary", "eTertiary", "follower", "broadcast"} :
                Pumped[f] = Sampled[f]
    BY <1>1, <1>2, <1>6, <1>9
    DEF Stable, Counting, Holding, Legitimate, SameLine, Sound, Typed, Fields
  <1> QED BY <1>7, <1>8, <1>9

LEMMA RunIInv == ASSUME IInv, Run, others' \in BOOLEAN PROVE IInv'
  <1>1. Stable(Pumped, Pumped.waitTime)
    BY PumpedStable
  <1>2. CASE RunDue
    BY <1>1, <1>2 DEF RunDue, IInv
  <1>3. CASE RunInterrupted
    <2> DEFINE d == Pumped
               e == [d EXCEPT !.isrTriggered = FALSE]
    <2> HIDE DEF d
    <2>1. Stable(d, d.waitTime)
      BY <1>1 DEF d
    <2>2. IsDevice(e) /\ e.isrTriggered = FALSE
          /\ \A f \in Fields \ {"isrTriggered"} : e[f] = d[f]
      BY <2>1 DEF Stable, Sound, IsDevice, Fields
    <2> HIDE DEF e
    <2>3. Typed(e)
      BY <2>1, <2>2 DEF Stable, Sound, Typed, Fields
    <2>4. Stable(e, e.waitTime)
      BY <2>1, <2>2, <2>3
      DEF Stable, Sound, InRange, Counting, Holding, Legitimate, Fields
    <2>5. dev' = e /\ call' = "irq"
      BY <1>3 DEF RunInterrupted, e, d
    <2> QED BY <2>4, <2>5 DEF IInv
  <1>4. CASE RunAsleep
    BY <1>1, <1>4 DEF RunAsleep, IInv
  <1> QED BY <1>2, <1>3, <1>4 DEF Run

LEMMA HostIInv == ASSUME IInv, Host, others' \in BOOLEAN PROVE IInv'
  <1> PICK dest \in Destinations, count \in FrameSizes : HostTransmit(dest, count)
    BY DEF Host
  <1> DEFINE e == TransmitFrame(dev, dest, count)
  <1>1. Sound(dev) /\ dest \in 0..15 /\ count \in Nat
    BY FrameAssumption DEF IInv, Stable
  <1>2. Sound(e) /\ SameLine(dev, e)
    BY <1>1, TransmitFrameSound, TransmitFrameLine DEF Sound
  <1>3. \/ AtRest(dev) /\ AtRest(e)
        \/ \A f \in {"ePrimary", "eSecondary", "eTertiary", "follower", "broadcast"} :
              e[f] = dev[f]
    <2> DEFINE h == PutHeader(dev, dest)
               p == TransmitPartial(h, count)
               Same(x, y) == \A f \in {"ePrimary", "eSecondary", "eTertiary",
                                       "follower", "broadcast"} : x[f] = y[f]
    <2>1. IsDevice(h) /\ Same(h, dev)
      BY <1>1 DEF PutHeader, TransmitPartial, ClearTransmitBuffer, Sound, IsDevice, Fields
    <2> HIDE DEF h
    <2>2. IsDevice(p) /\ Same(p, h)
      BY <2>1 DEF TransmitPartial, IsDevice, Fields
    <2> HIDE DEF p
    <2>3. CASE dev.ePrimary = "IDLE"
      BY <2>1, <2>2, <2>3, OnTransmitBeginRest DEF TransmitFrame, AtRest, h, p
    <2>4. CASE dev.ePrimary # "IDLE"
      <3>1. Same(OnTransmitBegin(p), p)
        BY <2>1, <2>2, <2>4 DEF OnTransmitBegin, IsDevice, Fields
      <3> QED BY <2>1, <2>2, <3>1 DEF TransmitFrame, h, p
    <2> QED BY <2>3, <2>4
  <1> HIDE DEF e
  <1>4. Stable(e, e.waitTime)
    <2>1. CASE AtRest(dev) /\ AtRest(e)
      <3>1. dev.out = TRUE
        BY <2>1, ReleasedOutside DEF AtRest, Legitimate
      <3> QED BY <1>2, <2>1, <3>1, RestIsStable DEF Sound, Typed
    <2>2. CASE \A f \in {"ePrimary", "eSecondary", "eTertiary", "follower", "broadcast"} :
                 e[f] = dev[f]
      BY <1>2, <2>2 DEF IInv, Stable, Counting, Holding, Legitimate, SameLine
    <2> QED BY <1>3, <2>1, <2>2
  <1> QED BY <1>4 DEF HostTransmit, IInv, e

-----------------------------------------------------------------------------
(* Process: the steps that are not part of a frame.                        *)

LEMMA SpuriousIInv == ASSUME IInv, Spurious, others' \in BOOLEAN PROVE IInv'
  <1> DEFINE e == [dev EXCEPT !.stamps = {}]
  <1>1. dev.out = TRUE
    BY ReleasedOutside DEF Spurious, Legitimate, RcvTimed
  <1>2. IsDevice(e) /\ e.stamps = {} /\ \A f \in Fields \ {"stamps"} : e[f] = dev[f]
    BY DEF IInv, Stable, Sound, IsDevice, Fields
  <1>3. Returns(e, Never)
    BY DEF Spurious
  <1> HIDE DEF e
  <1>4. Typed(e)
    BY <1>2 DEF IInv, Stable, Sound, Typed, Fields
  <1>5. Sound(e) /\ Counting(e) /\ e.out
    BY <1>1, <1>2, <1>4 DEF IInv, Stable, Sound, InRange, Counting, Fields
  <1> QED BY <1>3, <1>5, ReleasedIsStable, ReturnsIInv, WakeTypes

\* The device as Process sees it, when it has released the line.
LEMMA SeenReleased ==
    ASSUME IInv, dev.out
    PROVE  /\ Sound(Seen) /\ Counting(Seen) /\ Seen.out
           /\ Seen.ePrimary = dev.ePrimary /\ Seen.eSecondary = dev.eSecondary
           /\ Seen.eTertiary = dev.eTertiary
  BY SeenSound DEF Fields

LEMMA IdleEdgeIInv == ASSUME IInv, IdleEdge, others' \in BOOLEAN PROVE IInv'
  <1>1. dev.out
    BY HeldIsUnchanged DEF IdleEdge
  <1>2. Sound(Seen) /\ Counting(Seen) /\ Seen.out /\ Seen.ePrimary = "IDLE"
    BY <1>1, SeenReleased DEF IdleEdge
  <1>3. CASE line
    BY <1>2, <1>3, ReleasedIsStable, ReturnsIInv, WakeTypes DEF IdleEdge
  <1>4. CASE ~line
    <2> DEFINE d == Seen
               e == [d EXCEPT !.ePrimary = "RECEIVE", !.eSecondary = "RCV_STARTBIT1",
                              !.follower = FALSE, !.broadcast = FALSE,
                              !.amLastTransmittor = FALSE]
    <2> HIDE DEF d
    <2>1. Sound(d) /\ d.out
      BY <1>2 DEF d
    <2>2. IsDevice(e)
      BY <2>1 DEF Sound, IsDevice, Fields
    <2>3. Typed(e)
      BY <2>1 DEF Sound, IsDevice, Fields, Typed, RcvStates
    <2>4. InRange(e)
      BY <2>1 DEF Sound, IsDevice, Fields, InRange
    <2>5. Counting(e) /\ e.out
      BY <2>1 DEF Sound, IsDevice, Fields, Counting
    <2>6. Returns(e, Never)
      BY <1>4 DEF IdleEdge, d
    <2> HIDE DEF e
    <2> QED BY <2>2, <2>3, <2>4, <2>5, <2>6, ReleasedIsStable, ReturnsIInv, WakeTypes DEF Sound
  <1> QED BY <1>3, <1>4

\* Signalling a line error: to pull the line low, with a time to let go.
LEMMA LineErrorIInv ==
    ASSUME NEW d, Sound(d), d.out, d.ePrimary = "RECEIVE", LineError(d),
           others' \in BOOLEAN
    PROVE  IInv'
  <1>1. CASE d.follower \/ d.broadcast
    <2> DEFINE g == [d EXCEPT !.eSecondary = "RCV_LINEERROR"]
               e == Lower(g)
               w == Deadline("now", 3600)
    <2>1. /\ Sound(g) /\ g.eSecondary = "RCV_LINEERROR" /\ g.out
          /\ g.ePrimary = "RECEIVE" /\ (g.follower \/ g.broadcast)
      BY <1>1, GotoSound DEF RcvStates, RcvTimed, Fields, SameLine
    <2> HIDE DEF g
    <2>2. Sound(e)
      BY <2>1, LowerSound
    <2>3. Counting(e) /\ Holding(e, w)
      BY <2>1, WakeTypes DEF Lower, Sound, IsDevice, Fields, Counting, Holding, Legitimate
    <2>4. Stable(e, w)
      BY <2>2, <2>3, WakeTypes DEF Stable
    <2>5. Returns(e, w)
      BY <1>1 DEF LineError, g
    <2> QED BY <2>4, <2>5, ReturnsIInv
  <1>2. CASE ~(d.follower \/ d.broadcast)
    BY <1>2, ResetsIInv DEF LineError
  <1> QED BY <1>1, <1>2

-----------------------------------------------------------------------------
(* Process, CEC_E_RECEIVE.                                                 *)

\* Moving on in a reception, to a state that does not pull the line.
LEMMA ReceivesOnIInv ==
    ASSUME NEW d, Sound(d), d.out, d.ePrimary = "RECEIVE",
           NEW s \in RcvStates, NEW n \in 0..24,
           s \in {"RCV_DATABIT1", "RCV_DATABIT2"} => n <= RCV_BIT_EOM,
           Returns([d EXCEPT !.eSecondary = s, !.eTertiary = n], Never),
           others' \in BOOLEAN
    PROVE  IInv'
  <1> DEFINE e == Step(d, s, n)
  <1>1. /\ Sound(e) /\ SameLine(d, e) /\ e.eSecondary = s /\ e.eTertiary = n
        /\ \A f \in Fields \ {"eSecondary", "eTertiary"} : e[f] = d[f]
    <2>1. s \in RcvStates \cup XmitStates
      OBVIOUS
    <2> HIDE DEF e
    <2>2. \A x \in RcvStates \cup XmitStates : Stepped(d, x, n)
      BY StepSound
    <2>3. Stepped(d, s, n)
      BY <2>1, <2>2
    <2> QED BY <2>3 DEF Stepped, e
  <1>2. Returns(e, Never)
    BY DEF Step
  <1> HIDE DEF e
  <1>3. e.out /\ e.ePrimary = "RECEIVE"
    BY <1>1 DEF SameLine, Fields
  <1>4. Counting(e)
    BY <1>1, <1>3 DEF Counting
  <1> QED BY <1>1, <1>2, <1>3, <1>4, ReleasedIsStable, ReturnsIInv, WakeTypes

\* The same when the bit counter stays.
LEMMA ReceivesIInv ==
    ASSUME NEW d, Sound(d), d.out, d.ePrimary = "RECEIVE", NEW s \in RcvStates,
           s \in {"RCV_DATABIT1", "RCV_DATABIT2"} => d.eTertiary <= RCV_BIT_EOM,
           Returns([d EXCEPT !.eSecondary = s], Never),
           others' \in BOOLEAN
    PROVE  IInv'
  <1> DEFINE e == [d EXCEPT !.eSecondary = s]
  <1>1. /\ Sound(e) /\ e.out /\ e.ePrimary = "RECEIVE" /\ e.eSecondary = s
        /\ e.eTertiary = d.eTertiary
    BY GotoSound DEF SameLine, Fields
  <1>2. Returns(e, Never)
    OBVIOUS
  <1> HIDE DEF e
  <1>3. Counting(e)
    BY <1>1 DEF Counting
  <1> QED BY <1>1, <1>2, <1>3, ReleasedIsStable, ReturnsIInv, WakeTypes

LEMMA RcvType ==
    /\ {"RCV_STARTBIT1", "RCV_STARTBIT2", "RCV_DATABIT1", "RCV_DATABIT2", "RCV_ACK1",
        "RCV_ACK2", "RCV_ACK_SENT", "RCV_LINEERROR"} \subseteq RcvStates
    /\ {RCV_BIT0, RCV_BIT_EOM, RCV_BIT_ACK, CEC_E_ACK} \subseteq 0..24
  BY DEF RcvStates, RcvTimed, RCV_BIT0, RCV_BIT_EOM, RCV_BIT_ACK, CEC_E_ACK

\* An edge in a reception finds the line released.
LEMMA EdgeSeen ==
    ASSUME IInv, Changed, NEW s, Receiving(s)
    PROVE  /\ Sound(Seen) /\ Counting(Seen) /\ Seen.out
           /\ Seen.ePrimary = "RECEIVE" /\ Seen.eSecondary = s
           /\ Seen.eTertiary = dev.eTertiary
  BY HeldIsUnchanged, SeenReleased DEF Receiving

LEMMA ReceiveStartBit1IInv ==
    ASSUME IInv, NEW t, ReceiveStartBit1(t), others' \in BOOLEAN PROVE IInv'
  <1> DEFINE d == Seen
  <1>1. Sound(d) /\ d.out /\ d.ePrimary = "RECEIVE"
    BY EdgeSeen DEF ReceiveStartBit1
  <1>2. CASE Within(t, 3500, 3900)
    BY <1>1, <1>2, ReceivesIInv, RcvType DEF ReceiveStartBit1
  <1>3. CASE ~Within(t, 3500, 3900)
    BY <1>1, <1>3, ResetsIInv DEF ReceiveStartBit1
  <1> QED BY <1>2, <1>3

LEMMA ReceiveStartBit2IInv ==
    ASSUME IInv, NEW t, ReceiveStartBit2(t), others' \in BOOLEAN PROVE IInv'
  <1> DEFINE d == Seen
  <1>1. Sound(d) /\ d.out /\ d.ePrimary = "RECEIVE"
    BY EdgeSeen DEF ReceiveStartBit2
  <1>2. RCV_BIT0 \in 0..24 /\ RCV_BIT0 <= RCV_BIT_EOM
    BY DEF RCV_BIT0, RCV_BIT_EOM
  <1>3. CASE Within(t, 4300, 4700)
    <2>1. Returns([d EXCEPT !.eSecondary = "RCV_DATABIT1", !.eTertiary = RCV_BIT0], Never)
      BY <1>3 DEF ReceiveStartBit2
    <2> HIDE DEF d
    <2> QED BY <1>1, <1>2, <2>1, ReceivesOnIInv, RcvType
  <1>4. CASE ~Within(t, 4300, 4700)
    BY <1>1, <1>4, ResetsIInv DEF ReceiveStartBit2
  <1> QED BY <1>3, <1>4

LEMMA ReceivedBitSound ==
    ASSUME NEW d, Sound(d), NEW bit \in BOOLEAN
    PROVE  LET e == ReceivedBit(d, bit)
           IN  /\ Sound(e) /\ e.out = d.out /\ e.ePrimary = d.ePrimary
               /\ e.eTertiary = d.eTertiary
  <1>1. CASE d.eTertiary = RCV_BIT_EOM
    <2> DEFINE e == [d EXCEPT !.eom = bit]
    <2>1. IsDevice(e) /\ Typed(e) /\ InRange(e)
      BY DEF Sound, IsDevice, Fields, Typed, InRange
    <2>2. e.out = d.out /\ e.ePrimary = d.ePrimary /\ e.eTertiary = d.eTertiary
      BY DEF Sound, IsDevice, Fields
    <2> QED BY <1>1, <2>1, <2>2 DEF ReceivedBit, Sound
  <1>2. CASE d.eTertiary # RCV_BIT_EOM
    <2> DEFINE e == PushReceiveBit(d)
    <2>1. Sound(e)
      BY PushReceiveBitSound
    <2>2. e.out = d.out /\ e.ePrimary = d.ePrimary /\ e.eTertiary = d.eTertiary
      BY DEF PushReceiveBit, Sound, IsDevice, Fields
    <2> QED BY <1>2, <2>1, <2>2 DEF ReceivedBit
  <1> QED BY <1>1, <1>2

LEMMA ReceiveDataBit1IInv ==
    ASSUME IInv, NEW t, ReceiveDataBit1(t), others' \in BOOLEAN PROVE IInv'
  <1> DEFINE d == Seen
             e == ReceivedBit(d, ShortPulse(t))
  <1>1. /\ Sound(d) /\ d.out /\ d.ePrimary = "RECEIVE"
        /\ d.eTertiary <= RCV_BIT_EOM
    BY EdgeSeen DEF ReceiveDataBit1, Counting
  <1>2. CASE ShortPulse(t) \/ LongPulse(t)
    <2>1. ShortPulse(t) \in BOOLEAN
      BY DEF ShortPulse, Within
    <2>2. /\ Sound(e) /\ e.out /\ e.ePrimary = "RECEIVE" /\ e.eTertiary <= RCV_BIT_EOM
      BY <1>1, <2>1, ReceivedBitSound
    <2>3. Returns([e EXCEPT !.eSecondary = "RCV_DATABIT2"], Never)
      BY <1>2 DEF ReceiveDataBit1
    <2> HIDE DEF e
    <2> QED BY <2>2, <2>3, ReceivesIInv, RcvType
  <1>3. CASE ~(ShortPulse(t) \/ LongPulse(t))
    BY <1>1, <1>3, LineErrorIInv DEF ReceiveDataBit1
  <1> QED BY <1>2, <1>3

LEMMA ReceiveDataBit2IInv ==
    ASSUME IInv, NEW t, ReceiveDataBit2(t), others' \in BOOLEAN PROVE IInv'
  <1> DEFINE d == Seen
             n == d.eTertiary + 1
  <1>1. /\ Sound(d) /\ d.out /\ d.ePrimary = "RECEIVE"
        /\ d.eTertiary <= RCV_BIT_EOM /\ d.eTertiary # RCV_BIT_EOM
    BY EdgeSeen DEF ReceiveDataBit2, Counting
  <1>2. n \in 0..24 /\ n <= RCV_BIT_EOM
    BY <1>1 DEF Sound, Typed, RCV_BIT_EOM
  <1>3. CASE BitPeriod(t)
    <2>1. Returns([d EXCEPT !.eSecondary = "RCV_DATABIT1", !.eTertiary = n], Never)
      BY <1>1, <1>3 DEF ReceiveDataBit2, Sound, IsDevice, Fields
    <2> HIDE DEF n, d
    <2> QED BY <1>1, <1>2, <2>1, ReceivesOnIInv, RcvType
  <1>4. CASE ~BitPeriod(t)
    BY <1>1, <1>4, LineErrorIInv DEF ReceiveDataBit2
  <1> QED BY <1>3, <1>4

LEMMA ProcessFrameSound ==
    ASSUME NEW d, Sound(d) PROVE Sound(ProcessFrame(d)) /\ ProcessFrame(d).out = d.out
  <1> DEFINE e == ProcessFrame(d)
  <1>1. IsDevice(e) /\ e.out = d.out
    BY DEF ProcessFrame, ResetReceiveBuffer, Sound, IsDevice, Fields
  <1>2. Typed(e)
    BY DEF ProcessFrame, ResetReceiveBuffer, Sound, IsDevice, Fields, Typed
  <1>3. InRange(e)
    BY DEF ProcessFrame, ResetReceiveBuffer, Sound, IsDevice, Fields, InRange
  <1> QED BY <1>1, <1>2, <1>3 DEF Sound

LEMMA ReceiveAck1IInv ==
    ASSUME IInv, NEW t, ReceiveAck1(t), others' \in BOOLEAN PROVE IInv'
  <1> DEFINE d == Seen
             e == ProcessFrame(d)
  <1>1. Sound(d) /\ d.out /\ d.ePrimary = "RECEIVE"
    BY EdgeSeen DEF ReceiveAck1
  <1>2. Sound(e) /\ e.out
    BY <1>1, ProcessFrameSound
  <1>3. \/ LineError(d) \/ Resets(d) \/ Resets(e)
        \/ Returns([d EXCEPT !.eSecondary = "RCV_ACK2"], Never)
    BY DEF ReceiveAck1
  <1> HIDE DEF d, e
  <1> QED BY <1>1, <1>2, <1>3, LineErrorIInv, ResetsIInv, ReceivesIInv, RcvType

LEMMA ReceiveAck2IInv ==
    ASSUME IInv, NEW t, ReceiveAck2(t), others' \in BOOLEAN PROVE IInv'
  <1> DEFINE d == Seen
  <1>1. Sound(d) /\ d.out /\ d.ePrimary = "RECEIVE"
    BY EdgeSeen DEF ReceiveAck2
  <1>2. RCV_BIT0 \in 0..24 /\ RCV_BIT0 <= RCV_BIT_EOM
    BY DEF RCV_BIT0, RCV_BIT_EOM
  <1>3. CASE BitPeriod(t)
    BY <1>1, <1>2, <1>3, ReceivesOnIInv, RcvType DEF ReceiveAck2
  <1>4. CASE ~BitPeriod(t)
    BY <1>1, <1>4, LineErrorIInv DEF ReceiveAck2
  <1> QED BY <1>3, <1>4

\* Both flags of the addressee in one lemma: CheckAddress touches nothing else.
LEMMA CheckAddressSound ==
    ASSUME NEW d, Sound(d), NEW dest
    PROVE  LET e == CheckAddress(d, dest)
           IN  /\ Sound(e) /\ SameLine(d, e)
               /\ \A f \in Fields \ {"follower", "broadcast"} : e[f] = d[f]
  <1> DEFINE e == CheckAddress(d, dest)
  <1>1. IsDevice(e) /\ SameLine(d, e)
    BY DEF CheckAddress, Sound, SameLine, IsDevice, Fields
  <1>2. \A f \in Fields \ {"follower", "broadcast"} : e[f] = d[f]
    BY DEF CheckAddress, Sound, IsDevice, Fields
  <1>3. e.follower \in BOOLEAN /\ e.broadcast \in BOOLEAN
    BY DEF CheckAddress, Sound, IsDevice, Fields, Typed
  <1> HIDE DEF e
  <1>4. Typed(e)
    BY <1>2, <1>3 DEF Sound, Typed, Fields
  <1>5. InRange(e)
    BY <1>2 DEF Sound, InRange, Fields
  <1> QED BY <1>1, <1>2, <1>4, <1>5 DEF Sound, e

LEMMA ReceiveEndOfBlockIInv ==
    ASSUME IInv, NEW t, NEW dest, ReceiveEndOfBlock(t, dest), others' \in BOOLEAN
    PROVE  IInv'
  <1> DEFINE d == Seen
             g == Step(d, "RCV_ACK1", RCV_BIT_ACK)
             c == CheckAddress(g, dest)
  <1>1. Sound(d) /\ d.out /\ d.ePrimary = "RECEIVE"
    BY EdgeSeen DEF ReceiveEndOfBlock
  <1>2. \/ LineError(d) \/ Resets(c) \/ Returns(c, Never)
        \/ c.follower /\ Returns([Lower(c) EXCEPT !.eSecondary = "RCV_ACK_SENT"],
                                 Deadline("bit", 1500))
    BY DEF ReceiveEndOfBlock, Step
  <1> HIDE DEF d
  <1>3. /\ Sound(g) /\ SameLine(d, g) /\ g.eSecondary = "RCV_ACK1"
        /\ \A f \in Fields \ {"eSecondary", "eTertiary"} : g[f] = d[f]
    <2>1. "RCV_ACK1" \in RcvStates \cup XmitStates /\ RCV_BIT_ACK \in 0..24
      BY RcvType
    <2>2. Stepped(d, "RCV_ACK1", RCV_BIT_ACK)
      BY <1>1, <2>1, StepSound
    <2> QED BY <2>2 DEF Stepped
  <1> HIDE DEF g
  <1>4. /\ Sound(c) /\ SameLine(g, c)
        /\ \A f \in Fields \ {"follower", "broadcast"} : c[f] = g[f]
    BY <1>3, CheckAddressSound
  <1> HIDE DEF c
  <1>5. c.out /\ c.ePrimary = "RECEIVE" /\ c.eSecondary = "RCV_ACK1"
    BY <1>1, <1>3, <1>4 DEF SameLine, Fields
  <1>6. CASE LineError(d)
    BY <1>1, <1>6, LineErrorIInv
  <1>7. CASE Resets(c)
    BY <1>4, <1>5, <1>7, ResetsIInv
  <1>8. CASE Returns(c, Never)
    BY <1>4, <1>5, <1>8, ReleasedIsStable, ReturnsIInv, WakeTypes DEF Counting
  <1>9. CASE c.follower /\ Returns([Lower(c) EXCEPT !.eSecondary = "RCV_ACK_SENT"],
                                   Deadline("bit", 1500))
    <2> DEFINE l == Lower(c)
               e == [l EXCEPT !.eSecondary = "RCV_ACK_SENT"]
               w == Deadline("bit", 1500)
    <2>1. Sound(l)
      BY <1>4, LowerSound
    <2>2. /\ l.ePrimary = "RECEIVE" /\ l.follower = c.follower
          /\ ~l.out => ~MonitorMode /\ ~l.lastLineState
      BY <1>4, <1>5 DEF Lower, Sound, IsDevice, Fields
    <2> HIDE DEF l
    <2>3. /\ Sound(e) /\ SameLine(l, e) /\ e.eSecondary = "RCV_ACK_SENT"
          /\ \A f \in Fields \ {"eSecondary"} : e[f] = l[f]
      BY <2>1, GotoSound, RcvType
    <2>4. Returns(e, w)
      BY <1>9 DEF l
    <2> HIDE DEF e
    <2>5. e.ePrimary = "RECEIVE" /\ e.follower = c.follower
      BY <2>2, <2>3 DEF Fields
    <2>6. ~e.out => ~MonitorMode /\ ~e.lastLineState
      BY <2>2, <2>3 DEF SameLine
    <2>7. Counting(e) /\ Holding(e, w)
      BY <1>9, <2>3, <2>5, <2>6, WakeTypes DEF Counting, Holding, Legitimate
    <2> QED BY <2>3, <2>4, <2>7, ReturnsIInv, WakeTypes DEF Stable
  <1> QED BY <1>2, <1>6, <1>7, <1>8, <1>9

\* Raise lets go of the line, whatever the others do.
LEMMA RaiseReleases ==
    ASSUME NEW d, Sound(d), ~d.out => ~MonitorMode, others \in BOOLEAN
    PROVE  LET e == Raise(d, others)
           IN  /\ Sound(e) /\ e.out
               /\ \A f \in Fields \ {"out", "lastLineState", "lastLineState2", "stamps"} :
                      e[f] = d[f]
  <1> DEFINE e == Raise(d, others)
  <1>1. Sound(e)
    BY RaiseSound
  <1>2. e.out
    BY DEF Raise, Sound, Typed, IsDevice, Fields
  <1>3. \A f \in Fields \ {"out", "lastLineState", "lastLineState2", "stamps"} :
            e[f] = d[f]
    BY DEF Raise, Sound, IsDevice, Fields
  <1> QED BY <1>1, <1>2, <1>3

\* What the timed steps find: the line may still be pulled low.
LEMMA SeenHeld ==
    ASSUME IInv
    PROVE  /\ Sound(Seen) /\ Counting(Seen) /\ (~Seen.out => ~MonitorMode)
           /\ Seen.ePrimary = dev.ePrimary /\ Seen.eSecondary = dev.eSecondary
           /\ Seen.eTertiary = dev.eTertiary
  BY SeenSound DEF IInv, Stable, Holding, Fields

LEMMA ReceiveAckSentIInv ==
    ASSUME IInv, ReceiveAckSent, others' \in BOOLEAN PROVE IInv'
  <1> DEFINE d == Raise(Seen, others)
             f == ProcessFrame(d)
  <1>1. /\ Sound(Seen) /\ (~Seen.out => ~MonitorMode) /\ Seen.ePrimary = "RECEIVE"
        /\ others \in BOOLEAN
    BY SeenHeld DEF ReceiveAckSent, Receiving, IInv
  <1>2. Sound(d) /\ d.out /\ d.ePrimary = "RECEIVE"
    BY <1>1, RaiseReleases DEF Fields
  <1>3. Sound(f) /\ f.out
    BY <1>2, ProcessFrameSound
  <1>4. \/ Resets(f)
        \/ Returns([d EXCEPT !.eSecondary = "RCV_ACK2", !.eTertiary = CEC_E_ACK], Never)
    BY DEF ReceiveAckSent
  <1> HIDE DEF d, f
  <1> QED BY <1>2, <1>3, <1>4, ResetsIInv, ReceivesOnIInv, RcvType

LEMMA ReceiveLineErrorIInv ==
    ASSUME IInv, ReceiveLineError, others' \in BOOLEAN PROVE IInv'
  <1> DEFINE d == Raise(Seen, others)
  <1>1. Sound(Seen) /\ (~Seen.out => ~MonitorMode) /\ others \in BOOLEAN
    BY SeenHeld DEF IInv
  <1>2. Sound(d) /\ d.out
    BY <1>1, RaiseReleases
  <1>3. Resets(d)
    BY DEF ReceiveLineError
  <1> HIDE DEF d
  <1> QED BY <1>2, <1>3, ResetsIInv

LEMMA ReceiveIInv == ASSUME IInv, Receive, others' \in BOOLEAN PROVE IInv'
  BY ReceiveStartBit1IInv, ReceiveStartBit2IInv, ReceiveDataBit1IInv, ReceiveDataBit2IInv,
     ReceiveEndOfBlockIInv, ReceiveAck1IInv, ReceiveAck2IInv, ReceiveAckSentIInv,
     ReceiveLineErrorIInv
  DEF Receive

-----------------------------------------------------------------------------
(* Process, CEC_E_TRANSMIT.                                                *)

\* Pulling the line low, unless in monitor mode.
LEMMA LowerPulls ==
    ASSUME NEW d, Sound(d), ~d.out => ~MonitorMode
    PROVE  LET e == Lower(d)
           IN  /\ Sound(e) /\ (~e.out => ~MonitorMode /\ ~e.lastLineState)
               /\ \A f \in Fields \ {"out", "lastLineState", "lastLineState2", "stamps"} :
                      e[f] = d[f]
  <1> DEFINE e == Lower(d)
  <1>1. Sound(e)
    BY LowerSound
  <1>2. ~e.out => ~MonitorMode /\ ~e.lastLineState
    BY DEF Lower, Sound, IsDevice, Fields
  <1>3. \A f \in Fields \ {"out", "lastLineState", "lastLineState2", "stamps"} :
            e[f] = d[f]
    BY DEF Lower, Sound, IsDevice, Fields
  <1> QED BY <1>1, <1>2, <1>3

\* A device that goes on sending: its bit counter is in range, and if it pulls
\* the line low it has a wake-up time and is in a state that does so.
LEMMA TransmitsIInv ==
    ASSUME NEW e, NEW w \in WakeUpTimes, Sound(e), e.ePrimary = "TRANSMIT",
           e.eSecondary = "XMIT_DATABIT1" => e.eTertiary \in XMIT_BIT0..XMIT_BIT_EOM,
           e.eSecondary = "XMIT_DATABIT2" => e.eTertiary \in XMIT_BIT0..XMIT_BIT_EOM - 1,
           \/ e.out
           \/ /\ ~MonitorMode /\ ~e.lastLineState /\ w # Never
              /\ e.eSecondary \in {"XMIT_STARTBIT1", "XMIT_DATABIT1", "XMIT_ACK2"},
           Returns(e, w), others' \in BOOLEAN
    PROVE  IInv'
  <1>1. Counting(e)
    BY DEF Counting
  <1>2. Holding(e, w)
    BY DEF Holding, Legitimate
  <1> QED BY <1>1, <1>2, ReturnsIInv DEF Stable

LEMMA XmitType ==
    /\ {"IDLE_WAIT", "XMIT_STARTBIT1", "XMIT_STARTBIT2", "XMIT_DATABIT1", "XMIT_DATABIT2",
        "XMIT_ACK", "XMIT_ACK2", "XMIT_ACK3", "XMIT_ACK_TEST"} \subseteq XmitStates
    /\ XMIT_BIT0 \in 0..24 /\ XMIT_BIT0 \in XMIT_BIT0..XMIT_BIT_EOM
  BY DEF XmitStates, XmitAckStates, XMIT_BIT0, XMIT_BIT_EOM

LEMMA IdleWaitEdgeIInv ==
    ASSUME IInv, IdleWaitEdge, others' \in BOOLEAN PROVE IInv'
  <1> DEFINE d == Seen
             e == [d EXCEPT !.ePrimary = "RECEIVE", !.eSecondary = "RCV_STARTBIT1",
                            !.transmitPending = TRUE]
  <1>1. Sound(d) /\ Counting(d) /\ d.out
    BY HeldIsUnchanged, SeenReleased DEF IdleWaitEdge
  <1>2. Returns(d, Never) \/ Returns(e, Never)
    BY DEF IdleWaitEdge
  <1> HIDE DEF d
  <1>3. IsDevice(e)
    BY <1>1 DEF Sound, IsDevice, Fields
  <1>4. Typed(e)
    BY <1>1 DEF Sound, IsDevice, Fields, Typed, RcvStates
  <1>5. InRange(e)
    BY <1>1 DEF Sound, IsDevice, Fields, InRange
  <1>6. Counting(e) /\ e.out
    BY <1>1 DEF Sound, IsDevice, Fields, Counting
  <1> HIDE DEF e
  <1> QED BY <1>1, <1>2, <1>3, <1>4, <1>5, <1>6, ReleasedIsStable, ReturnsIInv, WakeTypes
          DEF Sound

LEMMA CollisionIInv ==
    ASSUME IInv, Collision, others' \in BOOLEAN PROVE IInv'
  <1>1. Sound(Seen) /\ Seen.out /\ Seen.ePrimary = "TRANSMIT"
    BY HeldIsUnchanged, SeenReleased DEF Collision
  <1>2. Returns(Retransmit(Seen), LongPast)
    BY DEF Collision
  <1> QED BY <1>1, <1>2, RetransmitIInv, WakeTypes

LEMMA AckEdgeIInv ==
    ASSUME IInv, AckEdge, others' \in BOOLEAN PROVE IInv'
  <1>1. Sound(Seen) /\ Counting(Seen) /\ Seen.out
    BY HeldIsUnchanged, SeenReleased DEF AckEdge
  <1>2. Returns(Seen, dev.waitTime) /\ dev.waitTime \in WakeUpTimes
    BY DEF AckEdge, IInv, Stable
  <1> QED BY <1>1, <1>2, ReleasedIsStable, ReturnsIInv

\* A timed step in a state that does not pull the line finds it released.
LEMMA TimedSeen ==
    ASSUME IInv, NEW s, Timed(s),
           s \notin {"XMIT_STARTBIT1", "XMIT_DATABIT1", "XMIT_ACK2"}
    PROVE  /\ Sound(Seen) /\ Counting(Seen) /\ Seen.out
           /\ Seen.ePrimary = "TRANSMIT" /\ Seen.eSecondary = s
           /\ Seen.eTertiary = dev.eTertiary
  <1>1. dev.out
    BY ReleasedOutside DEF Timed, Transmitting, Legitimate
  <1> QED BY <1>1, SeenReleased DEF Timed, Transmitting

LEMMA IdleWaitLowIInv ==
    ASSUME IInv, IdleWaitLow, others' \in BOOLEAN PROVE IInv'
  <1>1. Sound(Seen) /\ Counting(Seen) /\ Seen.out
    BY TimedSeen DEF IdleWaitLow
  <1>2. Returns(Seen, Never)
    BY DEF IdleWaitLow
  <1> QED BY <1>1, <1>2, ReleasedIsStable, ReturnsIInv, WakeTypes

LEMMA IdleWaitMoreIInv ==
    ASSUME IInv, IdleWaitMore, others' \in BOOLEAN PROVE IInv'
  <1>1. Sound(Seen) /\ Counting(Seen) /\ Seen.out
    BY TimedSeen DEF IdleWaitMore
  <1>2. NeededIdleTime(dev) \in Nat
    BY DEF NeededIdleTime, IDLE_RETRANSMIT_FRAME, IDLE_NEW_FRAME, IDLE_SUBSEQUENT_FRAME
  <1> DEFINE w == Deadline("change", NeededIdleTime(dev))
  <1>3. Returns(Seen, w)
    BY DEF IdleWaitMore
  <1>4. w \in WakeUpTimes
    BY <1>2, WakeTypes
  <1> HIDE DEF w
  <1> QED BY <1>1, <1>3, <1>4, ReleasedIsStable, ReturnsIInv

LEMMA BeginFrameIInv ==
    ASSUME IInv, BeginFrame, others' \in BOOLEAN PROVE IInv'
  <1> DEFINE l == Lower(Seen)
             e == [l EXCEPT !.amLastTransmittor = TRUE,
                            !.broadcast = (dev.txDest = BROADCAST),
                            !.eSecondary = "XMIT_STARTBIT1"]
             w == Deadline("bit", 3700)
  <1>1. Sound(Seen) /\ Seen.out /\ Seen.ePrimary = "TRANSMIT"
    BY TimedSeen DEF BeginFrame
  <1>2. Returns(e, w)
    BY DEF BeginFrame
  <1>3. /\ Sound(l) /\ (~l.out => ~MonitorMode /\ ~l.lastLineState)
        /\ l.ePrimary = "TRANSMIT"
    BY <1>1, LowerPulls DEF Fields
  <1> HIDE DEF l
  <1>4. IsDevice(e)
    BY <1>3 DEF Sound, IsDevice, Fields
  <1>5. Typed(e)
    BY <1>3 DEF Sound, IsDevice, Fields, Typed, XmitStates
  <1>6. InRange(e)
    BY <1>3 DEF Sound, IsDevice, Fields, InRange
  <1>7. /\ e.ePrimary = "TRANSMIT" /\ e.eSecondary = "XMIT_STARTBIT1"
        /\ e.out = l.out /\ e.lastLineState = l.lastLineState
    BY <1>3 DEF Sound, IsDevice, Fields
  <1>8. l.out \in BOOLEAN
    BY <1>3 DEF Sound, Typed
  <1> HIDE DEF e
  <1>9. w \in WakeUpTimes /\ w # Never
    BY WakeTypes
  <1> HIDE DEF w
  <1> QED BY <1>2, <1>3, <1>4, <1>5, <1>6, <1>7, <1>8, <1>9, TransmitsIInv DEF Sound

\* The end of the low part of a bit: the line is let go of, and the next state
\* is s unless somebody else still holds it.
LEMMA LowPartEndsIInv ==
    ASSUME IInv, dev.ePrimary = "TRANSMIT",
           NEW s \in XmitStates \ {"XMIT_DATABIT1"},
           s = "XMIT_DATABIT2" => dev.eTertiary \in XMIT_BIT0..XMIT_BIT_EOM - 1,
           NEW w \in WakeUpTimes,
           \/ Returns([Raise(Seen, others) EXCEPT !.eSecondary = s], w)
           \/ Returns(Retransmit(Raise(Seen, others)), w),
           others' \in BOOLEAN
    PROVE  IInv'
  <1> DEFINE d == Raise(Seen, others)
             e == [d EXCEPT !.eSecondary = s]
  <1>1. /\ Sound(Seen) /\ (~Seen.out => ~MonitorMode) /\ others \in BOOLEAN
        /\ Seen.ePrimary = "TRANSMIT" /\ Seen.eTertiary = dev.eTertiary
    BY SeenHeld DEF IInv
  <1>2. /\ Sound(d) /\ d.out /\ d.ePrimary = "TRANSMIT" /\ d.eTertiary = dev.eTertiary
    BY <1>1, RaiseReleases DEF Fields
  <1>3. Returns(e, w) \/ Returns(Retransmit(d), w)
    OBVIOUS
  <1> HIDE DEF d
  <1>4. /\ Sound(e) /\ e.out /\ e.ePrimary = "TRANSMIT" /\ e.eSecondary = s
        /\ e.eTertiary = d.eTertiary
    BY <1>2, GotoSound DEF SameLine, Fields
  <1> HIDE DEF e
  <1>5. CASE Returns(e, w)
    BY <1>2, <1>4, <1>5, TransmitsIInv
  <1>6. CASE Returns(Retransmit(d), w)
    BY <1>2, <1>6, RetransmitIInv
  <1> QED BY <1>3, <1>5, <1>6

LEMMA TransmitStartBit1IInv ==
    ASSUME IInv, TransmitStartBit1, others' \in BOOLEAN PROVE IInv'
  <1>1. dev.ePrimary = "TRANSMIT"
    BY DEF TransmitStartBit1, Timed, Transmitting
  <1>2. \/ Returns([Raise(Seen, others) EXCEPT !.eSecondary = "XMIT_STARTBIT2"],
                   Deadline("bit", 4500))
        \/ Returns(Retransmit(Raise(Seen, others)), Never)
    BY DEF TransmitStartBit1
  <1>3. Never \in WakeUpTimes /\ Deadline("bit", 4500) \in WakeUpTimes
    BY WakeTypes
  <1>4. "XMIT_STARTBIT2" \in XmitStates \ {"XMIT_DATABIT1"}
    BY XmitType
  <1> QED BY <1>1, <1>2, <1>3, <1>4, LowPartEndsIInv

LEMMA TransmitDataBit1IInv ==
    ASSUME IInv, TransmitDataBit1, others' \in BOOLEAN PROVE IInv'
  <1> DEFINE s == IF dev.eTertiary = XMIT_BIT_EOM THEN "XMIT_ACK" ELSE "XMIT_DATABIT2"
  <1>1. /\ dev.ePrimary = "TRANSMIT" /\ dev.eSecondary = "XMIT_DATABIT1"
        /\ dev.eTertiary \in XMIT_BIT0..XMIT_BIT_EOM
    BY DEF TransmitDataBit1, Timed, Transmitting, IInv, Stable, Counting
  <1>2. Raise(Seen, others).eTertiary = dev.eTertiary
    <2>1. Sound(Seen) /\ (~Seen.out => ~MonitorMode) /\ others \in BOOLEAN
          /\ Seen.eTertiary = dev.eTertiary
      BY SeenHeld DEF IInv
    <2> QED BY <2>1, RaiseReleases DEF Fields
  <1>3. \/ Returns([Raise(Seen, others) EXCEPT !.eSecondary = s], Deadline("bit", 2400))
        \/ Returns(Retransmit(Raise(Seen, others)), Never)
    BY <1>2 DEF TransmitDataBit1
  <1>4. Never \in WakeUpTimes /\ Deadline("bit", 2400) \in WakeUpTimes
    BY WakeTypes
  <1>5. s \in XmitStates \ {"XMIT_DATABIT1"}
    BY XmitType
  <1>6. s = "XMIT_DATABIT2" => dev.eTertiary \in XMIT_BIT0..XMIT_BIT_EOM - 1
    BY <1>1 DEF XMIT_BIT0, XMIT_BIT_EOM
  <1> HIDE DEF s
  <1> QED BY <1>1, <1>3, <1>4, <1>5, <1>6, LowPartEndsIInv

LEMMA PopTransmitBitFrame ==
    ASSUME NEW d, Sound(d)
    PROVE  LET e == PopTransmitBit(d)
           IN  Sound(e) /\ \A f \in Fields \ {"txBit", "txByte"} : e[f] = d[f]
  <1>1. \A f \in Fields \ {"txBit", "txByte"} : PopTransmitBit(d)[f] = d[f]
    BY DEF PopTransmitBit, Sound, IsDevice, Fields
  <1> QED BY <1>1, PopTransmitBitSound

\* The start of a bit: the line is pulled low, with a time to let go of it.
LEMMA BitBeginsIInv ==
    ASSUME NEW e, Sound(e), e.ePrimary = "TRANSMIT", e.eSecondary = "XMIT_DATABIT1",
           e.eTertiary \in XMIT_BIT0..XMIT_BIT_EOM,
           ~e.out => ~MonitorMode /\ ~e.lastLineState,
           NEW bit, Returns(e, Deadline("bit", LowTime(bit))), others' \in BOOLEAN
    PROVE  IInv'
  <1>1. LowTime(bit) \in Nat
    BY DEF LowTime
  <1> DEFINE w == Deadline("bit", LowTime(bit))
  <1>2. w \in WakeUpTimes /\ w # Never
    BY <1>1, WakeTypes
  <1>3. Returns(e, w)
    OBVIOUS
  <1>4. e.out \in BOOLEAN
    BY DEF Sound, Typed
  <1> HIDE DEF w
  <1> QED BY <1>2, <1>3, <1>4, TransmitsIInv

LEMMA TransmitFirstBitIInv ==
    ASSUME IInv, NEW bit, TransmitFirstBit(bit), others' \in BOOLEAN PROVE IInv'
  <1> DEFINE l == Lower(Seen)
             p == PopTransmitBit(l)
             e == Step(p, "XMIT_DATABIT1", XMIT_BIT0)
  <1>1. Sound(Seen) /\ Seen.out /\ Seen.ePrimary = "TRANSMIT"
    BY TimedSeen DEF TransmitFirstBit
  <1>2. Returns(e, Deadline("bit", LowTime(bit)))
    BY DEF TransmitFirstBit, Step
  <1>3. /\ Sound(l) /\ (~l.out => ~MonitorMode /\ ~l.lastLineState)
        /\ l.ePrimary = "TRANSMIT"
    BY <1>1, LowerPulls DEF Fields
  <1> HIDE DEF l
  <1>4. /\ Sound(p) /\ (~p.out => ~MonitorMode /\ ~p.lastLineState)
        /\ p.ePrimary = "TRANSMIT"
    BY <1>3, PopTransmitBitFrame DEF Fields
  <1> HIDE DEF p
  <1>5. "XMIT_DATABIT1" \in RcvStates \cup XmitStates
    BY XmitType
  <1>6. Stepped(p, "XMIT_DATABIT1", XMIT_BIT0)
    BY <1>4, <1>5, XmitType, StepSound
  <1>7. /\ Sound(e) /\ SameLine(p, e) /\ e.eSecondary = "XMIT_DATABIT1"
        /\ e.eTertiary = XMIT_BIT0 /\ e.ePrimary = "TRANSMIT"
    BY <1>4, <1>6 DEF Stepped, Fields
  <1>8. ~e.out => ~MonitorMode /\ ~e.lastLineState
    BY <1>4, <1>7 DEF SameLine
  <1> HIDE DEF e
  <1> QED BY <1>2, <1>7, <1>8, XmitType, BitBeginsIInv

LEMMA TransmitDataBit2IInv ==
    ASSUME IInv, NEW bit, TransmitDataBit2(bit), others' \in BOOLEAN PROVE IInv'
  <1> DEFINE l == Lower(Seen)
             n == l.eTertiary + 1
             d == Step(l, "XMIT_DATABIT1", n)
             p == PopTransmitBit(d)
  <1>1. /\ Sound(Seen) /\ Seen.out /\ Seen.ePrimary = "TRANSMIT"
        /\ Seen.eTertiary \in XMIT_BIT0..XMIT_BIT_EOM - 1
    BY TimedSeen DEF TransmitDataBit2, Counting
  <1>2. /\ Sound(l) /\ (~l.out => ~MonitorMode /\ ~l.lastLineState)
        /\ l.ePrimary = "TRANSMIT" /\ l.eTertiary \in XMIT_BIT0..XMIT_BIT_EOM - 1
    BY <1>1, LowerPulls DEF Fields
  <1>3. \/ Returns(d, Deadline("bit", LowTime(bit)))
        \/ Returns(p, Deadline("bit", LowTime(bit)))
    <2>1. [l EXCEPT !.eTertiary = @ + 1, !.eSecondary = "XMIT_DATABIT1"] = d
      <3> HIDE DEF l
      <3> QED BY <1>2 DEF Step, Sound, IsDevice, Fields
    <2> QED BY <2>1 DEF TransmitDataBit2
  <1>4. n \in 0..24 /\ n \in XMIT_BIT0..XMIT_BIT_EOM
    BY <1>2 DEF XMIT_BIT0, XMIT_BIT_EOM
  <1> HIDE DEF l, n
  <1>5. Stepped(l, "XMIT_DATABIT1", n)
    <2>1. "XMIT_DATABIT1" \in RcvStates \cup XmitStates
      BY XmitType
    <2> QED BY <1>2, <1>4, <2>1, StepSound
  <1>6. /\ Sound(d) /\ SameLine(l, d) /\ d.eSecondary = "XMIT_DATABIT1"
        /\ d.eTertiary = n /\ d.ePrimary = "TRANSMIT"
    BY <1>2, <1>5 DEF Stepped, Fields
  <1>7. ~d.out => ~MonitorMode /\ ~d.lastLineState
    BY <1>2, <1>6 DEF SameLine
  <1> HIDE DEF d
  <1>8. /\ Sound(p) /\ p.eSecondary = "XMIT_DATABIT1" /\ p.eTertiary = n
        /\ p.ePrimary = "TRANSMIT" /\ (~p.out => ~MonitorMode /\ ~p.lastLineState)
    BY <1>6, <1>7, PopTransmitBitFrame DEF Fields
  <1> HIDE DEF p
  <1>9. CASE Returns(d, Deadline("bit", LowTime(bit)))
    BY <1>4, <1>6, <1>7, <1>9, BitBeginsIInv
  <1>10. CASE Returns(p, Deadline("bit", LowTime(bit)))
    BY <1>4, <1>8, <1>10, BitBeginsIInv
  <1> QED BY <1>3, <1>9, <1>10

LEMMA TransmitAckIInv ==
    ASSUME IInv, TransmitAck, others' \in BOOLEAN PROVE IInv'
  <1> DEFINE l == Lower(Seen)
             e == [l EXCEPT !.eSecondary = "XMIT_ACK2"]
             w == Deadline("bit", 600)
  <1>1. Sound(Seen) /\ Seen.out /\ Seen.ePrimary = "TRANSMIT"
    BY TimedSeen DEF TransmitAck
  <1>2. Returns(e, w)
    BY DEF TransmitAck
  <1>3. /\ Sound(l) /\ (~l.out => ~MonitorMode /\ ~l.lastLineState)
        /\ l.ePrimary = "TRANSMIT"
    BY <1>1, LowerPulls DEF Fields
  <1> HIDE DEF l
  <1>4. /\ Sound(e) /\ SameLine(l, e) /\ e.ePrimary = "TRANSMIT"
        /\ e.eSecondary = "XMIT_ACK2"
    BY <1>3, GotoSound, XmitType DEF Fields
  <1>5. e.out \/ (~MonitorMode /\ ~e.lastLineState)
    BY <1>3, <1>4 DEF SameLine, Sound, Typed
  <1> HIDE DEF e
  <1>6. w \in WakeUpTimes /\ w # Never
    BY WakeTypes
  <1> HIDE DEF w
  <1> QED BY <1>2, <1>4, <1>5, <1>6, TransmitsIInv

LEMMA TransmitAck2IInv ==
    ASSUME IInv, TransmitAck2, others' \in BOOLEAN PROVE IInv'
  <1>1. dev.ePrimary = "TRANSMIT"
    BY DEF TransmitAck2, Timed, Transmitting
  <1>2. Returns([Raise(Seen, others) EXCEPT !.eSecondary = "XMIT_ACK_TEST"],
                Deadline("bit", 1050))
    BY DEF TransmitAck2
  <1>3. Deadline("bit", 1050) \in WakeUpTimes
    BY WakeTypes
  <1>4. "XMIT_ACK_TEST" \in XmitStates \ {"XMIT_DATABIT1"}
    BY XmitType
  <1> QED BY <1>1, <1>2, <1>3, <1>4, LowPartEndsIInv

LEMMA TransmitNotAckedIInv ==
    ASSUME IInv, TransmitNotAcked, others' \in BOOLEAN PROVE IInv'
  <1>1. Sound(Seen) /\ Seen.out /\ Seen.ePrimary = "TRANSMIT"
    BY TimedSeen DEF TransmitNotAcked
  <1>2. \/ Returns(OnTransmitComplete(ResetState(Seen), FALSE), Never)
        \/ Returns(Retransmit(Seen), LongPast)
    BY DEF TransmitNotAcked
  <1> QED BY <1>1, <1>2, CompletesIInv, RetransmitIInv, WakeTypes

LEMMA TransmitAckedIInv ==
    ASSUME IInv, TransmitAcked, others' \in BOOLEAN PROVE IInv'
  <1> DEFINE d == Seen
             e == [d EXCEPT !.eSecondary = "XMIT_ACK3"]
             w == Deadline("bit", 2400)
  <1>1. Sound(d) /\ d.out /\ d.ePrimary = "TRANSMIT"
    BY TimedSeen DEF TransmitAcked
  <1>2. Returns(OnTransmitComplete(ResetState(d), TRUE), Never) \/ Returns(e, w)
    BY DEF TransmitAcked, Returns
  <1> HIDE DEF d
  <1>3. /\ Sound(e) /\ e.out /\ e.ePrimary = "TRANSMIT" /\ e.eSecondary = "XMIT_ACK3"
    BY <1>1, GotoSound, XmitType DEF SameLine, Fields
  <1> HIDE DEF e
  <1>4. w \in WakeUpTimes
    BY WakeTypes
  <1> HIDE DEF w
  <1>5. CASE Returns(e, w)
    BY <1>3, <1>4, <1>5, TransmitsIInv
  <1>6. CASE Returns(OnTransmitComplete(ResetState(d), TRUE), Never)
    BY <1>1, <1>6, CompletesIInv
  <1> QED BY <1>2, <1>5, <1>6

LEMMA TransmitIInv == ASSUME IInv, Transmit, others' \in BOOLEAN PROVE IInv'
  BY IdleWaitEdgeIInv, CollisionIInv, AckEdgeIInv, IdleWaitLowIInv, IdleWaitMoreIInv,
     BeginFrameIInv, TransmitStartBit1IInv, TransmitDataBit1IInv, TransmitFirstBitIInv,
     TransmitDataBit2IInv, TransmitAckIInv, TransmitAck2IInv, TransmitNotAckedIInv,
     TransmitAckedIInv
  DEF Transmit

-----------------------------------------------------------------------------
(* The specification.                                                      *)

LEMMA NextIInv == IInv /\ [Next]_vars => IInv'
  <1> SUFFICES ASSUME IInv, [Next]_vars PROVE IInv'
    OBVIOUS
  <1>1. others \in BOOLEAN
    BY DEF IInv
  <1>2. CASE (Run \/ Process \/ Host) /\ UNCHANGED others
    BY <1>1, <1>2, RunIInv, HostIInv, SpuriousIInv, IdleEdgeIInv, ReceiveIInv, TransmitIInv
    DEF Process
  <1>3. CASE LineMoves
    BY <1>1, <1>3 DEF LineMoves, IInv
  <1>4. CASE UNCHANGED vars
    BY <1>4 DEF vars, IInv
  <1> QED BY <1>2, <1>3, <1>4 DEF Next

\* The object is always well formed and the inductive invariant holds: from
\* Initialize on, whatever Run, Process, the sketch and the other devices do.
THEOREM Inductive == Spec => []IInv
  <1>1. Init => IInv
    BY InitIInv
  <1>2. IInv /\ [Next]_vars => IInv'
    BY NextIInv
  <1> QED BY <1>1, <1>2, PTL DEF Spec

\* The object never leaves its types: the retry counter stays within its limit
\* (ResetTransmit), the transmit cursor within the frame, the address index
\* within its row of the table (ProcessStateMachine), and the bit counter
\* within the enumerators it counts through (Process).
THEOREM TypeCorrect == Spec => []TypeOK
  <1>1. IInv => TypeOK
    BY IInvTypeOK
  <1> QED BY <1>1, Inductive, PTL

\* Process pulls the line low only as the initiator inside a bit, as the
\* addressee in its acknowledge, or as a receiver signalling a line error, and
\* never in monitor mode, whatever the other devices put on the line.
THEOREM HoldsLegitimately == Spec => []HoldIsLegitimate
  <1>1. IInv => HoldIsLegitimate
    BY IInvHold
  <1> QED BY <1>1, Inductive, PTL

\* Whenever Process returns, or Run goes to sleep, with the line pulled low,
\* there is a wake-up time to let go of it: the line cannot be left low by a
\* device that waits for an edge it prevents.
THEOREM HoldsForATime == Spec => []HoldIsTimed
  <1>1. IInv => HoldIsTimed
    BY IInvHold
  <1> QED BY <1>1, Inductive, PTL
=============================================================================
