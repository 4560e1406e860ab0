--------------------------- MODULE CecClockedProofs ---------------------------
(***************************************************************************)
(* A device with a clock is a device of CecEngine, whose handlers find any *)
(* time elapsed and whose wake-up times may have passed or not: what is    *)
(* proved of CecEngine for every line and every host holds with the real   *)
(* clock too.                                                              *)
(***************************************************************************)
EXTENDS CecAddressProofs, CecClocked

-----------------------------------------------------------------------------
(* The invariant: the ages and the times left are numbers, and the bits    *)
(* heard make an address.                                                  *)

Times == Nat \cup {NoTime}

Clocks ==
    /\ sinceBit \in 0..BitAges /\ sinceChange \in 0..ChangeAges
    /\ wake \in Times /\ away \in Times
    /\ heard \in 0..15

ClockedInv == IInv /\ Clocks

-----------------------------------------------------------------------------
(* Every step is a step of CecEngine, or a stutter.                        *)

LEMMA ReceiveAtIsReceive ==
    ASSUME 0..BitAges \subseteq Elapsed, 0..15 \subseteq Destinations, Clocks,
           ReceiveAt(sinceBit)
    PROVE  Receive
  <1>1. sinceBit \in Elapsed /\ heard \in Destinations
    BY DEF Clocks
  <1> QED BY <1>1 DEF ReceiveAt, Receive

LEMMA TransmitNowIsTransmit == ASSUME TransmitNow PROVE Transmit
  BY DEF TransmitNow, TransmitBit, Transmit

LEMMA ProcessIsProcess ==
    ASSUME 0..BitAges \subseteq Elapsed, 0..15 \subseteq Destinations, Clocks, ClockedProcess
    PROVE  Process
  BY ReceiveAtIsReceive, TransmitNowIsTransmit DEF ClockedProcess, Process, Transmit

LEMMA ClockedStep ==
    ASSUME 0..BitAges \subseteq Elapsed, 0..15 \subseteq Destinations, Clocks,
           [ClockedNext]_<<vars, clocks>>
    PROVE  [Next]_vars
  <1>1. CASE ClockedRun /\ UNCHANGED others
    BY <1>1 DEF ClockedRun, Run, Next
  <1>2. CASE ClockedProcess /\ UNCHANGED others
    BY <1>2, ProcessIsProcess DEF Next
  <1>3. CASE Host /\ UNCHANGED others
    BY <1>3 DEF Next
  <1>4. CASE (StaysAway \/ LetsGo \/ \E time \in Nat : Passes(time)) /\ UNCHANGED others
    BY <1>4 DEF StaysAway, LetsGo, Passes, vars
  <1>5. CASE LineMoves
    BY <1>5 DEF Next
  <1>6. CASE UNCHANGED vars
    BY <1>6
  <1> QED BY <1>1, <1>2, <1>3, <1>4, <1>5, <1>6 DEF ClockedNext

-----------------------------------------------------------------------------
(* The invariant holds.                                                    *)

LEMMA TimesType ==
    /\ \A n \in Nat, limit \in Nat : AtMost(n, limit) \in 0..limit
    /\ \A time \in Nat, age \in Nat : Left(time, age) \in Nat
    /\ \A left \in Times, time \in Nat : Rest(left, time) \in Times
    /\ BitAges \in Nat /\ ChangeAges \in Nat
  BY DEF AtMost, Left, Rest, Times, NoTime, BitAges, ChangeAges

LEMMA AgesType ==
    ASSUME Clocks PROVE BitAge \in 0..BitAges /\ ChangeAge \in 0..ChangeAges
  BY DEF Clocks, BitAge, ChangeAge, BitAges, ChangeAges, SettleTime

LEMMA TimeLeftType ==
    ASSUME Clocks, NEW w \in WakeUpTimes PROVE TimeLeft(w) \in Times
  <1>1. w.plus \in Nat /\ w.base \in {"bit", "change", "now", "zero", "never"}
    BY DEF WakeUpTimes
  <1>2. Left(w.plus, BitAge) \in Nat /\ Left(w.plus, ChangeAge) \in Nat
    <2>1. BitAge \in Nat /\ ChangeAge \in Nat
      BY AgesType, TimesType
    <2> QED BY <1>1, <2>1, TimesType
  <1>3. CASE w.base = "never"
    BY <1>3 DEF TimeLeft, Times
  <1>4. CASE w.base = "zero"
    BY <1>4 DEF TimeLeft, Times
  <1>5. CASE w.base = "now"
    <2>1. w.plus + Lowering \in Nat
      BY <1>1 DEF Lowering, SettleTime
    <2> QED BY <1>5, <2>1 DEF TimeLeft, Times
  <1>6. CASE w.base = "bit"
    BY <1>2, <1>6 DEF TimeLeft, Times
  <1>7. CASE w.base = "change"
    BY <1>2, <1>7 DEF TimeLeft, Times
  <1> QED BY <1>1, <1>3, <1>4, <1>5, <1>6, <1>7

LEMMA ClockedRunClocks ==
    ASSUME Clocks, ClockedRun \/ (Host /\ UNCHANGED clocks) PROVE Clocks'
  BY DEF Clocks, ClockedRun, clocks, Times

LEMMA AwayClocks ==
    ASSUME Lateness \subseteq Nat, Clocks, StaysAway \/ LetsGo PROVE Clocks'
  <1>1. away' \in Nat
    <2>1. CASE StaysAway
      BY <2>1 DEF StaysAway
    <2>2. CASE LetsGo
      <3>1. away' = 50
        BY <2>2 DEF LetsGo, SettleTime
      <3> QED BY <3>1
    <2> QED BY <2>1, <2>2
  <1>2. UNCHANGED <<sinceBit, sinceChange, wake, heard>>
    BY DEF StaysAway, LetsGo
  <1> QED BY <1>1, <1>2 DEF Clocks, Times

LEMMA PassesClocks == ASSUME Clocks, NEW time \in Nat, Passes(time) PROVE Clocks'
  <1>1. sinceBit + time \in Nat /\ sinceChange + time \in Nat
    BY DEF Clocks
  <1>2. sinceBit' \in 0..BitAges /\ sinceChange' \in 0..ChangeAges
    BY <1>1, TimesType DEF Passes
  <1>3. wake' \in Times /\ away' \in Times
    BY TimesType DEF Clocks, Passes
  <1> QED BY <1>2, <1>3 DEF Clocks, Passes

LEMMA ProcessClocks ==
    ASSUME IInv', Clocks, ClockedProcess PROVE Clocks'
  <1>1. TimeLeft(dev'.waitTime) \in Times
    BY TimeLeftType DEF IInv, Stable
  <1>2. wake' \in Times
    BY <1>1 DEF ClockedProcess, Clocks
  <1>3. sinceBit' \in 0..BitAges /\ sinceChange' \in 0..ChangeAges
    BY AgesType DEF ClockedProcess
  <1>4. heard' \in 0..15
    <2>1. /\ (2 * heard + 1) % 16 \in 0..15 /\ (2 * heard + 0) % 16 \in 0..15
          /\ heard \in 0..15
      BY DEF Clocks
    <2>2. heard' = 0 \/ heard' = (2 * heard + 1) % 16 \/ heard' = (2 * heard + 0) % 16
          \/ heard' = heard
      BY DEF ClockedProcess, Hears
    <2> QED BY <2>1, <2>2
  <1> QED BY <1>2, <1>3, <1>4 DEF Clocks, ClockedProcess, Times

LEMMA InitClocked == ClockedInit => ClockedInv /\ Init
  <1> SUFFICES ASSUME ClockedInit PROVE ClockedInv /\ Init
    OBVIOUS
  <1>1. Init
    BY DEF ClockedInit, Init
  <1>2. Clocks
    BY DEF ClockedInit, Clocks, Times, BitAges, ChangeAges
  <1> QED BY <1>1, <1>2, InitIInv DEF ClockedInv

LEMMA NextClocked ==
    ASSUME Lateness \subseteq Nat, 0..BitAges \subseteq Elapsed, 0..15 \subseteq Destinations
    PROVE  ClockedInv /\ [ClockedNext]_<<vars, clocks>> => ClockedInv' /\ [Next]_vars
  <1> SUFFICES ASSUME ClockedInv, [ClockedNext]_<<vars, clocks>>
               PROVE  ClockedInv' /\ [Next]_vars
    OBVIOUS
  <1>1. [Next]_vars
    BY ClockedStep DEF ClockedInv
  <1>2. IInv'
    BY <1>1, NextIInv DEF ClockedInv
  <1>3. Clocks
    BY DEF ClockedInv
  <1>4. CASE ClockedRun \/ (Host /\ UNCHANGED clocks)
    BY <1>1, <1>2, <1>3, <1>4, ClockedRunClocks DEF ClockedInv
  <1>5. CASE StaysAway \/ LetsGo
    BY <1>1, <1>2, <1>3, <1>5, AwayClocks DEF ClockedInv
  <1>6. CASE ClockedProcess
    BY <1>1, <1>2, <1>3, <1>6, ProcessClocks DEF ClockedInv
  <1>7. CASE \E time \in Nat : Passes(time)
    BY <1>1, <1>2, <1>3, <1>7, PassesClocks DEF ClockedInv
  <1>8. CASE UNCHANGED clocks
    BY <1>1, <1>2, <1>3, <1>8 DEF ClockedInv, Clocks, clocks
  <1>9. \/ ClockedRun \/ (Host /\ UNCHANGED clocks)
        \/ StaysAway \/ LetsGo
        \/ ClockedProcess
        \/ \E time \in Nat : Passes(time)
        \/ UNCHANGED clocks
    <2>1. CASE ClockedNext
      BY <2>1 DEF ClockedNext
    <2>2. CASE UNCHANGED <<vars, clocks>>
      BY <2>2
    <2> QED BY <2>1, <2>2
  <1> QED BY <1>1, <1>4, <1>5, <1>6, <1>7, <1>8, <1>9

LEMMA ClockedInvTypeOK == ClockedInv => ClockedTypeOK
  BY IInvTypeOK DEF ClockedInv, Clocks, Times, ClockedTypeOK

-----------------------------------------------------------------------------
(* The phase of a reception.                                               *)

\* A call that looks at the line when no acknowledges overlap leaves a receiver
\* in phase; so does everything that is not a call of Process.
LEMMA ClockedPhase ==
    ASSUME 0..BitAges \subseteq Elapsed, 0..15 \subseteq Destinations,
           ClockedInv, InPhase(dev), ~(Looks /\ Overlaps), [ClockedNext]_<<vars, clocks>>
    PROVE  InPhase(dev')
  <1>1. IInv /\ Clocks
    BY DEF ClockedInv
  <1>2. CASE ClockedRun \/ Host
    <2>1. Run \/ Host
      BY <1>2 DEF ClockedRun, Run
    <2> QED BY <1>1, <2>1, RunPhase, HostPhase
  <1>3. CASE ClockedProcess
    <2>1. ~Overlaps
      BY <1>3 DEF ClockedProcess
    <2>2. Process
      BY <1>1, <1>3, ProcessIsProcess
    <2> QED BY <1>1, <2>1, <2>2, ProcessPhase
  <1>4. CASE UNCHANGED dev
    BY <1>4
  <1>5. ClockedRun \/ Host \/ ClockedProcess \/ UNCHANGED dev
    BY DEF ClockedNext, StaysAway, LetsGo, Passes, LineMoves, vars
  <1> QED BY <1>2, <1>3, <1>4, <1>5

-----------------------------------------------------------------------------
(* The theorems.                                                           *)

\* The ages of the time stamps, the wake-up time and the bits heard of a header
\* stay in their ranges, whatever Process stores in _waitTime.
THEOREM ClockedTypeCorrect ==
    ASSUME Lateness \subseteq Nat, 0..BitAges \subseteq Elapsed, 0..15 \subseteq Destinations
    PROVE  ClockedSpec => []ClockedTypeOK
  <1>1. ClockedInit => ClockedInv
    BY InitClocked
  <1>2. ClockedInv /\ [ClockedNext]_<<vars, clocks>> => ClockedInv'
    BY NextClocked
  <1> QED BY <1>1, <1>2, ClockedInvTypeOK, PTL DEF ClockedSpec

\* Run and Process with the times that micros() gives do nothing that CecEngine,
\* which leaves the times open, does not allow.
THEOREM ClockedIsEngine ==
    ASSUME Lateness \subseteq Nat, 0..BitAges \subseteq Elapsed, 0..15 \subseteq Destinations
    PROVE  ClockedSpec => Spec
  <1>1. ClockedInit => ClockedInv /\ Init
    BY InitClocked
  <1>2. ClockedInv /\ [ClockedNext]_<<vars, clocks>> => ClockedInv' /\ [Next]_vars
    BY NextClocked
  <1> QED BY <1>1, <1>2, PTL DEF ClockedSpec, Spec

-----------------------------------------------------------------------------
(* How Process drives the line.  When it pulls the line low it stamps the  *)
(* change and stores a wake-up time no longer than the signal takes; when  *)
(* it finds the line pulled low by this device it lets go.                 *)

\* The wake-up time comes no later than this long after the stamp of Lower.
ComesIn(w, time) ==
    \/ w.base = "bit" /\ w.plus <= time
    \/ w.base = "now" /\ w.plus + SettleTime <= time

Pulled(d) == "change" \in d.stamps /\ ComesIn(d.waitTime, HoldTime(d))

PullsForATime == ~dev'.out => Pulled(dev')

LEMMA ReturnsReleased ==
    ASSUME NEW d, Sound(d), d.out, NEW w, Returns(d, w) PROVE dev'.out
  BY DEF Returns, Sound, IsDevice, Fields

LEMMA ReturnsPulled ==
    ASSUME NEW d, Sound(d), NEW w, Returns(d, w), d.eSecondary # "XMIT_DATABIT1",
           ~d.out => "change" \in d.stamps /\ ComesIn(w, HoldTime(d))
    PROVE  PullsForATime
  <1>1. /\ dev'.out = d.out /\ dev'.stamps = d.stamps /\ dev'.eSecondary = d.eSecondary
        /\ dev'.waitTime = w
    BY DEF Returns, Sound, IsDevice, Fields
  <1>2. HoldTime(dev') = HoldTime(d)
    BY <1>1 DEF HoldTime
  <1> QED BY <1>1, <1>2 DEF PullsForATime, Pulled

\* A reset, a retransmission and the end of a frame leave a released line alone.
LEMMA ResetsReleased == ASSUME NEW d, Sound(d), d.out, Resets(d) PROVE dev'.out
  <1>1. Sound(ResetState(d)) /\ ResetState(d).out
    BY ResetStateSound, ResetStateLine DEF Sound, SameLine
  <1> QED BY <1>1, ReturnsReleased DEF Resets

LEMMA RetransmitReleased ==
    ASSUME NEW d, Sound(d), d.out, NEW w, Returns(Retransmit(d), w) PROVE dev'.out
  <1>1. IsDevice(Retransmit(d)) /\ Retransmit(d).out
    BY RetransmitLine DEF Sound, SameLine
  <1> HIDE DEF Retransmit
  <1> QED BY <1>1 DEF Returns, IsDevice, Fields

LEMMA CompletesReleased ==
    ASSUME NEW d, Sound(d), d.out, NEW success \in BOOLEAN, NEW w,
           Returns(OnTransmitComplete(ResetState(d), success), w)
    PROVE  dev'.out
  <1>1. Sound(ResetState(d)) /\ ResetState(d).out
    BY ResetStateSound, ResetStateLine DEF Sound, SameLine
  <1>2. /\ Sound(OnTransmitComplete(ResetState(d), success))
        /\ OnTransmitComplete(ResetState(d), success).out
    BY <1>1, OnTransmitCompleteSound, OnTransmitCompleteLine DEF Sound, SameLine
  <1> QED BY <1>2, ReturnsReleased

LEMMA LowerStamps ==
    ASSUME NEW d, Sound(d), d.out PROVE ~Lower(d).out => "change" \in Lower(d).stamps
  <1>1. CASE MonitorMode
    BY <1>1 DEF Lower
  <1>2. CASE ~MonitorMode
    <2>1. Lower(d).stamps = d.stamps \cup IF d.lastLineState THEN {"bit", "change"}
                                                            ELSE {"change"}
      BY <1>2 DEF Lower, Sound, IsDevice, Fields
    <2> QED BY <2>1
  <1> QED BY <1>1, <1>2

LEMMA LineErrorPulls ==
    ASSUME NEW d, Sound(d), d.out, LineError(d) PROVE PullsForATime
  <1> DEFINE g == [d EXCEPT !.eSecondary = "RCV_LINEERROR"]
             e == Lower(g)
  <1>1. Sound(g) /\ g.out /\ g.eSecondary = "RCV_LINEERROR"
    BY GotoSound, RcvType DEF SameLine
  <1>2. Resets(d) \/ Returns(e, Deadline("now", 3600))
    BY DEF LineError
  <1> HIDE DEF g
  <1>3. Sound(e) /\ e.eSecondary = "RCV_LINEERROR" /\ (~e.out => "change" \in e.stamps)
    BY <1>1, LowerPulls, LowerStamps DEF Fields
  <1> HIDE DEF e
  <1>4. ComesIn(Deadline("now", 3600), HoldTime(e))
    <2>1. HoldTime(e) = SettleTime + 3600
      BY <1>3 DEF HoldTime
    <2> QED BY <2>1 DEF ComesIn, Deadline, SettleTime
  <1>5. CASE Returns(e, Deadline("now", 3600))
    BY <1>3, <1>4, <1>5, ReturnsPulled
  <1>6. CASE Resets(d)
    BY <1>6, ResetsReleased DEF PullsForATime
  <1> QED BY <1>2, <1>5, <1>6

\* An edge in a reception finds the line released, and only the acknowledge and
\* a line error pull it.
LEMMA EndOfBlockPulls ==
    ASSUME IInv, NEW t, NEW dest, ReceiveEndOfBlock(t, dest) PROVE PullsForATime
  <1> DEFINE d == Seen
             g == Step(d, "RCV_ACK1", RCV_BIT_ACK)
             c == CheckAddress(g, dest)
             l == Lower(c)
             e == [l EXCEPT !.eSecondary = "RCV_ACK_SENT"]
             w == Deadline("bit", 1500)
  <1>1. Sound(d) /\ d.out
    BY EdgeSeen DEF ReceiveEndOfBlock
  <1>2. LineError(d) \/ Resets(c) \/ Returns(e, w) \/ Returns(c, Never)
    BY DEF ReceiveEndOfBlock, Step
  <1> HIDE DEF d
  <1>3. Sound(g) /\ g.out
    <2>1. Stepped(d, "RCV_ACK1", RCV_BIT_ACK)
      BY <1>1, RcvType, StepSound
    <2> QED BY <1>1, <2>1 DEF Stepped, SameLine
  <1> HIDE DEF g
  <1>4. Sound(c) /\ c.out
    BY <1>3, CheckAddressSound DEF SameLine
  <1> HIDE DEF c
  <1>5. Sound(l) /\ (~l.out => "change" \in l.stamps)
    BY <1>4, LowerPulls, LowerStamps
  <1> HIDE DEF l
  <1>6. /\ Sound(e) /\ e.eSecondary = "RCV_ACK_SENT"
        /\ e.out = l.out /\ e.stamps = l.stamps
    BY <1>5, RcvType, GotoSound DEF Fields
  <1> HIDE DEF e
  <1>7. ComesIn(w, HoldTime(e))
    <2>1. HoldTime(e) = 1500
      BY <1>6 DEF HoldTime
    <2> QED BY <2>1 DEF ComesIn, Deadline
  <1> HIDE DEF w
  <1>8. CASE Returns(e, w)
    BY <1>5, <1>6, <1>7, <1>8, ReturnsPulled
  <1>9. CASE Returns(c, Never)
    BY <1>4, <1>9, ReturnsReleased DEF PullsForATime
  <1> QED BY <1>1, <1>2, <1>4, <1>8, <1>9, LineErrorPulls, ResetsReleased DEF PullsForATime

LEMMA DataBitPulls == ASSUME IInv, NEW t, ReceiveDataBit1(t) PROVE PullsForATime
  <1> DEFINE d == Seen
             b == ReceivedBit(d, ShortPulse(t))
             e == [b EXCEPT !.eSecondary = "RCV_DATABIT2"]
  <1>1. Sound(d) /\ d.out
    BY EdgeSeen DEF ReceiveDataBit1
  <1>2. LineError(d) \/ Returns(e, Never)
    BY DEF ReceiveDataBit1
  <1> HIDE DEF d
  <1>3. ShortPulse(t) \in BOOLEAN
    BY DEF ShortPulse, Within
  <1>4. Sound(b) /\ b.out
    BY <1>1, <1>3, ReceivedBitSound
  <1> HIDE DEF b
  <1>5. Sound(e) /\ e.out
    BY <1>4, RcvType, GotoSound DEF SameLine
  <1> HIDE DEF e
  <1> QED BY <1>1, <1>2, <1>5, LineErrorPulls, ReturnsReleased DEF PullsForATime

\* The edges that end a bit, or the reception.
LEMMA EdgePulls ==
    ASSUME IInv, NEW t,
           \/ ReceiveStartBit1(t) \/ ReceiveStartBit2(t) \/ ReceiveDataBit2(t)
           \/ ReceiveAck1(t) \/ ReceiveAck2(t)
    PROVE  PullsForATime
  <1> DEFINE d == Seen
  <1>1. Sound(d) /\ d.out
    BY EdgeSeen DEF ReceiveStartBit1, ReceiveStartBit2, ReceiveDataBit2, ReceiveAck1, ReceiveAck2
  <1>2. \/ LineError(d) \/ Resets(d) \/ Resets(ProcessFrame(d))
        \/ \E s \in RcvStates, n \in 0..24 :
              Returns(Step(d, s, n), Never) \/ Returns([d EXCEPT !.eSecondary = s], Never)
    <2>1. CASE ReceiveStartBit1(t)
      BY <2>1, RcvType DEF ReceiveStartBit1
    <2>2. CASE ReceiveStartBit2(t)
      <3>1. Resets(d) \/ Returns(Step(d, "RCV_DATABIT1", RCV_BIT0), Never)
        BY <2>2 DEF ReceiveStartBit2, Step
      <3> QED BY <3>1, RcvType
    <2>3. CASE ReceiveDataBit2(t)
      <3>1. d.eSecondary = "RCV_DATABIT2" /\ d.ePrimary = "RECEIVE" /\ Counting(d)
        BY <2>3, EdgeSeen DEF ReceiveDataBit2
      <3>2. d.eTertiary \in 0..24 /\ d.eTertiary <= RCV_BIT_EOM
        BY <1>1, <3>1 DEF Counting, Sound, Typed
      <3>3. d.eTertiary + 1 \in 0..24
        BY <3>2 DEF RCV_BIT_EOM
      <3>4. LineError(d) \/ Returns(Step(d, "RCV_DATABIT1", d.eTertiary + 1), Never)
        <4>1. [d EXCEPT !.eSecondary = "RCV_DATABIT1", !.eTertiary = @ + 1]
                = Step(d, "RCV_DATABIT1", d.eTertiary + 1)
          <5> HIDE DEF d
          <5> QED BY <1>1 DEF Step, Sound, IsDevice, Fields
        <4> QED BY <2>3, <4>1 DEF ReceiveDataBit2
      <3> QED BY <3>3, <3>4, RcvType
    <2>4. CASE ReceiveAck1(t)
      BY <2>4, RcvType DEF ReceiveAck1
    <2>5. CASE ReceiveAck2(t)
      BY <2>5, RcvType DEF ReceiveAck2, Step
    <2> QED BY <2>1, <2>2, <2>3, <2>4, <2>5
  <1> HIDE DEF d
  <1>3. ASSUME NEW s \in RcvStates, NEW n \in 0..24,
               Returns(Step(d, s, n), Never) \/ Returns([d EXCEPT !.eSecondary = s], Never)
        PROVE  dev'.out
    <2>1. Sound(Step(d, s, n)) /\ Step(d, s, n).out
      BY <1>1, StepSound DEF Stepped, SameLine
    <2>2. Sound([d EXCEPT !.eSecondary = s]) /\ [d EXCEPT !.eSecondary = s].out
      BY <1>1, GotoSound DEF SameLine
    <2> QED BY <1>3, <2>1, <2>2, ReturnsReleased
  <1>4. Resets(ProcessFrame(d)) => dev'.out
    BY <1>1, ProcessFrameSound, ResetsReleased
  <1> QED BY <1>1, <1>2, <1>3, <1>4, LineErrorPulls, ResetsReleased DEF PullsForATime

\* The end of an acknowledge or of a line error: the line is let go of.
LEMMA HoldOfReceiverEnds ==
    ASSUME IInv, ReceiveAckSent \/ ReceiveLineError PROVE dev'.out
  <1> DEFINE d == Raise(Seen, others)
             e == Step(d, "RCV_ACK2", CEC_E_ACK)
  <1>1. Sound(d) /\ d.out
    <2>1. Sound(Seen) /\ (~Seen.out => ~MonitorMode) /\ others \in BOOLEAN
      BY SeenHeld DEF IInv
    <2> QED BY <2>1, RaiseReleases
  <1>2. Resets(ProcessFrame(d)) \/ Returns(e, Never) \/ Resets(d)
    BY DEF ReceiveAckSent, ReceiveLineError, Step
  <1> HIDE DEF d
  <1>3. Sound(e) /\ e.out
    <2>1. Stepped(d, "RCV_ACK2", CEC_E_ACK)
      BY <1>1, RcvType, StepSound
    <2> QED BY <1>1, <2>1 DEF Stepped, SameLine
  <1> HIDE DEF e
  <1>4. Sound(ProcessFrame(d)) /\ ProcessFrame(d).out
    BY <1>1, ProcessFrameSound
  <1> QED BY <1>1, <1>2, <1>3, <1>4, ResetsReleased, ReturnsReleased

\* The steps of an initiator between its bits.
LEMMA ReleasedTransmit ==
    ASSUME IInv,
           \/ IdleWaitEdge \/ Collision \/ AckEdge \/ IdleWaitLow \/ IdleWaitMore
           \/ TransmitNotAcked \/ TransmitAcked
    PROVE  dev'.out
  <1> DEFINE d == Seen
             r == [d EXCEPT !.ePrimary = "RECEIVE", !.eSecondary = "RCV_STARTBIT1",
                            !.transmitPending = TRUE]
             a == [d EXCEPT !.eSecondary = "XMIT_ACK3"]
  <1>1. Sound(d) /\ d.out
    <2>1. CASE IdleWaitEdge \/ Collision \/ AckEdge
      BY <2>1, HeldIsUnchanged, SeenReleased DEF IdleWaitEdge, Collision, AckEdge
    <2>2. CASE IdleWaitLow \/ IdleWaitMore
      BY <2>2, TimedSeen DEF IdleWaitLow, IdleWaitMore
    <2>3. CASE TransmitNotAcked
      BY <2>3, TimedSeen DEF TransmitNotAcked
    <2>4. CASE TransmitAcked
      BY <2>4, TimedSeen DEF TransmitAcked
    <2> QED BY <2>1, <2>2, <2>3, <2>4
  <1>2. \E w : \/ Returns(d, w) \/ Returns(r, w) \/ Returns(a, w) \/ Returns(Retransmit(d), w)
               \/ Returns(OnTransmitComplete(ResetState(d), TRUE), w)
               \/ Returns(OnTransmitComplete(ResetState(d), FALSE), w)
    <2>1. CASE IdleWaitEdge
      <3>1. Returns(d, Never) \/ Returns(r, Never)
        BY <2>1 DEF IdleWaitEdge
      <3> QED BY <3>1
    <2>2. CASE Collision
      <3>1. Returns(Retransmit(d), LongPast)
        BY <2>2 DEF Collision
      <3> QED BY <3>1
    <2>3. CASE AckEdge \/ IdleWaitLow \/ IdleWaitMore
      <3>1. \/ Returns(d, dev.waitTime) \/ Returns(d, Never)
            \/ Returns(d, Deadline("change", NeededIdleTime(dev)))
        BY <2>3 DEF AckEdge, IdleWaitLow, IdleWaitMore
      <3> QED BY <3>1
    <2>4. CASE TransmitNotAcked
      <3>1. \/ Returns(OnTransmitComplete(ResetState(d), FALSE), Never)
            \/ Returns(Retransmit(d), LongPast)
        BY <2>4 DEF TransmitNotAcked
      <3> QED BY <3>1
    <2>5. CASE TransmitAcked
      <3> DEFINE late == Deadline("bit", 2400)
      <3>1. Returns(OnTransmitComplete(ResetState(d), TRUE), Never) \/ Returns(a, late)
        BY <2>5 DEF TransmitAcked, Returns
      <3> HIDE DEF d, a, late
      <3> QED BY <3>1
    <2> QED BY <2>1, <2>2, <2>3, <2>4, <2>5
  <1> HIDE DEF d
  <1>3. IsDevice(r) /\ r.out /\ IsDevice(a) /\ a.out
    BY <1>1 DEF Sound, IsDevice, Fields
  <1>4. \A e, w : IsDevice(e) /\ e.out /\ Returns(e, w) => dev'.out
    BY DEF Returns, IsDevice, Fields
  <1> HIDE DEF r, a
  <1> QED BY <1>1, <1>2, <1>3, <1>4, RetransmitReleased, CompletesReleased DEF Sound

\* The low part of a bit ends: the line is let go of.
LEMMA LowPartReleased ==
    ASSUME IInv, TransmitStartBit1 \/ TransmitDataBit1 \/ TransmitAck2 PROVE dev'.out
  <1> DEFINE d == Raise(Seen, others)
  <1>1. Sound(d) /\ d.out
    <2>1. Sound(Seen) /\ (~Seen.out => ~MonitorMode) /\ others \in BOOLEAN
      BY SeenHeld DEF IInv
    <2> QED BY <2>1, RaiseReleases
  <1>2. \E w, s : Returns([d EXCEPT !.eSecondary = s], w) \/ Returns(Retransmit(d), w)
    <2>1. CASE TransmitStartBit1
      <3> DEFINE late == Deadline("bit", 4500)
      <3>1. \/ Returns([d EXCEPT !.eSecondary = "XMIT_STARTBIT2"], late)
            \/ Returns(Retransmit(d), Never)
        BY <2>1 DEF TransmitStartBit1
      <3> HIDE DEF d, late
      <3> QED BY <3>1
    <2>2. CASE TransmitDataBit1
      <3> DEFINE late == Deadline("bit", 2400)
      <3>1. \/ Returns([d EXCEPT !.eSecondary = "XMIT_ACK"], late)
            \/ Returns([d EXCEPT !.eSecondary = "XMIT_DATABIT2"], late)
            \/ Returns(Retransmit(d), Never)
        BY <2>2 DEF TransmitDataBit1
      <3> HIDE DEF d, late
      <3> QED BY <3>1
    <2>3. CASE TransmitAck2
      <3> DEFINE late == Deadline("bit", 1050)
      <3>1. Returns([d EXCEPT !.eSecondary = "XMIT_ACK_TEST"], late)
        BY <2>3 DEF TransmitAck2
      <3> HIDE DEF d, late
      <3> QED BY <3>1
    <2> QED BY <2>1, <2>2, <2>3
  <1> HIDE DEF d
  <1>3. \A s : IsDevice([d EXCEPT !.eSecondary = s]) /\ [d EXCEPT !.eSecondary = s].out
    BY <1>1 DEF Sound, IsDevice, Fields
  <1>4. \A e, w : IsDevice(e) /\ e.out /\ Returns(e, w) => dev'.out
    BY DEF Returns, IsDevice, Fields
  <1> QED BY <1>1, <1>2, <1>3, <1>4, RetransmitReleased

\* The low part of a bit begins, with the time after which it ends.
LEMMA SignalPulls ==
    ASSUME IInv, BeginFrame \/ TransmitAck PROVE PullsForATime
  <1> DEFINE l == Lower(Seen)
             b == [l EXCEPT !.amLastTransmittor = TRUE,
                            !.broadcast = (dev.txDest = BROADCAST),
                            !.eSecondary = "XMIT_STARTBIT1"]
             a == [l EXCEPT !.eSecondary = "XMIT_ACK2"]
  <1>1. Sound(Seen) /\ Seen.out
    BY TimedSeen DEF BeginFrame, TransmitAck
  <1>2. Returns(b, Deadline("bit", 3700)) \/ Returns(a, Deadline("bit", 600))
    BY DEF BeginFrame, TransmitAck
  <1>3. Sound(l) /\ (~l.out => "change" \in l.stamps)
    BY <1>1, LowerPulls, LowerStamps
  <1> HIDE DEF l
  <1>4. /\ IsDevice(b) /\ b.eSecondary = "XMIT_STARTBIT1" /\ b.out = l.out
        /\ b.stamps = l.stamps
        /\ IsDevice(a) /\ a.eSecondary = "XMIT_ACK2" /\ a.out = l.out /\ a.stamps = l.stamps
    BY <1>3 DEF Sound, IsDevice, Fields
  <1> HIDE DEF a, b
  <1>5. HoldTime(b) = 3700 /\ HoldTime(a) = 600
    BY <1>4 DEF HoldTime
  <1>6. \A e, w : IsDevice(e) /\ Returns(e, w) =>
            /\ dev'.out = e.out /\ dev'.stamps = e.stamps /\ dev'.eSecondary = e.eSecondary
            /\ dev'.waitTime = w
    BY DEF Returns, IsDevice, Fields
  <1>7. \A e : dev'.eSecondary = e.eSecondary /\ e.eSecondary # "XMIT_DATABIT1" =>
            HoldTime(dev') = HoldTime(e)
    BY DEF HoldTime
  <1>8. CASE Returns(b, Deadline("bit", 3700))
    <2>1. dev'.waitTime = Deadline("bit", 3700) /\ HoldTime(dev') = 3700
      BY <1>4, <1>5, <1>6, <1>7, <1>8
    <2>2. ~dev'.out => "change" \in dev'.stamps
      BY <1>3, <1>4, <1>6, <1>8
    <2> QED BY <2>1, <2>2 DEF PullsForATime, Pulled, ComesIn, Deadline
  <1>9. CASE Returns(a, Deadline("bit", 600))
    <2>1. dev'.waitTime = Deadline("bit", 600) /\ HoldTime(dev') = 600
      BY <1>4, <1>5, <1>6, <1>7, <1>9
    <2>2. ~dev'.out => "change" \in dev'.stamps
      BY <1>3, <1>4, <1>6, <1>9
    <2> QED BY <2>1, <2>2 DEF PullsForATime, Pulled, ComesIn, Deadline
  <1> QED BY <1>2, <1>8, <1>9

\* A bit of the header, or the EOM bit, takes the time of its value.
LEMMA HeaderSent ==
    ASSUME Tx(dev), dev.ePrimary = "TRANSMIT", NEW n, NEW p,
           Sends("XMIT_DATABIT1", n, p)
    PROVE  /\ \A b : HeaderBitAt(dev', b) = HeaderBitAt(dev, b)
           /\ RemainingTransmitBytes(dev') = dev.txCount - p.txByte
           /\ dev'.eSecondary = "XMIT_DATABIT1" /\ dev'.eTertiary = n
           /\ dev'.txByte = p.txByte
  <1>1. /\ dev'.eSecondary = "XMIT_DATABIT1" /\ dev'.eTertiary = n
        /\ dev'.txByte = p.txByte /\ dev'.txCount = dev.txCount
    BY SendsTx
  <1>2. /\ dev'.txDest = dev.txDest /\ dev'.primaryState = dev.primaryState
        /\ dev'.logicalAddress = dev.logicalAddress
    BY DEF Sends, Agrees, Fields, SentFields, LineFields
  <1> QED BY <1>1, <1>2 DEF HeaderBitAt, Initiator, RemainingTransmitBytes

LEMMA FirstBitIsSent ==
    ASSUME IInv, Tx(dev), NEW bit, TransmitFirstBit(bit),
           dev.txByte = 0 => bit = HeaderBit(dev),
           dev'.waitTime = Deadline("bit", LowTime(bit)), SendsOne(dev')
    PROVE  LowTime(bit) = 600
  <1> DEFINE p == PopTransmitBit(dev)
  <1>1. dev.ePrimary = "TRANSMIT" /\ Sound(dev) /\ dev.txByte \in Nat
        /\ dev.txByte < dev.txCount /\ dev.txBit = 7
    BY SizeAssumption
    DEF Tx, Sending, Queued, TransmitFirstBit, Timed, Transmitting, XmitAckStates, IInv, Stable,
        Sound, Typed
  <1>2. p.txByte = dev.txByte
    BY <1>1, PopAdvances
  <1>3. Sends("XMIT_DATABIT1", XMIT_BIT0, p)
    BY FirstBitSends
  <1> HIDE DEF p
  <1>4. /\ \A b : HeaderBitAt(dev', b) = HeaderBitAt(dev, b)
        /\ dev'.eTertiary = 12 /\ dev'.txByte = dev.txByte
    BY <1>1, <1>2, <1>3, HeaderSent DEF XMIT_BIT0
  <1>5. CASE dev.txByte = 0
    <2>1. HeaderBitAt(dev', 7) = 1
      BY <1>4, <1>5 DEF SendsOne, XMIT_BIT_EOM
    <2>2. bit = 1
      BY <1>1, <1>4, <1>5, <2>1 DEF HeaderBit
    <2> QED BY <2>2 DEF LowTime
  <1>6. CASE dev.txByte # 0
    <2>1. dev'.waitTime = Deadline("bit", 600)
      BY <1>4, <1>6 DEF SendsOne, XMIT_BIT_EOM
    <2> QED BY <2>1 DEF Deadline
  <1> QED BY <1>5, <1>6

LEMMA NextBitIsSent ==
    ASSUME IInv, Tx(dev), NEW bit, TransmitDataBit2(bit),
           dev.txByte = 0 => bit = HeaderBit(dev),
           dev'.waitTime = Deadline("bit", LowTime(bit)), SendsOne(dev')
    PROVE  LowTime(bit) = 600
  <1> DEFINE n == dev.eTertiary + 1
             p == IF n = XMIT_BIT_EOM THEN dev ELSE PopTransmitBit(dev)
  <1>1. dev.ePrimary = "TRANSMIT" /\ dev.eSecondary = "XMIT_DATABIT2" /\ Sending(dev)
        /\ Sound(dev) /\ dev.eTertiary \in 12..19
        /\ dev.txByte \in Nat /\ dev.txBit \in 0..7 /\ dev.txCount \in Nat
    BY SizeAssumption
    DEF Tx, TransmitDataBit2, Timed, Transmitting, IInv, Stable, Sound, Typed, Counting,
        XMIT_BIT0, XMIT_BIT_EOM
  <1>2. Sends("XMIT_DATABIT1", n, p)
    BY NextBitSends
  <1>3. CASE dev.eTertiary = 19
    <2>1. NextBit([Lower(Seen) EXCEPT !.eTertiary = @ + 1, !.eSecondary = "XMIT_DATABIT1"], bit)
      BY DEF TransmitDataBit2
    <2> DEFINE l == Lower(Seen)
               d == [l EXCEPT !.eTertiary = @ + 1, !.eSecondary = "XMIT_DATABIT1"]
    <2>2. Sound(l) /\ Agrees(dev, l, Fields \ LineFields)
      BY RaisedSeen
    <2>3. NextBit(d, bit)
      BY <2>1
    <2> HIDE DEF l
    <2>4. d.eTertiary = 20 /\ d.txCount = dev.txCount /\ d.txByte = dev.txByte
      BY <1>3, <2>2 DEF Agrees, LineFields, Sound, IsDevice, Fields
    <2> HIDE DEF d
    <2>5. p = dev
      BY <1>3 DEF XMIT_BIT_EOM
    <2> HIDE DEF p
    <2>6. dev'.eTertiary = 20 /\ RemainingTransmitBytes(dev') = dev.txCount - dev.txByte
      BY <1>1, <1>2, <1>3, <2>5, HeaderSent
    <2>7. dev.txCount - dev.txByte = 0
      BY <2>6 DEF SendsOne, XMIT_BIT_EOM
    <2>8. bit = 1
      BY <2>3, <2>4, <2>7 DEF NextBit, RemainingTransmitBytes, XMIT_BIT_EOM
    <2> QED BY <2>8 DEF LowTime
  <1>4. CASE dev.eTertiary # 19
    <2>1. p = PopTransmitBit(dev)
      BY <1>1, <1>4 DEF XMIT_BIT_EOM
    <2>2. dev.txBit = 18 - dev.eTertiary /\ dev.txByte < dev.txCount
      BY <1>1, <1>4 DEF Sending, XMIT_BIT_EOM
    <2> HIDE DEF p
    <2>3. p.txByte = (IF dev.txBit = 0 THEN dev.txByte + 1 ELSE dev.txByte)
      BY <1>1, <2>1, <2>2, PopAdvances
    <2>4. /\ \A b : HeaderBitAt(dev', b) = HeaderBitAt(dev, b)
          /\ dev'.eTertiary = n /\ dev'.txByte = p.txByte
      BY <1>1, <1>2, HeaderSent
    <2>5. n \in 13..19 /\ XMIT_BIT_EOM - 1 - n = dev.txBit
      BY <1>1, <1>4, <2>2 DEF XMIT_BIT_EOM
    <2>6. CASE dev.txByte = 0
      <3>1. dev'.txByte = 0 \/ (dev'.txByte = 1 /\ dev'.eTertiary = XMIT_BIT_EOM - 1)
        BY <1>1, <2>2, <2>3, <2>4, <2>6 DEF XMIT_BIT_EOM
      <3>2. HeaderBitAt(dev', XMIT_BIT_EOM - 1 - dev'.eTertiary) = 1
        BY <2>4, <2>5, <3>1 DEF SendsOne, XMIT_BIT_EOM
      <3>3. bit = 1
        BY <2>4, <2>5, <2>6, <3>2 DEF HeaderBit
      <3> QED BY <3>3 DEF LowTime
    <2>7. CASE dev.txByte # 0
      <3>1. ~(dev'.txByte = 0 \/ (dev'.txByte = 1 /\ dev'.eTertiary = XMIT_BIT_EOM - 1))
        BY <1>1, <2>2, <2>3, <2>4, <2>7 DEF XMIT_BIT_EOM
      <3>2. dev'.waitTime = Deadline("bit", 600)
        BY <2>4, <2>5, <3>1 DEF SendsOne, XMIT_BIT_EOM
      <3> QED BY <3>2 DEF Deadline
    <2> QED BY <2>6, <2>7
  <1> QED BY <1>3, <1>4

LEMMA BitPulls ==
    ASSUME IInv, Tx(dev), NEW bit, TransmitBit(bit)
    PROVE  PullsForATime
  <1> DEFINE l == Lower(Seen)
             p == PopTransmitBit(l)
             n == l.eTertiary + 1
             f == [p EXCEPT !.eSecondary = "XMIT_DATABIT1", !.eTertiary = XMIT_BIT0]
             d == [l EXCEPT !.eTertiary = n, !.eSecondary = "XMIT_DATABIT1"]
             w == Deadline("bit", LowTime(bit))
             Bit(e) == /\ Sound(e) /\ e.eSecondary = "XMIT_DATABIT1"
                       /\ (~e.out => "change" \in e.stamps)
             Sent == /\ dev'.eSecondary = "XMIT_DATABIT1" /\ dev'.waitTime = w
                     /\ (~dev'.out => "change" \in dev'.stamps)
  <1>1. Sound(Seen) /\ Seen.out /\ Counting(Seen)
    BY TimedSeen DEF TransmitBit, TransmitFirstBit, TransmitDataBit2
  <1>2. Sound(l) /\ (~l.out => "change" \in l.stamps)
    BY <1>1, LowerPulls, LowerStamps
  <1>3. ASSUME NEW e, Bit(e), Returns(e, w) PROVE Sent
    <2> HIDE DEF w
    <2> QED BY <1>3 DEF Returns, Sound, IsDevice, Fields
  <1>4. ASSUME TransmitFirstBit(bit) PROVE Sent
    <2>1. Returns(f, w)
      BY <1>4 DEF TransmitFirstBit
    <2> HIDE DEF l, w
    <2>2. Sound(p) /\ (~p.out => "change" \in p.stamps)
      BY <1>2, PopTransmitBitFrame DEF Fields
    <2> HIDE DEF p
    <2>3. Stepped(p, "XMIT_DATABIT1", XMIT_BIT0)
      BY <2>2, XmitType, StepSound
    <2>4. Bit(f)
      BY <2>2, <2>3 DEF Stepped, Step, Fields
    <2> HIDE DEF f, Bit, Sent
    <2> QED BY <1>3, <2>1, <2>4
  <1>5. ASSUME TransmitDataBit2(bit) PROVE Sent
    <2>1. Seen.ePrimary = "TRANSMIT" /\ Seen.eSecondary = "XMIT_DATABIT2"
      BY <1>5, TimedSeen DEF TransmitDataBit2
    <2>2. n \in 0..24
      <3>1. l.eTertiary = Seen.eTertiary
        BY <1>1, LowerPulls DEF Fields
      <3>2. Seen.eTertiary \in XMIT_BIT0..XMIT_BIT_EOM - 1
        BY <1>1, <2>1 DEF Counting
      <3> QED BY <3>1, <3>2 DEF XMIT_BIT0, XMIT_BIT_EOM
    <2>3. Returns(d, w) \/ Returns(PopTransmitBit(d), w)
      <3>1. [l EXCEPT !.eTertiary = @ + 1, !.eSecondary = "XMIT_DATABIT1"] = d
        <4> HIDE DEF l
        <4> QED BY <1>2 DEF Sound, IsDevice, Fields
      <3> QED BY <1>5, <3>1 DEF TransmitDataBit2
    <2> HIDE DEF l, n, w
    <2>4. Stepped(l, "XMIT_DATABIT1", n)
      BY <1>2, <2>2, XmitType, StepSound
    <2>5. Bit(d)
      <3>1. d = Step(l, "XMIT_DATABIT1", n)
        BY <1>2 DEF Step, Sound, IsDevice, Fields
      <3> HIDE DEF d
      <3> QED BY <1>2, <2>4, <3>1 DEF Stepped, Fields
    <2> HIDE DEF d
    <2>6. Bit(PopTransmitBit(d))
      BY <2>5, PopTransmitBitFrame DEF Fields
    <2> HIDE DEF Bit, Sent
    <2> QED BY <1>3, <2>3, <2>5, <2>6
  <1>6. Sent
    BY <1>4, <1>5 DEF TransmitBit
  <1>7. SendsOne(dev') => LowTime(bit) = 600
    BY <1>6, FirstBitIsSent, NextBitIsSent DEF TransmitBit
  <1>8. LowTime(bit) <= HoldTime(dev')
    <2>1. HoldTime(dev') = IF SendsOne(dev') THEN 600 ELSE 1500
      BY <1>6 DEF HoldTime
    <2>2. LowTime(bit) \in {600, 1500}
      BY DEF LowTime
    <2> QED BY <1>7, <2>1, <2>2
  <1>9. ComesIn(w, HoldTime(dev'))
    BY <1>8 DEF ComesIn, Deadline
  <1> QED BY <1>6, <1>9 DEF PullsForATime, Pulled

LEMMA ProcessPulls ==
    ASSUME 0..BitAges \subseteq Elapsed, 0..15 \subseteq Destinations, IInv, Clocks, Tx(dev),
           ClockedProcess
    PROVE  PullsForATime
  <1>1. CASE Spurious \/ IdleEdge
    <2> DEFINE d == Seen
               r == [d EXCEPT !.ePrimary = "RECEIVE", !.eSecondary = "RCV_STARTBIT1",
                              !.follower = FALSE, !.broadcast = FALSE,
                              !.amLastTransmittor = FALSE]
    <2>1. dev.out
      BY <1>1, HeldIsUnchanged, ReleasedOutside DEF Spurious, IdleEdge, Legitimate, RcvTimed
    <2>2. Sound(d) /\ d.out
      BY <2>1, SeenReleased
    <2>3. Returns(d, Never) \/ Returns(r, Never)
      BY <1>1 DEF Spurious, IdleEdge, Seen
    <2> HIDE DEF d
    <2>4. IsDevice(r) /\ r.out /\ IsDevice(d) /\ d.out
      BY <2>2 DEF Sound, IsDevice, Fields
    <2> HIDE DEF r
    <2> QED BY <2>3, <2>4 DEF Returns, IsDevice, Fields, PullsForATime
  <1>2. CASE Receive
    <2>1. ASSUME NEW t \in Elapsed,
                 \/ ReceiveStartBit1(t) \/ ReceiveStartBit2(t)
                 \/ ReceiveDataBit1(t) \/ ReceiveDataBit2(t)
                 \/ \E dest \in Destinations : ReceiveEndOfBlock(t, dest)
                 \/ ReceiveAck1(t) \/ ReceiveAck2(t)
          PROVE  PullsForATime
      BY <2>1, EndOfBlockPulls, DataBitPulls, EdgePulls
    <2> QED BY <1>2, <2>1, HoldOfReceiverEnds DEF Receive, PullsForATime
  <1>3. CASE TransmitNow \/ AckEdge
    BY <1>3, ReleasedTransmit, LowPartReleased, SignalPulls, BitPulls
    DEF TransmitNow, PullsForATime
  <1>4. ReceiveAt(sinceBit) => Receive
    BY ReceiveAtIsReceive
  <1> QED BY <1>1, <1>2, <1>3, <1>4 DEF ClockedProcess

LEMMA ProcessReleases == ASSUME IInv, Process, ~dev.out PROVE dev'.out
  <1>1. ~Changed /\ Legitimate(dev)
    BY HeldIsUnchanged DEF IInv, Stable, Holding
  <1>2. ~Spurious /\ ~IdleEdge
    BY <1>1 DEF Spurious, IdleEdge, Legitimate, RcvTimed
  <1>3. Receive => ReceiveAckSent \/ ReceiveLineError
    BY <1>1 DEF Receive, ReceiveStartBit1, ReceiveStartBit2, ReceiveDataBit1, ReceiveDataBit2,
                ReceiveEndOfBlock, ReceiveAck1, ReceiveAck2
  <1>4. Transmit => TransmitStartBit1 \/ TransmitDataBit1 \/ TransmitAck2
    BY <1>1 DEF Transmit, Legitimate, IdleWaitEdge, Collision, AckEdge, IdleWaitLow,
                IdleWaitMore, BeginFrame, TransmitFirstBit, TransmitDataBit2, TransmitAck,
                TransmitNotAcked, TransmitAcked, Timed, Transmitting
  <1> QED BY <1>2, <1>3, <1>4, HoldOfReceiverEnds, LowPartReleased DEF Process

-----------------------------------------------------------------------------
(* While the line is pulled low, time runs against the wake-up time: the   *)
(* age of the pull and the time left make up the time it is meant to take, *)
(* unless loop() is away when it is over.                                  *)

HoldClock ==
    ~dev.out =>
        /\ wake \in Nat
        /\ wake > 0 => sinceChange + wake <= HoldTime(dev)
        /\ call = "none" /\ away = NoTime => sinceChange <= HoldTime(dev)
        /\ call = "none" /\ away # NoTime =>
              \E late \in Lateness \cup {0} : sinceChange + away <= HoldTime(dev) + late
        /\ call # "none" /\ away = NoTime =>
              \E late \in Lateness \cup {0} : sinceChange <= HoldTime(dev) + late

LEMMA HoldTimeType == \A d : HoldTime(d) \in Nat
  BY DEF HoldTime, SettleTime

LEMMA HoldClockEnds ==
    ASSUME Lateness \subseteq Nat, Clocks, HoldClock PROVE HoldEndsInTime
  <1> SUFFICES ASSUME ~pin
               PROVE  \E late \in Lateness \cup {0} : sinceChange <= HoldTime(dev) + late
    BY DEF HoldEndsInTime
  <1>1. ~dev.out /\ (call = "none" \/ away = NoTime)
    BY DEF pin
  <1>2. sinceChange \in Nat /\ (away # NoTime => away \in Nat) /\ HoldTime(dev) \in Nat
    BY HoldTimeType, TimesType DEF Clocks, Times
  <1>3. CASE call = "none" /\ away = NoTime
    BY <1>1, <1>2, <1>3 DEF HoldClock
  <1>4. CASE call = "none" /\ away # NoTime
    <2>1. PICK late \in Lateness \cup {0} : sinceChange + away <= HoldTime(dev) + late
      BY <1>1, <1>4 DEF HoldClock
    <2>2. late \in Nat
      OBVIOUS
    <2>3. sinceChange <= HoldTime(dev) + late
      BY <1>2, <1>4, <2>1, <2>2
    <2> QED BY <2>3
  <1>5. CASE call # "none" /\ away = NoTime
    BY <1>1, <1>5 DEF HoldClock
  <1> QED BY <1>1, <1>3, <1>4, <1>5

\* Queueing a frame behind a state that drives the line changes nothing of it.
Drives(d, e) ==
    /\ IsDevice(e)
    /\ e.out = d.out /\ e.ePrimary = d.ePrimary /\ e.eSecondary = d.eSecondary

LEMMA QueueDrives ==
    ASSUME NEW d, IsDevice(d), d.ePrimary # "IDLE"
    PROVE  /\ Drives(d, Pump(d))
           /\ \A dest, count : Drives(d, TransmitFrame(d, dest, count))
  <1>1. \A dest : Drives(d, PutHeader(d, dest))
    BY ZenonT(60) DEF PutHeader, TransmitPartial, ClearTransmitBuffer, Drives, IsDevice, Fields
  <1>2. \A e : Drives(d, e) => Drives(d, OnTransmitBegin(e))
    BY ZenonT(60) DEF OnTransmitBegin, Drives, IsDevice, Fields
  <1>3. ASSUME NEW e, NEW count, Drives(d, e) PROVE Drives(d, TransmitPartial(e, count))
    BY <1>3 DEF TransmitPartial, Drives, IsDevice, Fields
  <1>4. Drives(d, Poll(d))
    <2> DEFINE b == OnTransmitBegin(PutHeader(d, Candidate(d.tertiaryState)))
    <2>1. Drives(d, b)
      BY <1>1, <1>2
    <2> HIDE DEF b
    <2>2. Drives(d, [b EXCEPT !.secondaryState = "CEC_RCV_POLLING_MESSAGE"])
      BY <2>1 DEF Drives, IsDevice, Fields
    <2> QED BY <2>2 DEF Poll, b
  <1>5. Drives(d, d) /\ Drives(d, [d EXCEPT !.primaryState = "CEC_IDLE"])
    BY DEF Drives, IsDevice, Fields
  <1>6. Drives(d, Pump(d))
    BY <1>4, <1>5 DEF Pump
  <1>7. \A dest, count : Drives(d, TransmitFrame(d, dest, count))
    BY <1>1, <1>2, <1>3 DEF TransmitFrame
  <1> QED BY <1>6, <1>7

LEMMA HeldKeeps ==
    ASSUME IInv, ~dev.out, ClockedRun \/ Host
    PROVE  ~dev'.out /\ dev'.eSecondary = dev.eSecondary
  <1>1. IsDevice(dev) /\ dev.ePrimary # "IDLE"
    BY DEF IInv, Stable, Sound, Holding, Legitimate
  <1>2. CASE Host
    BY <1>1, <1>2, QueueDrives DEF Host, HostTransmit, Drives
  <1>3. CASE ClockedRun
    <2> DEFINE s == Sampled
               p == Pump(s)
    <2>1. Drives(dev, s)
      BY <1>1 DEF Sampled, Drives, IsDevice, Fields
    <2>2. dev' = p \/ dev' = [p EXCEPT !.isrTriggered = FALSE]
      BY <1>3 DEF ClockedRun, RunDue, RunInterrupted, RunAsleep, Pumped
    <2> HIDE DEF s
    <2>3. Drives(s, p)
      BY <1>1, <2>1, QueueDrives DEF Drives
    <2> HIDE DEF p
    <2>4. Drives(dev, p)
      BY <2>1, <2>3 DEF Drives
    <2> QED BY <2>2, <2>4 DEF Drives, IsDevice, Fields
  <1> QED BY <1>2, <1>3

\* Nor does Run or a call of TransmitFrame change what the signal means.
SignalFields == {"eSecondary", "eTertiary", "txByte", "txCount", "txDest", "waitTime"}

LEMMA SameHoldTime ==
    ASSUME NEW d, NEW e, e.eSecondary = d.eSecondary,
           d.eSecondary = "XMIT_DATABIT1" =>
                Agrees(d, e, SignalFields) /\ Initiator(e) = Initiator(d)
    PROVE  HoldTime(e) = HoldTime(d)
  <1>1. CASE d.eSecondary = "XMIT_DATABIT1"
    <2>1. /\ e.eTertiary = d.eTertiary /\ e.txByte = d.txByte /\ e.txCount = d.txCount
          /\ e.txDest = d.txDest /\ e.waitTime = d.waitTime
      BY <1>1 DEF Agrees, SignalFields
    <2>2. SendsOne(e) = SendsOne(d)
      BY <1>1, <2>1 DEF SendsOne, HeaderBitAt, RemainingTransmitBytes
    <2> QED BY <1>1, <2>2 DEF HoldTime
  <1>2. CASE d.eSecondary # "XMIT_DATABIT1"
    BY <1>2 DEF HoldTime
  <1> QED BY <1>1, <1>2

LEMMA PumpKeepsSignal ==
    ASSUME NEW d, IsDevice(d), ~ToPoll(d)
    PROVE  Agrees(d, Pump(d), SignalFields) /\ Initiator(Pump(d)) = Initiator(d)
  <1> DEFINE e == [d EXCEPT !.primaryState = "CEC_IDLE"]
  <1>1. Pump(d) = IF d.primaryState = "CEC_ALLOCATE_LOGICAL_ADDRESS" THEN d ELSE e
    BY DEF Pump, ToPoll
  <1>2. /\ Agrees(d, e, SignalFields) /\ e.primaryState = "CEC_IDLE"
        /\ e.txDest = d.txDest /\ e.logicalAddress = d.logicalAddress
    BY DEF Agrees, SignalFields, IsDevice, Fields
  <1> HIDE DEF e
  <1>3. CASE d.primaryState = "CEC_ALLOCATE_LOGICAL_ADDRESS"
    BY <1>1, <1>3 DEF Agrees
  <1>4. CASE d.primaryState # "CEC_ALLOCATE_LOGICAL_ADDRESS"
    BY <1>1, <1>2, <1>4 DEF Initiator
  <1> QED BY <1>3, <1>4

LEMMA HeldKeepsTime ==
    ASSUME IInv, Tx(dev), HostPaced, ~dev.out, ClockedRun \/ Host
    PROVE  HoldTime(dev') = HoldTime(dev)
  <1>1. IsDevice(dev) /\ Legitimate(dev) /\ dev'.eSecondary = dev.eSecondary
    BY HeldKeeps DEF IInv, Stable, Sound, Holding
  <1>2. SUFFICES ASSUME dev.eSecondary = "XMIT_DATABIT1"
                 PROVE  Agrees(dev, dev', SignalFields) /\ Initiator(dev') = Initiator(dev)
    BY <1>1, SameHoldTime
  <1>3. dev.ePrimary = "TRANSMIT"
    BY <1>1, <1>2 DEF Legitimate
  <1>4. ClockedRun
    BY <1>3 DEF Host, HostTransmit, Busy
  <1> DEFINE s == Sampled
             p == Pump(s)
             e == [p EXCEPT !.isrTriggered = FALSE]
  <1>5. ~ToPoll(dev)
    BY <1>3 DEF Tx, Free
  <1>6. /\ IsDevice(s) /\ Agrees(dev, s, SignalFields)
        /\ s.primaryState = dev.primaryState /\ s.secondaryState = dev.secondaryState
        /\ s.logicalAddress = dev.logicalAddress
    BY <1>1 DEF Sampled, Agrees, SignalFields, IsDevice, Fields
  <1>7. dev' = p \/ dev' = e
    BY <1>4 DEF ClockedRun, RunDue, RunInterrupted, RunAsleep, Pumped
  <1> HIDE DEF s
  <1>8. s.txDest = dev.txDest
    BY <1>6 DEF Agrees, SignalFields
  <1>9. Initiator(s) = Initiator(dev) /\ ~ToPoll(s)
    BY <1>5, <1>6, <1>8 DEF Initiator, ToPoll
  <1>10. IsDevice(p) /\ Agrees(s, p, SignalFields) /\ Initiator(p) = Initiator(s)
    <2>1. IsDevice(p)
      BY <1>6, PumpLine DEF SameLine
    <2> QED BY <1>6, <1>9, <2>1, PumpKeepsSignal
  <1> HIDE DEF p
  <1>11. Agrees(p, e, SignalFields) /\ Initiator(e) = Initiator(p)
    BY <1>10 DEF Agrees, SignalFields, Initiator, IsDevice, Fields
  <1> HIDE DEF e
  <1> QED BY <1>6, <1>7, <1>9, <1>10, <1>11 DEF Agrees

LEMMA OutsideKeepsLine ==
    ASSUME IInv, ClockedRun \/ Host PROVE dev'.out = dev.out
  <1>1. IsDevice(dev)
    BY DEF IInv, Stable, Sound
  <1>2. CASE Host
    BY <1>1, <1>2, TransmitFrameLine DEF Host, HostTransmit, SameLine
  <1>3. CASE ClockedRun
    <2> DEFINE s == Sampled
               p == Pump(s)
    <2>1. IsDevice(s) /\ s.out = dev.out
      BY <1>1 DEF Sampled, IsDevice, Fields
    <2>2. dev' = p \/ dev' = [p EXCEPT !.isrTriggered = FALSE]
      BY <1>3 DEF ClockedRun, RunDue, RunInterrupted, RunAsleep, Pumped
    <2> HIDE DEF s
    <2>3. IsDevice(p) /\ p.out = s.out
      BY <2>1, PumpLine DEF SameLine
    <2> HIDE DEF p
    <2> QED BY <2>1, <2>2, <2>3 DEF IsDevice, Fields
  <1> QED BY <1>2, <1>3

LEMMA RunHoldClock ==
    ASSUME Lateness \subseteq Nat, ClockedInv, Tx(dev), HostPaced, HoldClock, ClockedRun
    PROVE  HoldClock'
  <1> SUFFICES ASSUME ~dev'.out PROVE HoldClock'
    BY DEF HoldClock
  <1>1. IInv /\ Clocks
    BY DEF ClockedInv
  <1>2. ~dev.out
    BY <1>1, OutsideKeepsLine
  <1>3. HoldTime(dev') = HoldTime(dev) /\ HoldTime(dev) \in Nat
    BY <1>1, <1>2, HeldKeepsTime, HoldTimeType
  <1>4. /\ UNCHANGED <<sinceChange, wake>> /\ away' = NoTime /\ call = "none"
        /\ away = NoTime \/ away = 0
        /\ call' = "none" => wake # 0
    BY <1>1 DEF ClockedRun, RunDue, RunInterrupted, RunAsleep, Clocks, Times, NoTime
  <1>5. sinceChange \in Nat /\ wake \in Nat
    BY <1>1, <1>2, TimesType DEF Clocks, HoldClock
  <1>6. \E late \in Lateness \cup {0} : sinceChange <= HoldTime(dev) + late
    <2>1. CASE away = NoTime
      BY <1>2, <1>3, <1>4, <1>5, <2>1 DEF HoldClock
    <2>2. CASE away = 0
      <3>1. PICK late \in Lateness \cup {0} : sinceChange + away <= HoldTime(dev) + late
        BY <1>2, <1>4, <2>2 DEF HoldClock, NoTime
      <3>2. sinceChange <= HoldTime(dev) + late
        BY <1>5, <2>2, <3>1
      <3> QED BY <3>2
    <2> QED BY <1>4, <2>1, <2>2
  <1>7. wake > 0 => sinceChange + wake <= HoldTime(dev)
    BY <1>2 DEF HoldClock
  <1>8. call' = "none" => sinceChange <= HoldTime(dev)
    BY <1>3, <1>4, <1>5, <1>7
  <1>9. HoldTime(dev') = HoldTime(dev) /\ sinceChange' = sinceChange /\ wake' = wake
        /\ away' = NoTime
    BY <1>3, <1>4
  <1> HIDE DEF HoldTime
  <1> QED BY <1>5, <1>6, <1>7, <1>8, <1>9 DEF HoldClock

LEMMA HostHoldClock ==
    ASSUME ClockedInv, Tx(dev), HostPaced, HoldClock, Host, UNCHANGED clocks
    PROVE  HoldClock'
  <1> SUFFICES ASSUME ~dev'.out PROVE HoldClock'
    BY DEF HoldClock
  <1>1. IInv
    BY DEF ClockedInv
  <1>2. ~dev.out
    BY <1>1, OutsideKeepsLine
  <1>3. HoldTime(dev') = HoldTime(dev)
    BY <1>1, <1>2, HeldKeepsTime
  <1>4. UNCHANGED <<sinceChange, wake, away>>
    BY DEF clocks
  <1>5. UNCHANGED call
    BY DEF Host, HostTransmit
  <1> QED BY <1>2, <1>3, <1>4, <1>5 DEF HoldClock

\* loop() goes away, or a held line is let go of and has to settle.
LEMMA AwayHoldClock ==
    ASSUME Lateness \subseteq Nat, ClockedInv, HoldClock, StaysAway \/ LetsGo PROVE HoldClock'
  <1> SUFFICES ASSUME ~dev'.out PROVE HoldClock'
    BY DEF HoldClock
  <1>1. UNCHANGED <<dev, call, sinceChange, wake>>
    BY DEF StaysAway, LetsGo
  <1>2. ~dev.out /\ HoldTime(dev') = HoldTime(dev) /\ HoldTime(dev) \in Nat
    BY <1>1, HoldTimeType
  <1>3. sinceChange \in Nat
    BY TimesType DEF ClockedInv, Clocks
  <1>4. CASE LetsGo
    <2>1. call' # "none" /\ away' # NoTime
      BY <1>4 DEF LetsGo, SettleTime, NoTime
    <2> QED BY <1>1, <1>2, <2>1 DEF HoldClock
  <1>5. CASE StaysAway
    <2>1. call' = "none" /\ away' \in Lateness /\ away' # NoTime
      BY <1>5 DEF StaysAway, NoTime
    <2>2. sinceChange <= HoldTime(dev)
      BY <1>2, <1>5 DEF StaysAway, HoldClock
    <2>3. sinceChange + away' <= HoldTime(dev) + away'
      BY <1>2, <1>3, <2>1, <2>2
    <2> QED BY <1>1, <1>2, <2>1, <2>3 DEF HoldClock
  <1> QED BY <1>4, <1>5

LEMMA ProcessEnds == ASSUME Process PROVE call' = "none"
  <1>2. CASE Spurious \/ IdleEdge
    BY <1>2 DEF Spurious, IdleEdge, Returns
  <1>3. CASE Receive
    <2>1. ReceiveAckSent \/ ReceiveLineError => call' = "none"
      BY DEF ReceiveAckSent, ReceiveLineError, Resets, Returns
    <2>2. \A t : ReceiveStartBit1(t) \/ ReceiveStartBit2(t) => call' = "none"
      BY DEF ReceiveStartBit1, ReceiveStartBit2, Resets, Returns
    <2>3. \A t : ReceiveDataBit1(t) \/ ReceiveDataBit2(t) => call' = "none"
      BY DEF ReceiveDataBit1, ReceiveDataBit2, LineError, Resets, Returns
    <2>4. \A t, dest : ReceiveEndOfBlock(t, dest) => call' = "none"
      BY DEF ReceiveEndOfBlock, LineError, Resets, Returns
    <2>5. \A t : ReceiveAck1(t) \/ ReceiveAck2(t) => call' = "none"
      BY DEF ReceiveAck1, ReceiveAck2, LineError, Resets, Returns
    <2> QED BY <1>3, <2>1, <2>2, <2>3, <2>4, <2>5 DEF Receive
  <1>4. CASE Transmit
    <2>1. \/ IdleWaitEdge \/ Collision \/ AckEdge \/ IdleWaitLow \/ IdleWaitMore \/ BeginFrame
          => call' = "none"
      BY DEF IdleWaitEdge, Collision, AckEdge, IdleWaitLow, IdleWaitMore, BeginFrame, Returns
    <2>2. \A bit : TransmitFirstBit(bit) \/ TransmitDataBit2(bit) => call' = "none"
      BY DEF TransmitFirstBit, TransmitDataBit2, Returns
    <2>3. TransmitStartBit1 \/ TransmitDataBit1 => call' = "none"
      BY DEF TransmitStartBit1, TransmitDataBit1, Returns
    <2>4. TransmitAck \/ TransmitAck2 => call' = "none"
      BY DEF TransmitAck, TransmitAck2, Returns
    <2>5. TransmitNotAcked => call' = "none"
      BY DEF TransmitNotAcked, Returns
    <2>6. CASE TransmitAcked
      <3> DEFINE c == OnTransmitComplete(ResetState(Seen), TRUE)
                 a == [Seen EXCEPT !.eSecondary = "XMIT_ACK3"]
      <3>1. Returns(c, Never) \/ Returns(a, Deadline("bit", 2400))
        BY <2>6 DEF TransmitAcked, Returns
      <3> HIDE DEF c, a
      <3> QED BY <3>1 DEF Returns
    <2> QED BY <1>4, <2>1, <2>2, <2>3, <2>4, <2>5, <2>6 DEF Transmit
  <1> QED BY <1>2, <1>3, <1>4 DEF Process

\* A call of Process lets go of a held line, or begins a new pull.
LEMMA ProcessHoldClock ==
    ASSUME 0..BitAges \subseteq Elapsed, 0..15 \subseteq Destinations,
           ClockedInv, Tx(dev), IInv', ClockedProcess
    PROVE  HoldClock'
  <1> SUFFICES ASSUME ~dev'.out PROVE HoldClock'
    BY DEF HoldClock
  <1>1. IInv /\ Clocks
    BY DEF ClockedInv
  <1>2. Process
    BY <1>1, ProcessIsProcess
  <1>3. dev.out
    BY <1>1, <1>2, ProcessReleases
  <1>4. Pulled(dev')
    BY <1>1, ProcessPulls DEF PullsForATime
  <1>5. sinceChange' = 0 /\ away' = NoTime /\ call' = "none"
    <2>1. call' = "none"
      BY <1>2, ProcessEnds
    <2> QED BY <1>3, <1>4, <2>1 DEF ClockedProcess, ChangeAge, Pulled
  <1>6. wake' = TimeLeft(dev'.waitTime)
    <2>1. ~AckEdge
      <3>1. AckEdge => dev'.out
        BY <1>1, ReleasedTransmit
      <3> QED BY <3>1
    <2> QED BY <2>1 DEF ClockedProcess
  <1>7. wake' \in Nat /\ wake' <= HoldTime(dev')
    <2> DEFINE w == dev'.waitTime
    <2>1. w.plus \in Nat /\ ComesIn(w, HoldTime(dev'))
      BY <1>4 DEF Pulled, IInv, Stable, WakeUpTimes
    <2>2. BitAge \in Nat /\ HoldTime(dev') \in Nat
      <3>1. BitAge \in Nat
        BY <1>1, AgesType, TimesType
      <3> QED BY <3>1, HoldTimeType
    <2>3. wake' = TimeLeft(w)
      BY <1>6
    <2> HIDE DEF w
    <2>4. CASE w.base = "bit" /\ w.plus <= HoldTime(dev')
      <3>1. Left(w.plus, BitAge) \in Nat /\ Left(w.plus, BitAge) <= w.plus
        BY <2>1, <2>2 DEF Left
      <3>2. wake' = Left(w.plus, BitAge)
        BY <2>3, <2>4 DEF TimeLeft
      <3> QED BY <2>1, <2>2, <2>4, <3>1, <3>2
    <2>5. CASE w.base = "now" /\ w.plus + SettleTime <= HoldTime(dev')
      <3>1. wake' = w.plus + SettleTime
        BY <2>3, <2>5 DEF TimeLeft, Lowering
      <3> QED BY <2>1, <2>5, <3>1 DEF SettleTime
    <2> QED BY <2>1, <2>4, <2>5 DEF ComesIn
  <1>8. HoldTime(dev') \in Nat
    BY HoldTimeType
  <1> QED BY <1>5, <1>7, <1>8 DEF HoldClock

\* Time that passes when the device has nothing to do or is away, and never past
\* the moment at which either ends.
OnTime(time) ==
    /\ Rests
    /\ wake > 0 => time <= wake
    /\ away > 0 => time <= away

\* The age of the pull grows by no more than the time left shrinks.
LEMMA AgeAndTimeLeft ==
    ASSUME NEW age \in Nat, NEW older \in Nat, NEW left \in Nat, NEW time \in Nat,
           NEW limit \in Nat,
           older <= age + time, time <= left, age + left <= limit
    PROVE  /\ left - time \in Nat /\ older + (left - time) <= limit
           /\ older <= limit
  OBVIOUS

LEMMA PassesHoldClock ==
    ASSUME Lateness \subseteq Nat, ClockedInv, HoldClock, NEW time \in Nat, Passes(time),
           ~dev.out => OnTime(time)
    PROVE  HoldClock'
  <1> SUFFICES ASSUME ~dev.out PROVE HoldClock'
    BY DEF HoldClock, Passes
  <1> DEFINE H == HoldTime(dev)
  <1>1. sinceChange \in Nat /\ H \in Nat /\ wake \in Nat /\ away \in Nat \cup {NoTime}
    <2>1. sinceChange \in Nat /\ away \in Nat \cup {NoTime}
      BY TimesType DEF ClockedInv, Clocks, Times
    <2> QED BY <2>1, HoldTimeType DEF HoldClock
  <1>2. dev' = dev /\ call' = call /\ HoldTime(dev') = H
    BY DEF Passes
  <1>3. sinceChange' \in Nat /\ sinceChange' <= sinceChange + time
    BY <1>1 DEF Passes, AtMost, ChangeAges
  <1>4. wake > 0 => time <= wake /\ sinceChange + wake <= H
    BY DEF OnTime, HoldClock
  <1>5. wake' = IF wake > 0 THEN wake - time ELSE 0
    BY <1>1, <1>4 DEF Passes, Rest, Left, NoTime
  <1>6. away' = IF away > 0 THEN away - time ELSE away
    <2>1. away > 0 => time <= away
      BY DEF OnTime
    <2> QED BY <1>1, <2>1 DEF Passes, Rest, Left, NoTime
  <1>7. away > 0 \/ (call = "none" /\ wake > 0)
    BY <1>1 DEF OnTime, Rests, Asleep
  <1> DEFINE InTime == \E late \in Lateness \cup {0} : sinceChange' + away' <= H + late
  <1> HIDE DEF H
  <1>8. wake > 0 => /\ wake - time \in Nat /\ sinceChange' + (wake - time) <= H
                    /\ sinceChange' <= H
    BY <1>1, <1>3, <1>4, AgeAndTimeLeft
  <1>9. wake' \in Nat /\ (wake' > 0 => sinceChange' + wake' <= H)
    BY <1>5, <1>8
  <1>10. CASE away > 0
    <2>1. away \in Nat /\ away # NoTime /\ time <= away
      BY <1>1, <1>10 DEF OnTime, NoTime
    <2>2. away' = away - time /\ away' # NoTime
      BY <1>6, <1>10, <2>1 DEF NoTime
    <2>3. ASSUME call = "none" PROVE InTime
      <3>1. PICK late \in Lateness \cup {0} : sinceChange + away <= H + late
        BY <2>1, <2>3 DEF HoldClock, H
      <3>2. late \in Nat /\ H + late \in Nat
        BY <1>1
      <3>3. sinceChange' + (away - time) <= H + late
        BY <1>1, <1>3, <2>1, <3>1, <3>2, AgeAndTimeLeft
      <3> QED BY <2>2, <3>3
    <2> QED BY <1>2, <1>9, <2>2, <2>3 DEF HoldClock
  <1>11. CASE ~(away > 0)
    <2>1. call = "none" /\ sinceChange' <= H /\ away' = away /\ (away = NoTime \/ away = 0)
      BY <1>1, <1>6, <1>7, <1>8, <1>11 DEF NoTime
    <2>2. CASE away = NoTime
      BY <1>2, <1>9, <2>1, <2>2 DEF HoldClock
    <2>3. CASE away = 0
      <3>1. sinceChange' + 0 <= H + 0
        <4>1. \A n \in Nat, limit \in Nat : n <= limit => n + 0 <= limit + 0
          OBVIOUS
        <4> QED BY <1>1, <1>3, <2>1, <4>1
      <3>2. InTime
        BY <2>1, <2>3, <3>1
      <3> HIDE DEF InTime
      <3> QED BY <1>2, <1>9, <2>1, <2>3, <3>2 DEF HoldClock, InTime, NoTime
    <2> QED BY <2>1, <2>2, <2>3
  <1> QED BY <1>10, <1>11
-----------------------------------------------------------------------------
(* The header of a frame, as far as two initiators see of each other.      *)

\* How long a part of the header takes: the start bit, and a bit of the block.
Part(v) ==
    IF v.bit = 7 THEN IF v.low THEN 3700 ELSE 4500
    ELSE IF ~v.low THEN 2400
    ELSE IF v.sent % 2 = 1 THEN 600 ELSE 1500

IsView(v) ==
    /\ v.low \in BOOLEAN /\ v.hears \in BOOLEAN /\ v.clean \in BOOLEAN /\ v.alert \in BOOLEAN
    /\ v.bit \in 0..7 /\ v.sent \in Nat /\ v.since \in 0..BitAges
    /\ v.call \in {"none", "due", "irq"} /\ v.away \in Times
    /\ v.clean => v.call # "irq"
    /\ v.clean /\ ~v.low => v.alert

\* The wake-up time in a header is that of the part sent, and loop() is never later
\* than 600 microseconds, nor the line more than another 50 in settling.
InTime(v) ==
    /\ v.call = "due" => v.since >= v.plus
    /\ v.call = "none" /\ v.away # NoTime => v.away < 600
    /\ v.call # "none" /\ v.away # NoTime => v.low
    /\ v.low =>
        /\ v.call = "none" /\ v.away = NoTime => v.since <= v.plus
        /\ v.call = "none" /\ v.away # NoTime => v.since + v.away < v.plus + 600
        /\ v.call # "none" /\ v.away = NoTime => v.since < v.plus + 600
        /\ v.call # "none" /\ v.away # NoTime => v.since + v.away < v.plus + 650

Header(v) ==
    /\ v.plus = Part(v) /\ v.wake = Left(v.plus, v.since)
    /\ v.bit = 7 => v.sent = 0
    /\ v.bit = 3 => v.sent = v.init
    /\ InTime(v)

\* The steps inside a header.
SameBit(v, u) ==
    /\ u.head /\ u.init = v.init /\ u.hears = v.hears
    /\ u.bit = v.bit /\ u.sent = v.sent
SamePart(v, u) == SameBit(v, u) /\ u.low = v.low /\ u.plus = v.plus
WaitsIn(v, u) ==
    /\ SamePart(v, u) /\ u.since = v.since /\ u.wake = v.wake
    /\ u.call = v.call /\ u.clean = v.clean /\ u.alert = v.alert

RunsIn(v, u) ==
    /\ v.call = "none" /\ (v.away = NoTime \/ v.away = 0)
    /\ SamePart(v, u) /\ u.since = v.since /\ u.wake = v.wake /\ u.away = NoTime
    /\ u.call = "due" <=> v.wake = 0
    /\ v.clean /\ (v.low \/ v.hears) => u.clean
    /\ ~v.low /\ ~v.hears /\ v.alert => u.call # "none"
    /\ u.call # "none" => u.alert
AwayIn(v, u) == WaitsIn(v, u) /\ v.call = "none" /\ v.away = NoTime /\ u.away \in 1..599
LetsGoIn(v, u) ==
    WaitsIn(v, u) /\ v.call # "none" /\ v.low /\ v.away = NoTime /\ u.away = 50
Goes(v, u) ==
    /\ v.call # "none" /\ v.hears
    /\ u.plus = Part(u) /\ u.wake = Left(u.plus, u.since)
    /\ u.call = "none" /\ u.away = NoTime
    /\ v.clean => u.clean
RisesIn(v, u) ==
    /\ v.low /\ v.away = 0 /\ SameBit(v, u) /\ ~u.low /\ u.since = v.since
    /\ Goes(v, u)
NextBitIn(v, u) ==
    /\ ~v.low /\ v.away = NoTime /\ v.bit > 0
    /\ u.head /\ u.init = v.init /\ u.hears = v.hears
    /\ u.bit = v.bit - 1 /\ u.sent \div 2 = v.sent /\ (u.bit = 3 => u.sent = u.init)
    /\ u.low /\ u.since = 0
    /\ Goes(v, u)
StepsIn(v, u) ==
    RunsIn(v, u) \/ AwayIn(v, u) \/ LetsGoIn(v, u) \/ RisesIn(v, u) \/ NextBitIn(v, u)

\* Time passes until something is due.
PassesIn(v, u, time) ==
    /\ SamePart(v, u) /\ u.call = v.call /\ u.clean = v.clean /\ u.alert = v.alert
    /\ u.since = AtMost(v.since + time, BitAges)
    /\ u.wake = Rest(v.wake, time) /\ u.away = Rest(v.away, time)
    /\ v.wake > 0 => time <= v.wake
    /\ IF v.away > 0 THEN time <= v.away
       ELSE v.call = "none" /\ v.wake # 0 /\ (~v.hears => ~v.alert)

\* The header begins.
StartsAs(u) ==
    /\ u.head /\ u.bit = 7 /\ u.sent = 0 /\ u.low /\ u.since = 0 /\ u.clean
    /\ u.plus = Part(u) /\ u.wake = Left(u.plus, u.since)
    /\ u.call = "none" /\ u.away = NoTime

LEMMA PartTime ==
    ASSUME NEW v, IsView(v)
    PROVE  /\ Part(v) \in Nat
           /\ v.low => Part(v) \in {600, 1500, 3700} /\ (v.bit < 7 => Part(v) <= 1500)
           /\ ~v.low => Part(v) \in {2400, 4500} /\ (v.bit = 7 => Part(v) = 4500)
  BY DEF Part, IsView

LEMMA HeaderTypes ==
    ASSUME NEW v, IsView(v), Header(v)
    PROVE  /\ v.plus \in Nat /\ v.plus <= 4500 /\ v.since \in Nat /\ v.since <= 5000 /\ v.wake \in Nat
           /\ v.away = -1 \/ v.away \in Nat
           /\ v.wake = IF v.plus > v.since THEN v.plus - v.since ELSE 0
  <1>1. v.plus \in Nat /\ v.plus <= 4500
    BY PartTime DEF Header, IsView
  <1>2. (v.since \in Nat /\ v.since <= 5000) /\ (v.away = -1 \/ v.away \in Nat)
    <2>1. v.since \in 0..BitAges /\ v.away \in Times
      BY DEF IsView
    <2>2. \A n \in 0..BitAges : n \in Nat /\ n <= 5000
      BY DEF BitAges
    <2> QED BY <2>1, <2>2 DEF Times, NoTime
  <1>3. v.wake = IF v.plus > v.since THEN v.plus - v.since ELSE 0
    BY DEF Header, Left
  <1>4. v.wake \in Nat
    BY <1>1, <1>2, <1>3
  <1> QED BY <1>1, <1>2, <1>3, <1>4

\* A step keeps the time.
LEMMA SteppedHeader ==
    ASSUME NEW v, NEW u, IsView(v), IsView(u), Header(v), StepsIn(v, u)
    PROVE  Header(u)
  <1>1. /\ v.plus \in Nat /\ v.since \in Nat
        /\ v.away = -1 \/ v.away \in Nat
        /\ v.wake = IF v.plus > v.since THEN v.plus - v.since ELSE 0
        /\ InTime(v)
    BY HeaderTypes DEF Header
  <1>2. CASE AwayIn(v, u) \/ LetsGoIn(v, u) \/ RunsIn(v, u)
    <2>1. u.plus = Part(u) /\ u.wake = Left(u.plus, u.since)
      BY <1>2 DEF AwayIn, LetsGoIn, RunsIn, WaitsIn, SamePart, SameBit, Header, Part
    <2>2. (u.bit = 7 => u.sent = 0) /\ (u.bit = 3 => u.sent = u.init)
      BY <1>2 DEF AwayIn, LetsGoIn, RunsIn, WaitsIn, SamePart, SameBit, Header
    <2>3. u.low = v.low /\ u.since = v.since /\ u.plus = v.plus
      BY <1>2 DEF AwayIn, LetsGoIn, RunsIn, WaitsIn, SamePart, SameBit
    <2>4. ASSUME AwayIn(v, u) PROVE InTime(u)
      <3>1. /\ u.call = v.call /\ v.call = "none" /\ v.away = -1
            /\ u.away \in 1..599
        BY <2>4 DEF AwayIn, WaitsIn, NoTime
      <3> QED BY <1>1, <2>3, <3>1 DEF InTime, NoTime
    <2>5. ASSUME LetsGoIn(v, u) PROVE InTime(u)
      <3>1. u.call = v.call /\ v.call # "none" /\ v.low /\ v.away = -1 /\ u.away = 50
        BY <2>5 DEF LetsGoIn, WaitsIn, NoTime
      <3> QED BY <1>1, <2>3, <3>1 DEF InTime, NoTime
    <2>6. ASSUME RunsIn(v, u) PROVE InTime(u)
      <3>1. /\ v.call = "none" /\ (v.away = -1 \/ v.away = 0) /\ u.away = -1
            /\ u.call = "due" <=> v.wake = 0
        BY <2>6 DEF RunsIn, NoTime
      <3>2. u.call \in {"none", "due", "irq"}
        BY DEF IsView
      <3> QED BY <1>1, <2>3, <3>1, <3>2 DEF InTime, NoTime
    <2> QED BY <1>2, <2>1, <2>2, <2>4, <2>5, <2>6 DEF Header
  <1>3. CASE RisesIn(v, u)
    BY <1>3 DEF RisesIn, Goes, SameBit, Header, InTime
  <1>4. CASE NextBitIn(v, u)
    <2>1. u.plus \in Nat /\ u.plus = Part(u)
      BY <1>4, PartTime DEF NextBitIn, Goes
    <2>2. u.bit # 7
      BY <1>4 DEF NextBitIn, IsView
    <2>3. InTime(u)
      BY <1>4, <2>1 DEF NextBitIn, Goes, InTime
    <2> QED BY <1>4, <2>1, <2>2, <2>3 DEF NextBitIn, Goes, Header
  <1> QED BY <1>2, <1>3, <1>4 DEF StepsIn

LEMMA PassesHeader ==
    ASSUME NEW v, NEW u, IsView(v), IsView(u), Header(v), NEW time \in Nat,
           PassesIn(v, u, time)
    PROVE  Header(u)
  <1>1. /\ v.plus \in Nat /\ v.plus <= 4500 /\ v.since \in Nat /\ v.since <= 5000
        /\ v.away = -1 \/ v.away \in Nat
        /\ v.wake = IF v.plus > v.since THEN v.plus - v.since ELSE 0
        /\ InTime(v)
    BY HeaderTypes DEF Header
  <1>2. u.plus = Part(u)
    BY DEF PassesIn, SamePart, SameBit, Header, Part
  <1>3. (u.bit = 7 => u.sent = 0) /\ (u.bit = 3 => u.sent = u.init)
    BY DEF PassesIn, SamePart, SameBit, Header
  <1>4. /\ u.low = v.low /\ u.plus = v.plus /\ u.call = v.call
        /\ u.since = IF v.since + time < 5000 THEN v.since + time ELSE 5000
        /\ u.wake = IF v.wake > time THEN v.wake - time ELSE 0
        /\ u.away = IF v.away = -1 THEN -1 ELSE IF v.away > time THEN v.away - time ELSE 0
    <2>1. v.wake # -1
      BY <1>1
    <2> QED BY <2>1 DEF PassesIn, SamePart, AtMost, BitAges, Rest, Left, NoTime
  <1>5. u.wake = Left(u.plus, u.since)
    BY <1>1, <1>4 DEF Left
  <1>6. /\ v.wake > 0 => time <= v.wake
        /\ v.away > 0 => time <= v.away
        /\ ~(v.away > 0) => v.call = "none" /\ v.wake # 0
    BY DEF PassesIn
  <1>7. u.since >= v.since /\ (v.since >= v.plus => u.since >= v.plus)
        /\ u.since <= v.since + time
    BY <1>1, <1>4
  <1>8. CASE v.away > 0
    <2>1. u.away = v.away - time /\ u.away \in Nat /\ u.since + u.away <= v.since + v.away
      BY <1>1, <1>4, <1>6, <1>7, <1>8
    <2>2. InTime(u)
      BY <1>1, <1>4, <1>7, <1>8, <2>1 DEF InTime, NoTime
    <2> QED BY <1>2, <1>3, <1>5, <2>2 DEF Header
  <1>9. CASE ~(v.away > 0)
    <2>1. u.away = v.away /\ u.since <= v.plus /\ u.call = "none"
      BY <1>1, <1>4, <1>6, <1>7, <1>9
    <2>2. u.away = -1 \/ u.away = 0
      BY <1>1, <1>9, <2>1
    <2>3. InTime(u)
      BY <1>1, <1>4, <2>1, <2>2 DEF InTime, NoTime
    <2> QED BY <1>2, <1>3, <1>5, <2>3 DEF Header
  <1> QED BY <1>8, <1>9

LEMMA StartsHeader == ASSUME NEW u, IsView(u), StartsAs(u) PROVE Header(u)
  <1>1. u.plus = 3700
    BY DEF StartsAs, Part
  <1>2. InTime(u)
    BY <1>1 DEF StartsAs, InTime
  <1> QED BY <1>2 DEF StartsAs, Header

\* The line rises or falls, for the one that does not move it.
HearsIn(v, u, level) ==
    /\ u.head /\ u.init = v.init /\ u.bit = v.bit /\ u.sent = v.sent
    /\ u.low = v.low /\ u.plus = v.plus /\ u.since = v.since /\ u.wake = v.wake
    /\ u.call = v.call /\ u.away = v.away /\ u.clean = v.clean /\ u.alert = v.alert
    /\ u.hears = level

LEMMA HearsHeader ==
    ASSUME NEW v, NEW u, NEW level, IsView(v), IsView(u), Header(v), HearsIn(v, u, level)
    PROVE  Header(u)
  BY DEF HearsIn, Header, InTime, Part

-----------------------------------------------------------------------------
(* Two headers on the line, of initiators with different addresses.        *)

\* Whether the pin of an initiator releases the line.
Pins(v) == ~v.low \/ (v.call # "none" /\ v.away # NoTime)

\* Both are in the same bit, and have sent the same bits before it.  What one
\* releases the other has released, or is about to.
Together(v, w) ==
    /\ v.head /\ w.head /\ v.bit = w.bit /\ v.bit >= 3 /\ v.since = w.since
    /\ v.sent \div 2 = w.sent \div 2
    /\ ~v.low \/ ~w.low => v.sent = w.sent
    /\ v.clean /\ w.clean
    /\ (~v.low => v.hears /\ Pins(w)) /\ (~w.low => w.hears /\ Pins(v))
    /\ v.since > 0 => (~Pins(v) => ~w.hears) /\ (~Pins(w) => ~v.hears)

\* How late w can be in seeing what happened since.
Late(w, since) ==
    /\ w.call = "none" /\ w.away = NoTime => since = 0
    /\ w.away # NoTime => since + w.away < 600
    /\ w.call # "none" => since < 600

\* v has begun the next bit: w begins it in the same moment, or finds the line low.
Ahead(v, w) ==
    /\ v.head /\ w.head /\ v.bit + 1 = w.bit /\ v.bit >= 3
    /\ v.sent \div 2 = w.sent
    /\ v.low /\ ~Pins(v) /\ ~w.low
    /\ v.clean /\ (w.hears => w.clean) /\ (~w.hears => w.alert)
    /\ v.since > 0 => ~w.hears
    /\ Late(w, v.since)

Decided(v, w) == Together(v, w) \/ Ahead(v, w) \/ Ahead(w, v)
Fine(v) == IsView(v) /\ Header(v)

\* Two that both let go of the line after the same time have sent the same bit.
LEMMA SamePartTime ==
    ASSUME NEW v, NEW w, Fine(v), Fine(w), v.bit = w.bit, v.sent \div 2 = w.sent \div 2,
           v.low, w.low, v.plus <= w.plus + 649, w.plus <= v.plus + 649
    PROVE  v.sent = w.sent
  <1>1. CASE v.bit = 7
    BY <1>1 DEF Fine, Header
  <1>2. CASE v.bit # 7
    <2>1. v.plus = (IF v.sent % 2 = 1 THEN 600 ELSE 1500)
          /\ w.plus = (IF w.sent % 2 = 1 THEN 600 ELSE 1500)
      BY <1>2 DEF Fine, Header, Part
    <2>2. v.sent % 2 = 1 <=> w.sent % 2 = 1
      BY <2>1
    <2>3. \A m \in Nat, n \in Nat :
            m \div 2 = n \div 2 /\ (m % 2 = 1 <=> n % 2 = 1) => m = n
      OBVIOUS
    <2> QED BY <2>2, <2>3 DEF Fine, IsView
  <1> QED BY <1>1, <1>2

\* The numbers of a header.
LEMMA FineTypes ==
    ASSUME NEW v, Fine(v)
    PROVE  /\ v.plus \in Nat /\ v.since \in Nat
           /\ v.away = NoTime \/ v.away \in Nat
           /\ v.bit \in 0..7 /\ v.sent \in Nat
           /\ v.low => v.plus >= 600 /\ v.plus <= 3700 /\ (v.bit < 7 => v.plus <= 1500)
           /\ ~v.low => v.plus >= 2400 /\ (v.bit = 7 => v.plus = 4500)
  BY HeaderTypes, PartTime DEF Fine, Header, IsView, NoTime

\* One that is called, has seen no edge and lets go of the line does so when the
\* part is over, and not much later.
LEMMA PinsLate ==
    ASSUME NEW v, Fine(v), v.clean, v.low, v.call # "none"
    PROVE  /\ v.since >= v.plus
           /\ v.since <= v.plus + 649
  <1>1. v.call = "due" /\ InTime(v)
    BY DEF Fine, IsView, Header
  <1>2. /\ v.plus \in Nat /\ v.since \in Nat
        /\ v.away = NoTime \/ v.away \in Nat
    BY FineTypes
  <1> QED BY <1>1, <1>2 DEF InTime

LEMMA TogetherWaits ==
    ASSUME NEW v, NEW w, NEW u, Fine(v), Fine(w), Together(v, w),
           RunsIn(v, u) \/ AwayIn(v, u) \/ LetsGoIn(v, u)
    PROVE  Together(u, w)
  <1>1. SamePart(v, u) /\ u.since = v.since /\ u.hears = v.hears
    BY DEF RunsIn, AwayIn, LetsGoIn, WaitsIn, SamePart, SameBit
  <1>2. u.clean
    BY DEF RunsIn, AwayIn, LetsGoIn, WaitsIn, Together
  <1>3. (Pins(v) => Pins(u)) /\ (v.low /\ ~w.low => Pins(v))
    BY DEF RunsIn, AwayIn, LetsGoIn, WaitsIn, SamePart, SameBit, Pins, Together
  <1> QED BY <1>1, <1>2, <1>3 DEF Together, SamePart, SameBit

LEMMA TogetherRises ==
    ASSUME NEW v, NEW w, NEW u, Fine(v), Fine(w), Together(v, w), RisesIn(v, u)
    PROVE  Together(u, w)
  <1>1. /\ v.low /\ v.call # "none" /\ v.hears /\ v.clean /\ ~u.low /\ u.clean
        /\ u.since = v.since /\ SameBit(v, u)
    BY DEF RisesIn, Goes, Together
  <1>2. v.since >= v.plus /\ v.since <= v.plus + 649 /\ v.since > 0
    <2>1. v.plus >= 600 /\ v.plus \in Nat /\ v.since \in Nat
      BY <1>1, FineTypes
    <2> QED BY <1>1, <2>1, PinsLate
  <1>3. Pins(w) /\ Pins(u)
    BY <1>1, <1>2 DEF Together, Pins
  <1>4. v.sent = w.sent
    <2>1. CASE ~w.low
      BY <2>1 DEF Together
    <2>2. CASE w.low
      <3>1. w.call # "none" /\ w.clean
        BY <1>3, <2>2 DEF Pins, Together
      <3>2. w.since >= w.plus /\ w.since <= w.plus + 649
        BY <2>2, <3>1, PinsLate
      <3>3. v.plus \in Nat /\ w.plus \in Nat /\ v.since \in Nat /\ w.since = v.since
        BY FineTypes DEF Together
      <3>4. v.plus <= w.plus + 649 /\ w.plus <= v.plus + 649
        BY <1>2, <3>2, <3>3
      <3> QED BY <1>1, <2>2, <3>4, SamePartTime DEF Together
    <2> QED BY <2>1, <2>2
  <1> QED BY <1>1, <1>3, <1>4 DEF Together, SameBit

LEMMA TogetherNextBit ==
    ASSUME NEW v, NEW w, NEW u, Fine(v), Fine(w), Fine(u), v.init # w.init, Together(v, w),
           NextBitIn(v, u)
    PROVE  Ahead(u, w)
  <1>1. /\ ~v.low /\ v.call # "none" /\ v.hears /\ v.clean /\ u.low /\ u.clean
        /\ u.since = 0 /\ u.head /\ u.bit = v.bit - 1 /\ u.sent \div 2 = v.sent
        /\ u.call = "none"
    BY DEF NextBitIn, Goes, Together
  <1>2. v.since >= v.plus /\ Pins(w) /\ w.since = v.since /\ w.bit = v.bit /\ w.clean
        /\ v.bit >= 3
    BY <1>1 DEF Together, Fine, Header, InTime, IsView
  <1>3. ~w.low
    <2> SUFFICES ASSUME w.low PROVE FALSE
      OBVIOUS
    <2>1. w.since <= w.plus + 649
      BY <1>2, PinsLate DEF Pins
    <2>2. /\ v.plus \in Nat /\ w.plus \in Nat /\ v.since \in Nat /\ v.bit \in 0..7
          /\ v.plus >= 2400 /\ (v.bit = 7 => v.plus = 4500)
          /\ w.plus <= 3700 /\ (v.bit < 7 => w.plus <= 1500)
      BY <1>1, <1>2, FineTypes
    <2> QED BY <1>2, <2>1, <2>2
  <1>4. v.sent = w.sent /\ w.hears
    BY <1>1, <1>3 DEF Together
  <1>5. v.bit # 3
    <2>1. v.bit = 3 => v.sent = v.init /\ w.sent = w.init
      BY <1>2 DEF Fine, Header
    <2> QED BY <1>4, <2>1
  <1>6. u.bit >= 3 /\ u.bit + 1 = w.bit
    <2>1. v.bit \in Nat
      BY FineTypes
    <2> QED BY <1>1, <1>2, <1>5, <2>1
  <1>7. Late(w, 0)
    <2>1. InTime(w) /\ (w.away = NoTime \/ w.away \in Nat)
      BY FineTypes DEF Fine, Header
    <2> QED BY <1>3, <2>1 DEF Late, InTime
  <1>8. w.head /\ ~Pins(u)
    BY <1>1 DEF Together, Pins
  <1> QED BY <1>1, <1>2, <1>3, <1>4, <1>6, <1>7, <1>8 DEF Ahead

LEMMA TogetherStep ==
    ASSUME NEW v, NEW w, NEW u, Fine(v), Fine(w), Fine(u), v.init # w.init, Together(v, w),
           StepsIn(v, u)
    PROVE  Decided(u, w)
  BY TogetherWaits, TogetherRises, TogetherNextBit DEF StepsIn, Decided

\* The one that is ahead does not get to the end of the low part.
LEMMA AheadStep ==
    ASSUME NEW v, NEW w, NEW u, Fine(v), Fine(w), Ahead(v, w), StepsIn(v, u)
    PROVE  Ahead(u, w)
  <1>1. v.low /\ v.clean /\ ~Pins(v) /\ ~w.low
    BY DEF Ahead
  <1>2. v.since < 600
    <2>1. v.since \in Nat /\ (w.away = NoTime \/ w.away \in Nat)
      BY FineTypes
    <2> QED BY <2>1 DEF Ahead, Late
  <1>3. v.call = "none"
    <2> SUFFICES ASSUME v.call # "none" PROVE FALSE
      OBVIOUS
    <2>1. v.since >= v.plus /\ v.plus >= 600 /\ v.plus \in Nat /\ v.since \in Nat
      BY <1>1, PinsLate, FineTypes
    <2> QED BY <1>2, <2>1
  <1>4. RunsIn(v, u) \/ AwayIn(v, u)
    BY <1>1, <1>3 DEF StepsIn, LetsGoIn, RisesIn, NextBitIn, Goes
  <1>5. /\ SamePart(v, u) /\ u.since = v.since /\ u.clean /\ ~Pins(u)
    BY <1>1, <1>4 DEF RunsIn, AwayIn, WaitsIn, SamePart, SameBit, Pins
  <1> QED BY <1>5 DEF Ahead, SamePart, SameBit

LEMMA BehindStep ==
    ASSUME NEW v, NEW w, NEW u, Fine(v), Fine(w), Fine(u), Ahead(v, w), StepsIn(w, u)
    PROVE  Ahead(v, u) \/ Together(v, u)
  <1>1. /\ ~w.low /\ (w.hears => w.clean) /\ (~w.hears => w.alert)
        /\ (v.since > 0 => ~w.hears) /\ Late(w, v.since)
    BY DEF Ahead
  <1>2. v.since \in Nat /\ (w.away = NoTime \/ w.away \in Nat)
    BY FineTypes
  <1>3. CASE RunsIn(w, u)
    <2>1. /\ SamePart(w, u) /\ u.hears = w.hears /\ u.away = NoTime
          /\ (w.hears => u.clean) /\ (~w.hears => u.call # "none" /\ u.alert)
      BY <1>1, <1>3 DEF RunsIn, SamePart, SameBit
    <2>2. v.since < 600
      BY <1>1, <1>2, <1>3 DEF RunsIn, Late
    <2>3. u.call = "none" => v.since = 0
      BY <1>1, <1>2, <2>1
    <2>4. Late(u, v.since)
      BY <2>1, <2>2, <2>3 DEF Late
    <2> QED BY <2>1, <2>4 DEF Ahead, SamePart, SameBit
  <1>4. CASE AwayIn(w, u)
    <2>1. /\ SamePart(w, u) /\ u.hears = w.hears /\ u.call = "none" /\ u.away \in 1..599
          /\ u.clean = w.clean /\ u.alert = w.alert /\ v.since = 0
      BY <1>1, <1>4 DEF AwayIn, WaitsIn, SamePart, SameBit, Late
    <2>2. Late(u, v.since)
      BY <2>1 DEF Late, NoTime
    <2> QED BY <2>1, <2>2 DEF Ahead, SamePart, SameBit
  <1>5. CASE NextBitIn(w, u)
    <2>1. /\ w.hears /\ u.head /\ u.bit = w.bit - 1 /\ u.sent \div 2 = w.sent /\ u.low
          /\ u.since = 0 /\ (w.clean => u.clean)
      BY <1>5 DEF NextBitIn, Goes
    <2>2. v.since = 0 /\ u.clean
      BY <1>1, <1>2, <2>1
    <2>3. u.bit = v.bit
      <3>1. v.bit \in Nat
        BY FineTypes
      <3> QED BY <2>1, <3>1 DEF Ahead
    <2> QED BY <2>1, <2>2, <2>3 DEF Ahead, Together
  <1> QED BY <1>1, <1>3, <1>4, <1>5 DEF StepsIn, LetsGoIn, RisesIn

LEMMA DecidedIsSymmetric == ASSUME NEW v, NEW w, Decided(v, w) PROVE Decided(w, v)
  BY DEF Decided, Together

LEMMA DecidedStep ==
    ASSUME NEW v, NEW w, NEW u, Fine(v), Fine(w), Fine(u), v.init # w.init, Decided(v, w),
           StepsIn(v, u)
    PROVE  Decided(u, w)
  BY TogetherStep, AheadStep, BehindStep, DecidedIsSymmetric DEF Decided

\* The line changes as the other one has changed it.
LEMMA DecidedHears ==
    ASSUME NEW v, NEW w, NEW u, Fine(v), Fine(w), Decided(v, w), HearsIn(v, u, Pins(w))
    PROVE  Decided(u, w)
  <1>1. Pins(u) = Pins(v) /\ (v.clean /\ ~v.low => v.alert)
    BY DEF HearsIn, Pins, Fine, IsView
  <1>2. CASE Together(v, w)
    BY <1>1, <1>2 DEF Decided, Together, HearsIn
  <1>3. CASE Ahead(v, w)
    BY <1>1, <1>3 DEF Decided, Ahead, HearsIn
  <1>4. CASE Ahead(w, v)
    BY <1>1, <1>4 DEF Decided, Ahead, HearsIn, Late
  <1> QED BY <1>2, <1>3, <1>4 DEF Decided

\* Time passes when the levels have settled.
LEMMA DecidedPasses ==
    ASSUME NEW v, NEW w, NEW u, NEW x, NEW time \in Nat,
           Fine(v), Fine(w), Fine(u), Fine(x), Decided(v, w),
           v.hears = Pins(w), w.hears = Pins(v), PassesIn(v, u, time), PassesIn(w, x, time)
    PROVE  Decided(u, x)
  <1>1. ASSUME NEW a, NEW b, Fine(a), PassesIn(a, b, time)
        PROVE  /\ SamePart(a, b) /\ b.hears = a.hears /\ Pins(b) = Pins(a)
               /\ b.call = a.call /\ b.clean = a.clean /\ b.alert = a.alert
               /\ b.since \in Nat /\ b.since <= a.since + time
    <2>1. a.since \in Nat /\ (a.away = NoTime \/ a.away \in Nat)
      BY <1>1, FineTypes
    <2>2. b.away = NoTime <=> a.away = NoTime
      BY <1>1, <2>1 DEF PassesIn, Rest, Left, NoTime
    <2>3. SamePart(a, b) /\ b.call = a.call /\ b.clean = a.clean /\ b.alert = a.alert
      BY <1>1 DEF PassesIn
    <2>4. b.since \in Nat /\ b.since <= a.since + time
      BY <1>1, <2>1 DEF PassesIn, AtMost, BitAges
    <2> QED BY <2>2, <2>3, <2>4 DEF SamePart, SameBit, Pins
  <1>2. ASSUME NEW a, NEW b, NEW c, NEW d, Fine(a), Fine(b), Ahead(a, b),
               b.hears = Pins(a), PassesIn(a, c, time), PassesIn(b, d, time)
        PROVE  Ahead(c, d)
    <2>1. ~Pins(a) /\ ~b.low /\ b.alert /\ ~b.hears
      BY <1>2 DEF Ahead
    <2>2. b.away > 0 /\ time <= b.away
      BY <1>2, <2>1 DEF PassesIn
    <2>3. /\ b.away \in Nat /\ a.since \in Nat /\ b.call = "none" /\ b.away # NoTime
      <3>1. b.away = NoTime \/ b.away \in Nat
        BY <1>2, FineTypes
      <3>2. b.away # NoTime
        BY <2>2 DEF NoTime
      <3> QED BY <1>2, <2>1, <3>1, <3>2, FineTypes DEF Fine, Header, InTime
    <2>4. a.since + b.away < 600
      BY <1>2, <2>3 DEF Ahead, Late
    <2>5. d.away = b.away - time /\ d.call = "none"
      BY <1>2, <2>2, <2>3 DEF PassesIn, Rest, Left, NoTime
    <2>6. c.since \in Nat /\ c.since <= a.since + time
      BY <1>1, <1>2
    <2>7. c.since + d.away < 600 /\ d.away \in Nat
      BY <2>2, <2>3, <2>4, <2>5, <2>6
    <2>8. Late(d, c.since)
      BY <2>5, <2>7 DEF Late, NoTime
    <2>9. SamePart(a, c) /\ SamePart(b, d) /\ d.hears = b.hears /\ Pins(c) = Pins(a)
          /\ c.clean = a.clean /\ d.clean = b.clean /\ d.alert = b.alert
      BY <1>1, <1>2
    <2> QED BY <1>2, <2>1, <2>8, <2>9 DEF Ahead, SamePart, SameBit
  <1>3. CASE Together(v, w)
    <2>1. u.since = x.since
      BY <1>3 DEF Together, PassesIn
    <2>2. /\ SamePart(v, u) /\ u.hears = v.hears /\ Pins(u) = Pins(v) /\ u.clean = v.clean
          /\ SamePart(w, x) /\ x.hears = w.hears /\ Pins(x) = Pins(w) /\ x.clean = w.clean
      BY <1>1
    <2> QED BY <1>3, <2>1, <2>2 DEF Decided, Together, SamePart, SameBit
  <1> QED BY <1>2, <1>3 DEF Decided

\* Both have just begun.
LEMMA DecidedStarts ==
    ASSUME NEW v, NEW w, Fine(v), Fine(w), StartsAs(v),
           w.head, w.bit = 7, w.low, w.since = 0, w.clean
    PROVE  Decided(v, w)
  <1>1. v.sent = w.sent /\ v.bit >= 3
    BY DEF StartsAs, Fine, Header
  <1> QED BY <1>1 DEF Decided, Together, StartsAs
-----------------------------------------------------------------------------
(* The header that a device sends, as it is seen here.                     *)

Heads(d) == OnLine(d) /\ d.txByte = 0
Block(d) == 16 * Initiator(d) + d.txDest

ViewOf(d, age, left, why, gone, level) ==
    [head  |-> Heads(d), init |-> Initiator(d),
     low   |-> ~d.out, bit |-> d.txBit, sent |-> Block(d) \div 2^(d.txBit + 1),
     plus  |-> d.waitTime.plus, since |-> age, wake |-> left, call |-> why, away |-> gone,
     hears |-> level,
     clean |-> ~d.isrTriggered /\ d.lastLineState2 = d.out /\ why # "irq",
     alert |-> d.lastLineState2 \/ d.isrTriggered \/ why # "none"]
View == ViewOf(dev, sinceBit, wake, call, away, others)

\* The state says which part of the bit it is, and the line is as it was left.
Shape(d) ==
    /\ d.eSecondary \in {"XMIT_STARTBIT1", "XMIT_DATABIT1"} => ~d.out
    /\ d.lastLineState = d.out
Heading ==
    Heads(dev) =>
        /\ Header(View) /\ Shape(dev)
        /\ View.bit = 7 /\ View.low => View.clean

LEMMA ViewFields ==
    ASSUME NEW d, NEW age, NEW left, NEW why, NEW gone, NEW level,
           NEW v, v = ViewOf(d, age, left, why, gone, level)
    PROVE  /\ v.head = Heads(d) /\ v.init = Initiator(d) /\ v.low = ~d.out /\ v.bit = d.txBit
           /\ v.sent = Block(d) \div 2^(d.txBit + 1) /\ v.plus = d.waitTime.plus
           /\ v.since = age /\ v.wake = left /\ v.call = why /\ v.away = gone
           /\ v.hears = level
           /\ v.clean = (~d.isrTriggered /\ d.lastLineState2 = d.out /\ why # "irq")
           /\ v.alert = (d.lastLineState2 \/ d.isrTriggered \/ why # "none")
  BY DEF ViewOf

LEMMA SentBits ==
    ASSUME NEW n \in 0..255
    PROVE  /\ \A b \in 0..7 : n \div 2^(b + 1) \in Nat
           /\ n \div 2^(7 + 1) = 0 /\ n \div 2^(3 + 1) = n \div 16
           /\ \A b \in 1..7 : (n \div 2^b) \div 2 = n \div 2^(b + 1)
  <1>1. ASSUME NEW b \in 0..7 PROVE n \div 2^(b + 1) \in Nat
    <2>1. CASE b = 0
      BY <2>1
    <2>2. CASE b = 1
      BY <2>2
    <2>3. CASE b = 2
      BY <2>3
    <2>4. CASE b = 3
      BY <2>4
    <2>5. CASE b = 4
      BY <2>5
    <2>6. CASE b = 5
      BY <2>6
    <2>7. CASE b = 6
      BY <2>7
    <2>8. CASE b = 7
      BY <2>8
    <2> QED BY <2>1, <2>2, <2>3, <2>4, <2>5, <2>6, <2>7, <2>8
  <1>2. ASSUME NEW b \in 1..7 PROVE (n \div 2^b) \div 2 = n \div 2^(b + 1)
    <2>1. CASE b = 1
      BY <2>1
    <2>2. CASE b = 2
      BY <2>2
    <2>3. CASE b = 3
      BY <2>3
    <2>4. CASE b = 4
      BY <2>4
    <2>5. CASE b = 5
      BY <2>5
    <2>6. CASE b = 6
      BY <2>6
    <2>7. CASE b = 7
      BY <2>7
    <2> QED BY <2>1, <2>2, <2>3, <2>4, <2>5, <2>6, <2>7
  <1>3. n \div 2^(7 + 1) = 0 /\ n \div 2^(3 + 1) = n \div 16
    OBVIOUS
  <1> QED BY <1>1, <1>2, <1>3

LEMMA BlockType ==
    ASSUME NEW d, Typed(d)
    PROVE  /\ Initiator(d) \in 0..15 /\ Block(d) \in 0..255
           /\ Block(d) \div 16 = Initiator(d)
  <1>1. Initiator(d) \in 0..15 /\ d.txDest \in 0..15
    BY DEF Initiator, Typed
  <1>2. \A i \in 0..15, j \in 0..15 : 16 * i + j \in 0..255 /\ (16 * i + j) \div 16 = i
    OBVIOUS
  <1> QED BY <1>1, <1>2 DEF Block

LEMMA ViewType ==
    ASSUME ClockedInv
    PROVE  /\ IsView(View)
           /\ (View.bit = 7 => View.sent = 0)
           /\ (View.bit = 3 => View.sent = View.init)
  <1> DEFINE v == View
  <1>1. v = ViewOf(dev, sinceBit, wake, call, away, others)
    BY DEF View
  <1> HIDE DEF v
  <1>2. Typed(dev) /\ Clocks /\ others \in BOOLEAN /\ call \in {"none", "due", "irq"}
    BY DEF ClockedInv, IInv, Stable, Sound
  <1>3. dev.txBit \in 0..7 /\ dev.out \in BOOLEAN /\ dev.lastLineState2 \in BOOLEAN
        /\ dev.isrTriggered \in BOOLEAN
    BY <1>2 DEF Typed
  <1>4. Block(dev) \in 0..255 /\ Block(dev) \div 16 = Initiator(dev)
    BY <1>2, BlockType
  <1>5. v.sent \in Nat /\ (v.bit = 7 => v.sent = 0) /\ (v.bit = 3 => v.sent = v.init)
    <2>1. v.sent = Block(dev) \div 2^(dev.txBit + 1) /\ v.bit = dev.txBit
          /\ v.init = Initiator(dev)
      BY <1>1, ViewFields
    <2> QED BY <1>3, <1>4, <2>1, SentBits
  <1>6. v.clean \in BOOLEAN /\ v.alert \in BOOLEAN
    <2>1. v.clean = (~dev.isrTriggered /\ dev.lastLineState2 = dev.out /\ call # "irq")
      BY <1>1, ViewFields
    <2>2. v.alert = (dev.lastLineState2 \/ dev.isrTriggered \/ call # "none")
      BY <1>1, ViewFields
    <2> QED BY <2>1, <2>2
  <1>7. (v.clean => v.call # "irq") /\ (v.clean /\ ~v.low => v.alert)
    <2>1. v.clean = (~dev.isrTriggered /\ dev.lastLineState2 = dev.out /\ call # "irq")
      BY <1>1, ViewFields
    <2>2. v.alert = (dev.lastLineState2 \/ dev.isrTriggered \/ call # "none")
      BY <1>1, ViewFields
    <2>3. v.call = call /\ v.low = ~dev.out
      BY <1>1, ViewFields
    <2> QED BY <1>3, <2>1, <2>2, <2>3
  <1>8. /\ v.low \in BOOLEAN /\ v.hears \in BOOLEAN /\ v.bit \in 0..7
        /\ v.since \in 0..BitAges /\ v.call \in {"none", "due", "irq"} /\ v.away \in Times
    <2>1. v.low = ~dev.out /\ v.hears = others /\ v.bit = dev.txBit
      BY <1>1, ViewFields
    <2>2. v.since = sinceBit /\ v.call = call /\ v.away = away
      BY <1>1, ViewFields
    <2> QED BY <1>2, <1>3, <2>1, <2>2 DEF Clocks
  <1> QED BY <1>5, <1>6, <1>7, <1>8 DEF IsView, v

\* Where the device is in the header.
LEMMA HeadStates ==
    ASSUME IInv, Tx(dev), Heads(dev)
    PROVE  /\ dev.ePrimary = "TRANSMIT" /\ dev.txByte < dev.txCount /\ dev.txByte = 0
           /\ dev.eSecondary \in {"XMIT_STARTBIT1", "XMIT_STARTBIT2",
                                  "XMIT_DATABIT1", "XMIT_DATABIT2"}
           /\ dev.eSecondary \in {"XMIT_STARTBIT1", "XMIT_STARTBIT2"} => dev.txBit = 7
           /\ dev.eSecondary \in {"XMIT_DATABIT1", "XMIT_DATABIT2"} =>
                dev.eTertiary \in 12..18 /\ dev.txBit = 18 - dev.eTertiary
  <1>1. /\ dev.ePrimary = "TRANSMIT" /\ dev.eSecondary # "IDLE_WAIT" /\ dev.txByte = 0
        /\ Sending(dev) /\ Counting(dev)
    BY DEF Heads, OnLine, Tx, IInv, Stable
  <1>2. dev.eSecondary \in {"XMIT_STARTBIT1", "XMIT_STARTBIT2", "XMIT_DATABIT1", "XMIT_DATABIT2"}
    BY <1>1 DEF Sending, XmitStates, XmitAckStates
  <1>3. dev.eTertiary \in 0..24
    BY DEF IInv, Stable, Sound, Typed
  <1>4. dev.eSecondary \in {"XMIT_DATABIT1", "XMIT_DATABIT2"} =>
            dev.eTertiary \in 12..18 /\ dev.txBit = 18 - dev.eTertiary
    BY <1>1, <1>3 DEF Sending, Counting, XMIT_BIT0, XMIT_BIT_EOM
  <1> QED BY <1>1, <1>2, <1>4 DEF Sending, Queued

\* What Run does before it decides, in a frame: it samples the line.
LEMMA PumpsOnLine ==
    ASSUME IInv, Tx(dev), OnLine(dev)
    PROVE  /\ IsDevice(Pumped)
           /\ Agrees(dev, Pumped, Fields \ {"lastLineState2", "isrTriggered", "primaryState"})
           /\ Initiator(Pumped) = Initiator(dev)
           /\ Pumped.lastLineState2 = line
           /\ Pumped.isrTriggered = (dev.isrTriggered \/ dev.lastLineState2 # line)
  <1> DEFINE s == Sampled
             e == [s EXCEPT !.primaryState = "CEC_IDLE"]
  <1>1. IsDevice(dev) /\ Typed(dev) /\ ~ToPoll(dev)
    BY DEF IInv, Stable, Sound, Tx, Free, OnLine
  <1>2. /\ IsDevice(s) /\ Agrees(dev, s, Fields \ {"lastLineState2", "isrTriggered"})
        /\ s.lastLineState2 = line
    BY <1>1 DEF Sampled, Agrees, IsDevice, Fields
  <1>3. s.isrTriggered = (dev.isrTriggered \/ dev.lastLineState2 # line)
    <2>1. dev.isrTriggered \in BOOLEAN
      BY <1>1 DEF Typed
    <2> QED BY <1>1, <2>1 DEF Sampled, IsDevice, Fields
  <1>4. ~ToPoll(s) /\ Initiator(s) = Initiator(dev)
    BY <1>1, <1>2 DEF ToPoll, Initiator, Agrees, Fields
  <1>5. Pumped = IF s.primaryState = "CEC_ALLOCATE_LOGICAL_ADDRESS" THEN s ELSE e
    BY <1>4 DEF Pumped, Pump, ToPoll
  <1> HIDE DEF s
  <1>6. /\ IsDevice(e) /\ Agrees(s, e, Fields \ {"primaryState"})
        /\ e.primaryState = "CEC_IDLE"
    BY <1>2 DEF Agrees, IsDevice, Fields
  <1> HIDE DEF e
  <1>7. CASE s.primaryState = "CEC_ALLOCATE_LOGICAL_ADDRESS"
    BY <1>2, <1>3, <1>4, <1>5, <1>7 DEF Agrees
  <1>8. CASE s.primaryState # "CEC_ALLOCATE_LOGICAL_ADDRESS"
    <2>1. Initiator(e) = Initiator(s)
      BY <1>6, <1>8 DEF Initiator, Agrees, Fields
    <2> QED BY <1>2, <1>3, <1>4, <1>5, <1>6, <1>8, <2>1 DEF Agrees, Fields
  <1> QED BY <1>7, <1>8

\* What Run makes of it: the wake-up time counts first.
LEMMA RunOnLine ==
    ASSUME IInv, Tx(dev), OnLine(dev), ClockedRun
    PROVE  /\ Agrees(dev, dev', Fields \ {"lastLineState2", "isrTriggered", "primaryState"})
           /\ Initiator(dev') = Initiator(dev)
           /\ dev'.lastLineState2 = line
           /\ dev'.isrTriggered =
                (wake = 0 /\ (dev.isrTriggered \/ dev.lastLineState2 # line))
           /\ call' = IF wake = 0 THEN "due"
                      ELSE IF dev.isrTriggered \/ dev.lastLineState2 # line THEN "irq"
                      ELSE "none"
  <1> DEFINE e == [Pumped EXCEPT !.isrTriggered = FALSE]
             p == Pumped
  <1>1. /\ IsDevice(p)
        /\ Agrees(dev, p, Fields \ {"lastLineState2", "isrTriggered", "primaryState"})
        /\ Initiator(p) = Initiator(dev) /\ p.lastLineState2 = line
        /\ p.isrTriggered = (dev.isrTriggered \/ dev.lastLineState2 # line)
    BY PumpsOnLine
  <1>2. /\ call = "none"
        /\ wake = 0 => dev' = p /\ call' = "due"
        /\ wake # 0 => \/ p.isrTriggered /\ dev' = e /\ call' = "irq"
                       \/ ~p.isrTriggered /\ dev' = p /\ call' = call
    BY DEF ClockedRun, RunDue, RunInterrupted, RunAsleep
  <1> HIDE DEF p
  <1>3. /\ Agrees(p, e, Fields \ {"isrTriggered"}) /\ e.isrTriggered = FALSE
        /\ Initiator(e) = Initiator(p)
    BY <1>1 DEF p, Agrees, Initiator, IsDevice, Fields
  <1> HIDE DEF e
  <1>4. CASE wake = 0
    <2>1. dev' = p /\ call' = "due"
      BY <1>2, <1>4
    <2> QED BY <1>1, <1>4, <2>1
  <1>5. CASE wake # 0 /\ p.isrTriggered
    <2>1. dev' = e /\ call' = "irq"
      BY <1>2, <1>5
    <2>2. e.lastLineState2 = line
      BY <1>1, <1>3 DEF Agrees, Fields
    <2>3. Agrees(dev, e, Fields \ {"lastLineState2", "isrTriggered", "primaryState"})
      BY <1>1, <1>3 DEF Agrees
    <2>4. dev'.isrTriggered = (wake = 0 /\ (dev.isrTriggered \/ dev.lastLineState2 # line))
      BY <1>3, <1>5, <2>1
    <2>5. dev.isrTriggered \/ dev.lastLineState2 # line
      BY <1>1, <1>5
    <2>6. Initiator(dev') = Initiator(dev) /\ dev'.lastLineState2 = line
      BY <1>1, <1>3, <2>1, <2>2
    <2> QED BY <1>5, <2>1, <2>3, <2>4, <2>5, <2>6
  <1>6. CASE wake # 0 /\ ~p.isrTriggered
    <2>1. dev' = p /\ call' = "none"
      BY <1>2, <1>6
    <2> QED BY <1>1, <1>6, <2>1
  <1> QED BY <1>4, <1>5, <1>6

\* The assumptions of what follows: a device that is neither in monitor mode nor
\* kept from Run for the length of a bit.
Prompt == ~MonitorMode /\ \A late \in Lateness : late \in 1..599

LEMMA RunInHeader ==
    ASSUME ClockedInv, Tx(dev), Heads(dev), Shape(dev), ClockedRun, UNCHANGED others
    PROVE  RunsIn(View, View') /\ Heads(dev') /\ Shape(dev')
  <1> DEFINE v == View
             u == View'
             edge == dev.isrTriggered \/ dev.lastLineState2 # line
  <1>1. v = ViewOf(dev, sinceBit, wake, call, away, others)
        /\ u = ViewOf(dev', sinceBit', wake', call', away', others')
    BY DEF View
  <1> HIDE DEF v, u
  <1>2. IInv /\ Clocks /\ OnLine(dev) /\ dev.txByte = 0
    BY DEF ClockedInv, Heads
  <1>3. /\ Agrees(dev, dev', Fields \ {"lastLineState2", "isrTriggered", "primaryState"})
        /\ Initiator(dev') = Initiator(dev)
        /\ dev'.lastLineState2 = line
        /\ dev'.isrTriggered = (wake = 0 /\ edge)
        /\ call' = IF wake = 0 THEN "due" ELSE IF edge THEN "irq" ELSE "none"
    BY <1>2, RunOnLine
  <1>4. /\ call = "none" /\ (away = NoTime \/ away = 0) /\ away' = NoTime
        /\ sinceBit' = sinceBit /\ wake' = wake /\ others' = others
    <2>1. away <= 0 /\ away \in Times
      BY <1>2 DEF ClockedRun, Clocks
    <2>2. call = "none"
      BY DEF ClockedRun, RunDue, RunInterrupted, RunAsleep
    <2>3. away = NoTime \/ away = 0
      BY <2>1 DEF Times, NoTime
    <2> QED BY <2>2, <2>3 DEF ClockedRun
  <1>5. /\ dev'.out = dev.out /\ dev'.txBit = dev.txBit /\ dev'.txByte = dev.txByte
        /\ dev'.txDest = dev.txDest /\ dev'.waitTime = dev.waitTime
        /\ dev'.lastLineState = dev.lastLineState
        /\ dev'.ePrimary = dev.ePrimary /\ dev'.eSecondary = dev.eSecondary
    BY <1>3 DEF Agrees, Fields
  <1>6. Heads(dev') /\ Shape(dev') /\ Block(dev') = Block(dev)
    BY <1>2, <1>3, <1>5 DEF Heads, OnLine, Shape, Block
  <1>7. /\ dev.out \in BOOLEAN /\ dev.lastLineState2 \in BOOLEAN
        /\ dev.isrTriggered \in BOOLEAN /\ others \in BOOLEAN
        /\ line = (dev.out /\ others)
    BY <1>2 DEF IInv, Stable, Sound, Typed, line, Line
  <1>8. SamePart(v, u)
    <2>1. u.head = TRUE /\ u.init = v.init
      BY <1>1, <1>3, <1>6, ViewFields
    <2>2. u.hears = v.hears
      BY <1>1, <1>4, ViewFields
    <2>3. u.bit = v.bit /\ u.sent = v.sent
      BY <1>1, <1>5, <1>6, ViewFields
    <2>4. u.low = v.low /\ u.plus = v.plus
      BY <1>1, <1>5, ViewFields
    <2> QED BY <2>1, <2>2, <2>3, <2>4 DEF SamePart, SameBit
  <1>9. /\ v.call = "none" /\ (v.away = NoTime \/ v.away = 0) /\ u.away = NoTime
        /\ u.since = v.since /\ u.wake = v.wake
    BY <1>1, <1>4, ViewFields
  <1>10. v.wake = wake /\ u.call = call' /\ v.low = ~dev.out /\ v.hears = others
    BY <1>1, ViewFields
  <1>11. u.call = "due" <=> v.wake = 0
    BY <1>3, <1>10
  <1>12. v.clean /\ (v.low \/ v.hears) => u.clean
    <2>1. v.clean = (~dev.isrTriggered /\ dev.lastLineState2 = dev.out /\ call # "irq")
      BY <1>1, ViewFields
    <2>2. u.clean = (~dev'.isrTriggered /\ dev'.lastLineState2 = dev'.out /\ call' # "irq")
      BY <1>1, ViewFields
    <2> SUFFICES ASSUME v.clean, v.low \/ v.hears PROVE u.clean
      OBVIOUS
    <2>3. line = dev.out
      BY <1>7, <1>10
    <2>4. edge = FALSE
      BY <1>7, <2>1, <2>3
    <2>5. dev'.isrTriggered = FALSE /\ call' # "irq"
      BY <1>3, <2>4
    <2> QED BY <1>3, <1>5, <2>2, <2>3, <2>5
  <1>13. ~v.low /\ ~v.hears /\ v.alert => u.call # "none"
    <2>1. v.alert = (dev.lastLineState2 \/ dev.isrTriggered \/ call # "none")
      BY <1>1, ViewFields
    <2> SUFFICES ASSUME ~v.low, ~v.hears, v.alert PROVE u.call # "none"
      OBVIOUS
    <2>2. dev.lastLineState2 \/ dev.isrTriggered
      BY <1>4, <2>1
    <2>3. line = FALSE
      BY <1>7, <1>10
    <2>4. edge
      BY <2>2, <2>3
    <2> QED BY <1>3, <1>10, <2>4
  <1>14. u.call # "none" => u.alert
    <2>1. u.alert = (dev'.lastLineState2 \/ dev'.isrTriggered \/ call' # "none")
      BY <1>1, ViewFields
    <2> QED BY <1>10, <2>1
  <1>15. RunsIn(v, u)
    BY <1>8, <1>9, <1>11, <1>12, <1>13, <1>14 DEF RunsIn
  <1> QED BY <1>6, <1>15 DEF v, u

\* loop() is away, or lets the line settle.
LEMMA AwayInHeader ==
    ASSUME Prompt, ClockedInv, Heads(dev), Shape(dev), StaysAway \/ LetsGo,
           UNCHANGED others
    PROVE  (AwayIn(View, View') \/ LetsGoIn(View, View')) /\ Heads(dev') /\ Shape(dev')
  <1> DEFINE v == View
             u == View'
  <1>1. v = ViewOf(dev, sinceBit, wake, call, away, others)
        /\ u = ViewOf(dev', sinceBit', wake', call', away', others')
    BY DEF View
  <1> HIDE DEF v, u
  <1>2. /\ dev' = dev /\ call' = call /\ sinceBit' = sinceBit /\ wake' = wake
        /\ others' = others /\ away = NoTime
    BY DEF StaysAway, LetsGo
  <1>3. u = ViewOf(dev, sinceBit, wake, call, away', others)
    BY <1>1, <1>2
  <1>4. v.head = TRUE /\ u.head = TRUE
    BY <1>1, <1>3, ViewFields
  <1>5. WaitsIn(v, u)
    <2>1. SamePart(v, u)
      <3>1. u.init = v.init /\ u.hears = v.hears
        BY <1>1, <1>3, ViewFields
      <3>2. u.bit = v.bit /\ u.sent = v.sent
        BY <1>1, <1>3, ViewFields
      <3>3. u.low = v.low /\ u.plus = v.plus
        BY <1>1, <1>3, ViewFields
      <3> QED BY <1>4, <3>1, <3>2, <3>3 DEF SamePart, SameBit
    <2>2. u.since = v.since /\ u.wake = v.wake /\ u.call = v.call
      BY <1>1, <1>3, ViewFields
    <2>3. u.clean = v.clean
      BY <1>1, <1>3, ViewFields
    <2>4. u.alert = v.alert
      BY <1>1, <1>3, ViewFields
    <2> QED BY <2>1, <2>2, <2>3, <2>4 DEF WaitsIn
  <1>6. v.call = call /\ v.away = NoTime /\ u.away = away' /\ v.low = ~dev.out
    BY <1>1, <1>2, ViewFields
  <1>7. StaysAway => AwayIn(v, u)
    <2>1. StaysAway => call = "none" /\ away' \in 1..599
      BY DEF StaysAway, Prompt
    <2> QED BY <1>5, <1>6, <2>1 DEF AwayIn
  <1>8. LetsGo => LetsGoIn(v, u)
    <2>1. LetsGo => call # "none" /\ ~dev.out /\ away' = 50
      BY DEF LetsGo, SettleTime
    <2> QED BY <1>5, <1>6, <2>1 DEF LetsGoIn
  <1>9. AwayIn(v, u) \/ LetsGoIn(v, u)
    BY <1>7, <1>8
  <1>10. Heads(dev') /\ Shape(dev')
    BY <1>2
  <1> QED BY <1>9, <1>10 DEF v, u

\* A frame given up is off the line, whatever comes of it.
LEMMA GivesUpLeaves == ASSUME GivesUp PROVE ~OnLine(dev')
  <1> PICK d, w :
        /\ Sound(d) /\ Agrees(dev, d, Fields \ LineFields)
        /\ \/ Returns(Retransmit(d), w)
           \/ \E success \in BOOLEAN : Returns(OnTransmitComplete(ResetState(d), success), w)
    BY DEF GivesUp, Retransmits, Completes
  <1>1. \A r : IsDevice(r) /\ AtRest(r) /\ Returns(r, w) => ~OnLine(dev')
    BY ReturnsAgrees DEF AtRest, OnLine, Agrees, Fields
  <1>2. CASE Returns(Retransmit(d), w)
    <2>1. IsDevice(Retransmit(d)) /\ AtRest(Retransmit(d))
      BY RetransmitRest, RetransmitLine DEF Sound, SameLine
    <2> HIDE DEF Retransmit
    <2> QED BY <1>1, <1>2, <2>1
  <1>3. ASSUME NEW success \in BOOLEAN, Returns(OnTransmitComplete(ResetState(d), success), w)
        PROVE  ~OnLine(dev')
    <2> DEFINE r == ResetState(d)
               c == OnTransmitComplete(r, success)
    <2>1. Sound(r) /\ IsDevice(r) /\ AtRest(r)
      BY ResetStateSound, ResetStateRest DEF Sound
    <2> HIDE DEF r
    <2>2. IsDevice(c) /\ AtRest(c)
      BY <2>1, OnTransmitCompleteRest, OnTransmitCompleteLine DEF SameLine
    <2> HIDE DEF c
    <2>3. Returns(c, w)
      BY <1>3 DEF c, r
    <2> QED BY <1>1, <2>2, <2>3
  <1> QED BY <1>2, <1>3

\* Process at the end of the low part, on a line that rises.
LEMMA RaisesTo ==
    ASSUME IInv, ~MonitorMode, ~Changed, others, NEW s, NEW w,
           Returns([Raise(Seen, others) EXCEPT !.eSecondary = s], w)
    PROVE  /\ Sends(s, dev.eTertiary, dev)
           /\ dev'.out = TRUE /\ dev'.lastLineState = TRUE /\ dev'.lastLineState2 = TRUE
           /\ "bit" \notin dev'.stamps /\ dev'.waitTime = w /\ call' = "none"
  <1> DEFINE r == Raise(Seen, others)
             e == [r EXCEPT !.eSecondary = s]
  <1>1. /\ IsDevice(r) /\ Agrees(dev, r, Fields \ LineFields)
    BY RaisedSeen
  <1>2. /\ r.out = TRUE /\ r.lastLineState = TRUE /\ r.lastLineState2 = TRUE
        /\ "bit" \notin r.stamps
    <2>1. Seen = [dev EXCEPT !.stamps = {}]
      BY DEF Seen
    <2>2. IsDevice(Seen) /\ Seen.stamps = {}
      BY <2>1 DEF IInv, Stable, Sound, IsDevice, Fields
    <2>3. others = TRUE
      BY DEF IInv
    <2> HIDE DEF Seen
    <2>4. /\ r.out = TRUE /\ r.lastLineState2 = others
          /\ r.lastLineState = (Seen.lastLineState \/ others)
          /\ r.stamps = IF others THEN Seen.stamps \cup {"change"} ELSE Seen.stamps
      BY <2>2 DEF Raise, IsDevice, Fields
    <2>5. r.stamps = Seen.stamps \cup {"change"}
      BY <2>3, <2>4
    <2>6. r.lastLineState = TRUE
      BY <2>3, <2>4
    <2>7. r.lastLineState2 = TRUE /\ r.out = TRUE
      BY <2>3, <2>4
    <2> QED BY <2>2, <2>5, <2>6, <2>7
  <1>3. Returns(e, w)
    OBVIOUS
  <1> HIDE DEF r
  <1>4. Sends(s, dev.eTertiary, dev)
    BY <1>1, <1>3, GotoSends
  <1>5. IsDevice(e) /\ Agrees(r, e, Fields \ {"eSecondary"})
    BY <1>1 DEF Agrees, IsDevice, Fields
  <1> HIDE DEF e
  <1>6. Agrees(e, dev', Fields \ {"waitTime"}) /\ dev'.waitTime = w /\ call' = "none"
    BY <1>3, <1>5, ReturnsAgrees DEF Returns, IsDevice, Fields
  <1>7. /\ dev'.out = r.out /\ dev'.lastLineState = r.lastLineState
        /\ dev'.lastLineState2 = r.lastLineState2 /\ dev'.stamps = r.stamps
    BY <1>5, <1>6 DEF Agrees, Fields
  <1> QED BY <1>2, <1>4, <1>6, <1>7

\* What a call of Process leaves in the clocks.
ClockedReturn ==
    /\ Looks /\ away' = NoTime
    /\ sinceBit' = BitAge /\ wake' = TimeLeft(dev'.waitTime)

LEMMA SentHeader ==
    ASSUME NEW s, NEW n, NEW p, Sends(s, n, p)
    PROVE  /\ dev'.ePrimary = dev.ePrimary /\ dev'.txDest = dev.txDest
           /\ dev'.isrTriggered = dev.isrTriggered /\ Initiator(dev') = Initiator(dev)
           /\ Block(dev') = Block(dev)
           /\ dev'.eSecondary = s /\ dev'.eTertiary = n
           /\ dev'.txBit = p.txBit /\ dev'.txByte = p.txByte
  <1>1. Agrees(dev, dev', {"ePrimary", "txDest", "isrTriggered", "primaryState",
                           "logicalAddress"})
    BY DEF Sends, Agrees, Fields, SentFields, LineFields
  <1>2. Initiator(dev') = Initiator(dev)
    BY <1>1 DEF Initiator, Agrees
  <1> QED BY <1>1, <1>2 DEF Sends, Agrees, Block

RisenTo(s, time) ==
    /\ dev.out = FALSE /\ others = TRUE /\ s \in {"XMIT_STARTBIT2", "XMIT_DATABIT2"}
    /\ IF dev.txBit = 7 THEN time = 4500 ELSE time = 2400
    /\ Sends(s, dev.eTertiary, dev)
    /\ dev'.out = TRUE /\ dev'.lastLineState = TRUE /\ dev'.lastLineState2 = TRUE
    /\ "bit" \notin dev'.stamps /\ dev'.waitTime = Deadline("bit", time) /\ call' = "none"

LEMMA RisesFrom ==
    ASSUME ClockedReturn, Heads(dev), others' = others,
           NEW s, NEW time, RisenTo(s, time)
    PROVE  RisesIn(View, View') /\ Heads(dev') /\ Shape(dev')
  <1> DEFINE v == View
             u == View'
  <1>1. v = ViewOf(dev, sinceBit, wake, call, away, others)
        /\ u = ViewOf(dev', sinceBit', wake', call', away', others')
    BY DEF View
  <1> HIDE DEF v, u
  <1>2. dev'.waitTime.base = "bit" /\ dev'.waitTime.plus = time
    BY DEF RisenTo, Deadline
  <1>3. /\ Sends(s, dev.eTertiary, dev)
        /\ dev'.out = TRUE /\ dev'.lastLineState = TRUE /\ dev'.lastLineState2 = TRUE
        /\ "bit" \notin dev'.stamps /\ call' = "none" /\ dev.out = FALSE /\ others = TRUE
    BY DEF RisenTo
  <1>4. /\ dev'.ePrimary = dev.ePrimary /\ Block(dev') = Block(dev)
        /\ Initiator(dev') = Initiator(dev) /\ dev'.isrTriggered = dev.isrTriggered
        /\ dev'.eSecondary = s /\ dev'.txBit = dev.txBit /\ dev'.txByte = dev.txByte
    BY <1>3, SentHeader
  <1>5. Heads(dev') /\ Shape(dev')
    <2>1. dev'.eSecondary # "IDLE_WAIT" /\ dev'.eSecondary \notin {"XMIT_STARTBIT1", "XMIT_DATABIT1"}
      BY <1>4 DEF RisenTo
    <2> QED BY <1>3, <1>4, <2>1 DEF Heads, OnLine, Shape
  <1>6. sinceBit' = sinceBit /\ wake' = Left(time, sinceBit) /\ away' = NoTime
        /\ call # "none" /\ away = 0
    BY <1>2, <1>3 DEF ClockedReturn, Looks, BitAge, TimeLeft
  <1>7. SameBit(v, u) /\ v.low /\ ~u.low /\ v.away = 0 /\ u.since = v.since
    <2>1. u.head = TRUE /\ u.init = v.init /\ u.hears = v.hears
      BY <1>1, <1>4, <1>5, ViewFields
    <2>2. u.bit = v.bit /\ u.sent = v.sent
      BY <1>1, <1>4, ViewFields
    <2>3. v.low = ~dev.out /\ u.low = ~dev'.out
      BY <1>1, ViewFields
    <2>4. v.away = 0 /\ u.since = v.since
      BY <1>1, <1>6, ViewFields
    <2> QED BY <1>3, <2>1, <2>2, <2>3, <2>4 DEF SameBit
  <1>8. Goes(v, u)
    <2>1. v.call # "none" /\ v.hears /\ u.call = "none" /\ u.away = NoTime
      <3>1. v.call = call /\ v.hears = others /\ u.call = call' /\ u.away = away'
        BY <1>1, ViewFields
      <3> QED BY <1>3, <1>6, <3>1
    <2>2. u.plus = time /\ u.bit = dev.txBit /\ u.low = FALSE
      <3>1. u.plus = dev'.waitTime.plus /\ u.bit = dev'.txBit /\ u.low = ~dev'.out
        BY <1>1, ViewFields
      <3> QED BY <1>2, <1>3, <1>4, <3>1
    <2>3. u.plus = Part(u)
      BY <2>2 DEF Part, RisenTo
    <2>4. u.wake = Left(u.plus, u.since)
      BY <1>1, <1>6, <2>2, ViewFields
    <2>5. v.clean = (~dev.isrTriggered /\ dev.lastLineState2 = dev.out /\ call # "irq")
      BY <1>1, ViewFields
    <2>6. u.clean = (~dev'.isrTriggered /\ dev'.lastLineState2 = dev'.out /\ call' # "irq")
      BY <1>1, ViewFields
    <2>7. v.clean => u.clean
      BY <1>3, <1>4, <2>5, <2>6
    <2> QED BY <2>1, <2>3, <2>4, <2>7 DEF Goes
  <1>9. RisesIn(v, u)
    BY <1>7, <1>8 DEF RisesIn
  <1> QED BY <1>5, <1>9 DEF v, u

LEMMA HeaderRises ==
    ASSUME ClockedInv, ~MonitorMode, Tx(dev), Heads(dev), Shape(dev), ClockedReturn,
           UNCHANGED others, TransmitStartBit1 \/ TransmitDataBit1
    PROVE  \/ ~OnLine(dev')
           \/ RisesIn(View, View') /\ Heads(dev') /\ Shape(dev')
  <1>1. IInv /\ ~Changed /\ dev.eSecondary \in {"XMIT_STARTBIT1", "XMIT_DATABIT1"}
    BY DEF ClockedInv, TransmitStartBit1, TransmitDataBit1, Timed, Transmitting
  <1>2. /\ dev.eSecondary = "XMIT_STARTBIT1" => dev.txBit = 7
        /\ dev.eSecondary = "XMIT_DATABIT1" =>
             dev.eTertiary \in 12..18 /\ dev.txBit = 18 - dev.eTertiary
    BY <1>1, HeadStates
  <1>3. dev.out = FALSE
    BY <1>1 DEF Shape, IInv, Stable, Sound, Typed
  <1> DEFINE r == Raise(Seen, others)
  <1>4. /\ Sound(r) /\ Agrees(dev, r, Fields \ LineFields)
    BY <1>1, RaisedSeen
  <1>5. CASE ~others
    <2>1. Returns(Retransmit(r), Never)
      BY <1>5 DEF TransmitStartBit1, TransmitDataBit1
    <2> HIDE DEF r
    <2>2. GivesUp
      BY <1>4, <2>1 DEF Retransmits, GivesUp
    <2> QED BY <2>2, GivesUpLeaves
  <1>6. CASE others /\ TransmitStartBit1
    <2>1. Returns([r EXCEPT !.eSecondary = "XMIT_STARTBIT2"], Deadline("bit", 4500))
      BY <1>6 DEF TransmitStartBit1
    <2>2. dev.txBit = 7
      BY <1>2, <1>6 DEF TransmitStartBit1, Timed, Transmitting
    <2>3. RisenTo("XMIT_STARTBIT2", 4500)
      <3>1. others = TRUE
        BY <1>1, <1>6 DEF IInv
      <3> DEFINE w == Deadline("bit", 4500)
      <3> HIDE DEF w
      <3>2. /\ Sends("XMIT_STARTBIT2", dev.eTertiary, dev)
            /\ dev'.out = TRUE /\ dev'.lastLineState = TRUE /\ dev'.lastLineState2 = TRUE
            /\ "bit" \notin dev'.stamps /\ dev'.waitTime = w /\ call' = "none"
        <4>1. Returns([Raise(Seen, others) EXCEPT !.eSecondary = "XMIT_STARTBIT2"], w)
          BY <2>1 DEF w, r
        <4>2. others /\ ~Changed /\ IInv /\ ~MonitorMode
          BY <1>1, <1>6
        <4> HIDE DEF r
        <4> QED BY ONLY <4>1, <4>2, RaisesTo
      <3> QED BY <1>3, <2>2, <3>1, <3>2 DEF RisenTo, w
    <2> QED BY <2>3, RisesFrom
  <1>7. CASE others /\ TransmitDataBit1
    <2>1. dev.eTertiary \in 12..18 /\ dev.txBit = 18 - dev.eTertiary
      BY <1>2, <1>7 DEF TransmitDataBit1, Timed, Transmitting
    <2>2. dev.txBit # 7 /\ dev.eTertiary # XMIT_BIT_EOM
      BY <2>1 DEF XMIT_BIT_EOM
    <2>3. r.eTertiary = dev.eTertiary
      BY <1>4 DEF Agrees, Fields, LineFields
    <2>4. Returns([r EXCEPT !.eSecondary = "XMIT_DATABIT2"], Deadline("bit", 2400))
      <3> DEFINE q == IF r.eTertiary = XMIT_BIT_EOM THEN "XMIT_ACK" ELSE "XMIT_DATABIT2"
      <3>1. Returns([r EXCEPT !.eSecondary = q], Deadline("bit", 2400))
        BY <1>7 DEF TransmitDataBit1
      <3>2. q = "XMIT_DATABIT2"
        BY <2>2, <2>3
      <3> HIDE DEF q, r
      <3> QED BY <3>1, <3>2
    <2>5. RisenTo("XMIT_DATABIT2", 2400)
      <3>1. others = TRUE
        BY <1>1, <1>7 DEF IInv
      <3> DEFINE w == Deadline("bit", 2400)
      <3> HIDE DEF w
      <3>2. /\ Sends("XMIT_DATABIT2", dev.eTertiary, dev)
            /\ dev'.out = TRUE /\ dev'.lastLineState = TRUE /\ dev'.lastLineState2 = TRUE
            /\ "bit" \notin dev'.stamps /\ dev'.waitTime = w /\ call' = "none"
        <4>1. Returns([Raise(Seen, others) EXCEPT !.eSecondary = "XMIT_DATABIT2"], w)
          BY <2>4 DEF w, r
        <4>2. others /\ ~Changed /\ IInv /\ ~MonitorMode
          BY <1>1, <1>7
        <4> HIDE DEF r
        <4> QED BY ONLY <4>1, <4>2, RaisesTo
      <3> QED BY <1>3, <2>2, <3>1, <3>2 DEF RisenTo, w
    <2> QED BY <2>5, RisesFrom
  <1> QED BY <1>5, <1>6, <1>7

\* Process at the start of a bit: the line falls.
FallenTo(w) ==
    /\ dev.out = TRUE /\ others = TRUE
    /\ dev'.out = FALSE /\ dev'.lastLineState = FALSE /\ dev'.lastLineState2 = FALSE
    /\ "bit" \in dev'.stamps /\ dev'.waitTime = w /\ call' = "none"

LEMMA FallsTo ==
    ASSUME IInv, ~MonitorMode, ~Changed, line, NEW e, IsDevice(e),
           Agrees(Lower(Seen), e, LineFields), NEW w, Returns(e, w)
    PROVE  FallenTo(w)
  <1> DEFINE l == Lower(Seen)
  <1>1. /\ IsDevice(Seen) /\ Seen.lastLineState = line
        /\ line = (dev.out /\ others) /\ dev.out \in BOOLEAN /\ others \in BOOLEAN
    BY SeenSound DEF IInv, Stable, Sound, Typed, line, Line
  <1>2. dev.out = TRUE /\ others = TRUE /\ Seen.lastLineState = TRUE
    BY <1>1
  <1>3. /\ l.out = FALSE /\ l.lastLineState = FALSE /\ l.lastLineState2 = FALSE
        /\ "bit" \in l.stamps
    <2> HIDE DEF Seen
    <2>1. /\ l.out = FALSE /\ l.lastLineState = FALSE /\ l.lastLineState2 = FALSE
          /\ l.stamps = Seen.stamps \cup IF Seen.lastLineState THEN {"bit", "change"}
                                                               ELSE {"change"}
      BY <1>1 DEF Lower, IsDevice, Fields
    <2> QED BY <1>2, <2>1
  <1> HIDE DEF l
  <1>4. Agrees(l, e, LineFields)
    BY DEF l
  <1>5. Agrees(e, dev', Fields \ {"waitTime"}) /\ dev'.waitTime = w /\ call' = "none"
    BY ReturnsAgrees DEF Returns, IsDevice, Fields
  <1>6. /\ dev'.out = l.out /\ dev'.lastLineState = l.lastLineState
        /\ dev'.lastLineState2 = l.lastLineState2 /\ dev'.stamps = l.stamps
    BY <1>4, <1>5 DEF Agrees, Fields, LineFields
  <1> QED BY <1>2, <1>3, <1>5, <1>6 DEF FallenTo

LEMMA HeaderBitFalls ==
    ASSUME IInv, Shape(dev), ~MonitorMode, NEW bit,
           \/ TransmitFirstBit(bit) /\ dev.eSecondary = "XMIT_STARTBIT2"
           \/ TransmitDataBit2(bit)
    PROVE  FallenTo(Deadline("bit", LowTime(bit)))
  <1> DEFINE l == Lower(Seen)
             w == Deadline("bit", LowTime(bit))
  <1>1. Timed("XMIT_STARTBIT2") \/ Timed("XMIT_DATABIT2")
    BY DEF TransmitFirstBit, TransmitDataBit2, Timed, Transmitting
  <1>2. ~Changed /\ line
    <2>1. dev.out = TRUE
      BY <1>1, ReleasedOutside DEF Legitimate, Timed, Transmitting
    <2>2. dev.lastLineState = TRUE
      BY <2>1 DEF Shape
    <2>3. ~Changed
      BY <1>1 DEF Timed
    <2> QED BY <2>2, <2>3 DEF Changed
  <1>3. /\ Sound(l) /\ Agrees(dev, l, Fields \ LineFields)
    BY RaisedSeen
  <1>4. CASE TransmitFirstBit(bit)
    <2> DEFINE p == PopTransmitBit(l)
               e == Step(p, "XMIT_DATABIT1", XMIT_BIT0)
    <2>1. Returns(e, w)
      BY <1>4 DEF TransmitFirstBit, Step
    <2> HIDE DEF l, w
    <2>2. Sound(p) /\ Agrees(l, p, Fields \ {"txBit", "txByte"})
      BY <1>3, PopTransmitBitFrame DEF Agrees
    <2> HIDE DEF p
    <2>3. IsDevice(e) /\ Agrees(p, e, Fields \ {"eSecondary", "eTertiary"})
      BY <2>2 DEF Step, Sound, Agrees, IsDevice, Fields
    <2> HIDE DEF e
    <2>4. Agrees(l, e, LineFields)
      BY <2>2, <2>3 DEF Agrees, LineFields, Fields
    <2> QED BY <1>2, <2>1, <2>3, <2>4, FallsTo DEF l, w
  <1>5. CASE TransmitDataBit2(bit)
    <2> DEFINE d == [l EXCEPT !.eTertiary = @ + 1, !.eSecondary = "XMIT_DATABIT1"]
               p == PopTransmitBit(d)
    <2>1. Returns(d, w) \/ Returns(p, w)
      BY <1>5 DEF TransmitDataBit2
    <2>2. Sound(d) /\ Agrees(l, d, Fields \ {"eSecondary", "eTertiary"})
      <3> DEFINE n == l.eTertiary + 1
      <3>1. dev.eTertiary \in 0..24 /\ dev.eTertiary \in XMIT_BIT0..XMIT_BIT_EOM - 1
        BY <1>5 DEF TransmitDataBit2, Timed, Transmitting, IInv, Stable, Sound, Typed, Counting
      <3>2. n \in 0..24
        <4>1. l.eTertiary = dev.eTertiary
          BY <1>3 DEF Agrees, Fields, LineFields
        <4> QED BY <3>1, <4>1 DEF XMIT_BIT_EOM
      <3>3. Stepped(l, "XMIT_DATABIT1", n)
        <4>1. "XMIT_DATABIT1" \in RcvStates \cup XmitStates
          BY XmitType
        <4> HIDE DEF l, n
        <4> QED BY <1>3, <3>2, <4>1, StepSound
      <3> HIDE DEF l
      <3>4. d = Step(l, "XMIT_DATABIT1", n)
        BY <1>3 DEF Step, Sound, IsDevice, Fields
      <3> HIDE DEF d, n
      <3> QED BY <3>3, <3>4 DEF Stepped, Agrees
    <2> HIDE DEF l, w, d
    <2>3. Sound(p) /\ Agrees(d, p, Fields \ {"txBit", "txByte"})
      BY <2>2, PopTransmitBitFrame DEF Agrees
    <2> HIDE DEF p
    <2>4. Agrees(l, p, LineFields) /\ Agrees(l, d, LineFields)
      BY <2>2, <2>3 DEF Agrees, LineFields, Fields
    <2> QED BY <1>2, <2>1, <2>2, <2>3, <2>4, FallsTo DEF l, w, Sound
  <1> QED BY <1>4, <1>5

LEMMA HeaderPops ==
    ASSUME IInv, Tx(dev), Heads(dev), NEW bit,
           \/ TransmitFirstBit(bit) /\ dev.eSecondary = "XMIT_STARTBIT2"
           \/ TransmitDataBit2(bit)
    PROVE  /\ \E n : Sends("XMIT_DATABIT1", n, PopTransmitBit(dev))
           /\ PopTransmitBit(dev).txBit = (IF dev.txBit = 0 THEN 7 ELSE dev.txBit - 1)
           /\ PopTransmitBit(dev).txByte = (IF dev.txBit = 0 THEN 1 ELSE 0)
  <1>1. /\ dev.txByte < dev.txCount /\ dev.txByte = 0
        /\ dev.eSecondary \in {"XMIT_DATABIT1", "XMIT_DATABIT2"} => dev.eTertiary \in 12..18
    BY HeadStates
  <1>2. /\ PopTransmitBit(dev).txBit = (IF dev.txBit = 0 THEN 7 ELSE dev.txBit - 1)
        /\ PopTransmitBit(dev).txByte = (IF dev.txBit = 0 THEN 1 ELSE 0)
    <2>1. Sound(dev)
      BY DEF IInv, Stable
    <2> HIDE DEF PopTransmitBit
    <2> QED BY <1>1, <2>1, PopAdvances
  <1>3. CASE TransmitFirstBit(bit)
    BY <1>2, <1>3, FirstBitSends
  <1>4. CASE TransmitDataBit2(bit)
    <2>1. dev.eTertiary \in 12..18
      BY <1>1, <1>4 DEF TransmitDataBit2, Timed, Transmitting
    <2>2. dev.eTertiary + 1 # XMIT_BIT_EOM
      BY <2>1 DEF XMIT_BIT_EOM
    <2> QED BY <1>2, <1>4, <2>2, NextBitSends
  <1> QED BY <1>3, <1>4

NextHeaderBit ==
    /\ dev.txBit \in 1..7 /\ dev'.txBit = dev.txBit - 1 /\ dev'.txByte = 0
    /\ \E n, p : Sends("XMIT_DATABIT1", n, p)
    /\ FallenTo(Deadline("bit", LowTime(HeaderBit(dev))))

LEMMA FallsInHeader ==
    ASSUME ClockedReturn, IInv, Heads(dev), others' = others, NextHeaderBit
    PROVE  NextBitIn(View, View') /\ Heads(dev') /\ Shape(dev')
  <1> DEFINE v == View
             u == View'
             low == LowTime(HeaderBit(dev))
             b == dev.txBit
             n == Block(dev)
  <1>1. v = ViewOf(dev, sinceBit, wake, call, away, others)
        /\ u = ViewOf(dev', sinceBit', wake', call', away', others')
    BY DEF View
  <1> HIDE DEF v, u
  <1>2. /\ dev.out = TRUE /\ others = TRUE
        /\ dev'.out = FALSE /\ dev'.lastLineState = FALSE /\ dev'.lastLineState2 = FALSE
        /\ "bit" \in dev'.stamps /\ call' = "none"
        /\ dev'.waitTime = Deadline("bit", low)
    BY DEF NextHeaderBit, FallenTo
  <1>3. dev'.waitTime.base = "bit" /\ dev'.waitTime.plus = low
    BY <1>2 DEF Deadline
  <1>4. /\ dev'.ePrimary = dev.ePrimary /\ dev'.eSecondary = "XMIT_DATABIT1"
        /\ dev'.isrTriggered = dev.isrTriggered /\ Initiator(dev') = Initiator(dev)
        /\ Block(dev') = Block(dev)
    BY SentHeader DEF NextHeaderBit
  <1>5. b \in 1..7 /\ dev'.txBit = b - 1 /\ dev'.txByte = 0
    BY DEF NextHeaderBit
  <1>6. Heads(dev') /\ Shape(dev')
    BY <1>2, <1>4, <1>5 DEF Heads, OnLine, Shape
  <1>7. sinceBit' = 0 /\ away' = NoTime /\ wake' = Left(low, 0)
        /\ call # "none" /\ away = NoTime
    BY <1>2, <1>3 DEF ClockedReturn, Looks, BitAge, TimeLeft
  <1>8. Typed(dev)
    BY DEF IInv, Stable, Sound
  <1>9. n \in 0..255 /\ n \div 16 = Initiator(dev)
    BY <1>8, BlockType
  <1>10. v.bit = b /\ u.bit = b - 1 /\ v.init = Initiator(dev) /\ u.init = Initiator(dev)
    BY <1>1, <1>4, <1>5, ViewFields
  <1>11. v.sent = n \div 2^(b + 1) /\ u.sent = n \div 2^b
    <2>1. u.sent = Block(dev') \div 2^(dev'.txBit + 1) /\ v.sent = Block(dev) \div 2^(dev.txBit + 1)
      BY <1>1, ViewFields
    <2>2. dev'.txBit + 1 = b
      BY <1>5
    <2> QED BY <1>4, <2>1, <2>2
  <1>12. u.sent \div 2 = v.sent
    BY <1>5, <1>9, <1>11, SentBits, ZenonT(60)
  <1>13. u.bit = 3 => u.sent = u.init
    <2> SUFFICES ASSUME b = 4 PROVE u.sent = u.init
      BY <1>5, <1>10
    <2>1. n \div 2^b = n \div 16
      OBVIOUS
    <2> QED BY <1>9, <1>10, <1>11, <2>1
  <1>14. low = IF u.sent % 2 = 1 THEN 600 ELSE 1500
    BY <1>11 DEF LowTime, HeaderBit, HeaderBitAt, Block
  <1>15. Goes(v, u)
    <2>1. v.call = call /\ v.hears = others /\ u.call = call' /\ u.away = away'
      BY <1>1, ViewFields
    <2>2. u.plus = low /\ u.low = TRUE
      <3>1. u.plus = dev'.waitTime.plus /\ u.low = ~dev'.out
        BY <1>1, ViewFields
      <3> QED BY <1>2, <1>3, <3>1
    <2>3. u.plus = Part(u)
      <3>1. u.bit # 7
        BY <1>5, <1>10
      <3> HIDE DEF low
      <3> QED BY <1>14, <2>2, <3>1 DEF Part
    <2>4. u.wake = Left(u.plus, u.since)
      <3>1. u.wake = wake' /\ u.since = sinceBit'
        BY <1>1, ViewFields
      <3> QED BY <1>7, <2>2, <3>1
    <2>5. v.clean = (~dev.isrTriggered /\ dev.lastLineState2 = dev.out /\ call # "irq")
      BY <1>1, ViewFields
    <2>6. u.clean = (~dev'.isrTriggered /\ dev'.lastLineState2 = dev'.out /\ call' # "irq")
      BY <1>1, ViewFields
    <2>7. v.clean => u.clean
      BY <1>2, <1>4, <2>5, <2>6
    <2> QED BY <1>2, <1>7, <2>1, <2>3, <2>4, <2>7 DEF Goes
  <1>16. NextBitIn(v, u)
    <2>1. v.low = ~dev.out /\ u.low = ~dev'.out
      BY <1>1, ViewFields
    <2>2. v.away = NoTime /\ u.since = 0
      BY <1>1, <1>7, ViewFields
    <2>3. u.head = TRUE
      BY <1>1, <1>6, ViewFields
    <2>4. u.hears = v.hears
      BY <1>1, ViewFields
    <2>5. v.bit > 0 /\ u.bit = v.bit - 1
      BY <1>5, <1>10
    <2>6. ~v.low /\ u.low
      BY <1>2, <2>1
    <2> QED BY <1>10, <1>12, <1>13, <1>15, <2>2, <2>3, <2>4, <2>5, <2>6 DEF NextBitIn
  <1> QED BY <1>6, <1>16 DEF v, u

LEMMA HeaderFalls ==
    ASSUME ClockedInv, ~MonitorMode, Tx(dev), Heads(dev), Shape(dev), ClockedReturn,
           others' = others, NEW bit, TransmitBit(bit)
    PROVE  \/ View.bit = 0 /\ ~Heads(dev')
           \/ NextBitIn(View, View') /\ Heads(dev') /\ Shape(dev')
  <1>1. IInv /\ dev.txByte = 0
    BY DEF ClockedInv, Heads
  <1>2. bit = HeaderBit(dev)
    BY <1>1 DEF TransmitBit
  <1>3. \/ TransmitFirstBit(bit) /\ dev.eSecondary = "XMIT_STARTBIT2"
        \/ TransmitDataBit2(bit)
    <2>1. dev.eSecondary # "XMIT_ACK3"
      BY <1>1, HeadStates
    <2> QED BY <2>1 DEF TransmitBit, TransmitFirstBit, Timed, Transmitting
  <1>4. FallenTo(Deadline("bit", LowTime(HeaderBit(dev))))
    BY <1>1, <1>2, <1>3, HeaderBitFalls
  <1>5. PICK n : Sends("XMIT_DATABIT1", n, PopTransmitBit(dev))
    BY <1>1, <1>3, HeaderPops
  <1>6. /\ dev'.txBit = (IF dev.txBit = 0 THEN 7 ELSE dev.txBit - 1)
        /\ dev'.txByte = (IF dev.txBit = 0 THEN 1 ELSE 0)
    <2>1. /\ PopTransmitBit(dev).txBit = (IF dev.txBit = 0 THEN 7 ELSE dev.txBit - 1)
          /\ PopTransmitBit(dev).txByte = (IF dev.txBit = 0 THEN 1 ELSE 0)
      BY <1>1, <1>3, HeaderPops
    <2> HIDE DEF PopTransmitBit
    <2> QED BY <1>5, <2>1 DEF Sends
  <1>7. dev.txBit \in 0..7
    BY <1>1 DEF IInv, Stable, Sound, Typed
  <1>8. CASE dev.txBit = 0
    <2>1. View.bit = 0
      BY <1>8 DEF View, ViewOf
    <2>2. ~Heads(dev')
      BY <1>6, <1>8 DEF Heads
    <2> QED BY <2>1, <2>2
  <1>9. CASE dev.txBit # 0
    <2>1. dev.txBit \in 1..7 /\ dev'.txBit = dev.txBit - 1 /\ dev'.txByte = 0
      BY <1>6, <1>7, <1>9
    <2>2. NextHeaderBit
      BY <1>4, <1>5, <2>1 DEF NextHeaderBit
    <2> QED BY <1>1, <2>2, FallsInHeader
  <1> QED BY <1>8, <1>9

LEMMA ProcessInHeader ==
    ASSUME ClockedInv, ~MonitorMode, Tx(dev), Heads(dev), Shape(dev), ClockedProcess,
           others' = others
    PROVE  \/ ~OnLine(dev')
           \/ View.bit = 0 /\ ~Heads(dev')
           \/ (RisesIn(View, View') \/ NextBitIn(View, View')) /\ Heads(dev') /\ Shape(dev')
  <1>1. IInv
    BY DEF ClockedInv
  <1>2. /\ dev.ePrimary = "TRANSMIT"
        /\ dev.eSecondary \in {"XMIT_STARTBIT1", "XMIT_STARTBIT2", "XMIT_DATABIT1",
                               "XMIT_DATABIT2"}
    BY <1>1, HeadStates
  <1>3. ~Spurious /\ ~IdleEdge /\ ~ReceiveAt(sinceBit)
    BY <1>2 DEF Spurious, IdleEdge, ReceiveAt, Receiving, ReceiveStartBit1, ReceiveStartBit2,
                ReceiveDataBit1, ReceiveDataBit2, ReceiveEndOfBlock, ReceiveAck1, ReceiveAck2,
                ReceiveAckSent, ReceiveLineError
  <1>4. ~AckEdge
    BY <1>2 DEF AckEdge, XmitAckStates
  <1>5. TransmitNow => \/ Collision \/ TransmitStartBit1 \/ TransmitDataBit1
                       \/ \E bit \in {0, 1} : TransmitBit(bit)
    BY <1>2 DEF TransmitNow, Timed, Transmitting, IdleWaitEdge, IdleWaitLow, IdleWaitMore,
                BeginFrame, TransmitAck, TransmitAck2, TransmitNotAcked, TransmitAcked
  <1>6. TransmitNow /\ ClockedReturn
    BY <1>3, <1>4 DEF ClockedProcess, ClockedReturn
  <1>7. CASE Collision
    <2>1. GivesUp
      BY <1>1, <1>2, <1>7, OutcomeSends
    <2> QED BY <2>1, GivesUpLeaves
  <1>8. CASE TransmitStartBit1 \/ TransmitDataBit1
    <2>1. UNCHANGED others
      OBVIOUS
    <2> QED BY <1>6, <1>8, <2>1, HeaderRises
  <1>9. ASSUME NEW bit \in {0, 1}, TransmitBit(bit)
        PROVE  \/ View.bit = 0 /\ ~Heads(dev')
               \/ NextBitIn(View, View') /\ Heads(dev') /\ Shape(dev')
    BY <1>6, <1>9, HeaderFalls
  <1> QED BY <1>5, <1>6, <1>7, <1>8, <1>9

ViewIsFine == IsView(View)
LEMMA ViewIsView == ClockedInv => ViewIsFine
  BY ViewType DEF ViewIsFine
LEMMA NextIsView == ClockedInv' => ViewIsFine'
  BY ViewIsView, PTL

\* The steps of a device while its header is on the line.
LEMMA StepInHeader ==
    ASSUME Prompt, ClockedInv, ClockedInv', Tx(dev), Heading, Heads(dev), others' = others,
           ClockedRun \/ StaysAway \/ LetsGo \/ ClockedProcess
    PROVE  \/ ~OnLine(dev')
           \/ View.bit = 0 /\ ~Heads(dev')
           \/ StepsIn(View, View') /\ Heads(dev') /\ Heading'
  <1>1. ~MonitorMode /\ Shape(dev) /\ Header(View) /\ (View.bit = 7 /\ View.low => View.clean)
    BY DEF Prompt, Heading
  <1>2. \/ ~OnLine(dev')
        \/ View.bit = 0 /\ ~Heads(dev')
        \/ StepsIn(View, View') /\ Heads(dev') /\ Shape(dev')
    <2>1. CASE ClockedRun
      BY <1>1, <2>1, RunInHeader DEF StepsIn
    <2>2. CASE StaysAway \/ LetsGo
      BY <1>1, <2>2, AwayInHeader DEF StepsIn
    <2>3. CASE ClockedProcess
      BY <1>1, <2>3, ProcessInHeader DEF StepsIn
    <2> QED BY <2>1, <2>2, <2>3
  <1>3. ASSUME StepsIn(View, View'), Shape(dev') PROVE Heading'
    <2> DEFINE v == View
               u == View'
    <2>1. IsView(v) /\ IsView(u)
      BY ViewIsView, NextIsView DEF ViewIsFine
    <2> HIDE DEF v, u
    <2>2. Header(u)
      BY <1>1, <1>3, <2>1, SteppedHeader DEF v, u
    <2>3. u.bit = 7 /\ u.low => u.clean
      <3>1. (v.bit = 7 /\ v.low => v.clean) /\ StepsIn(v, u)
        BY <1>1, <1>3 DEF v, u
      <3>2. v.bit \in 0..7
        BY <2>1 DEF IsView
      <3>3. CASE RunsIn(v, u)
        <4>1. u.bit = v.bit /\ u.low = v.low /\ (v.clean /\ v.low => u.clean)
          BY <3>3 DEF RunsIn, SamePart, SameBit
        <4> QED BY <3>1, <4>1
      <3>4. CASE AwayIn(v, u) \/ LetsGoIn(v, u)
        <4>1. u.bit = v.bit /\ u.low = v.low /\ u.clean = v.clean
          BY <3>4 DEF AwayIn, LetsGoIn, WaitsIn, SamePart, SameBit
        <4> QED BY <3>1, <4>1
      <3>5. CASE RisesIn(v, u)
        BY <3>5 DEF RisesIn
      <3>6. CASE NextBitIn(v, u)
        <4>1. u.bit = v.bit - 1
          BY <3>6 DEF NextBitIn
        <4>2. u.bit # 7
          BY <3>2, <4>1
        <4> QED BY <4>2
      <3> QED BY <3>1, <3>3, <3>4, <3>5, <3>6 DEF StepsIn
    <2> QED BY <1>3, <2>2, <2>3 DEF Heading, v, u
  <1> QED BY <1>2, <1>3

\* Time passes, or the line moves, while the header is on it.
LEMMA PassesInHeader ==
    ASSUME ClockedInv, ClockedInv', Tx(dev), Heading, Heads(dev), others' = others,
           NEW time \in Nat, Passes(time), OnTime(time)
    PROVE  PassesIn(View, View', time) /\ Heads(dev') /\ Heading'
  <1> DEFINE v == View
             u == View'
  <1>1. v = ViewOf(dev, sinceBit, wake, call, away, others)
        /\ u = ViewOf(dev', sinceBit', wake', call', away', others')
    BY DEF View
  <1>2. IsView(v) /\ IsView(u) /\ IInv
    BY ViewIsView, NextIsView DEF ViewIsFine, ClockedInv
  <1>3. Header(v) /\ Shape(dev) /\ (v.bit = 7 /\ v.low => v.clean)
    BY DEF Heading
  <1> HIDE DEF v, u
  <1>4. dev' = dev /\ call' = call /\ sinceBit' = AtMost(sinceBit + time, BitAges)
        /\ wake' = Rest(wake, time) /\ away' = Rest(away, time)
    BY DEF Passes
  <1>5. SamePart(v, u)
    <2>1. u.head = TRUE /\ u.init = v.init /\ u.hears = v.hears
      BY <1>1, <1>4, ViewFields
    <2>2. u.bit = v.bit /\ u.sent = v.sent
      BY <1>1, <1>4, ViewFields
    <2>3. u.low = v.low /\ u.plus = v.plus
      BY <1>1, <1>4, ViewFields
    <2> QED BY <2>1, <2>2, <2>3 DEF SamePart, SameBit
  <1>6. u.call = v.call /\ u.since = AtMost(v.since + time, BitAges)
        /\ u.wake = Rest(v.wake, time) /\ u.away = Rest(v.away, time)
    BY <1>1, <1>4, ViewFields
  <1>7. u.clean = v.clean
    BY <1>1, <1>4, ViewFields
  <1>8. u.alert = v.alert
    BY <1>1, <1>4, ViewFields
  <1>9. v.wake = wake /\ v.away = away /\ v.call = call /\ v.hears = others
    BY <1>1, ViewFields
  <1>10. ASSUME ~(v.away > 0)
         PROVE  v.call = "none" /\ v.wake # 0 /\ (~v.hears => ~v.alert)
    <2>1. call = "none" /\ wake # 0 /\ Pumped = dev /\ dev.isrTriggered = FALSE
      <3>1. dev.isrTriggered \in BOOLEAN
        BY <1>2 DEF IInv, Stable, Sound, Typed
      <3> QED BY <1>9, <1>10, <3>1 DEF OnTime, Rests, Asleep
    <2>2. dev.lastLineState2 = line
      BY <1>2, <2>1, PumpsOnLine DEF Heads
    <2>3. others = FALSE => line = FALSE
      BY DEF line, Line
    <2>4. v.alert = (dev.lastLineState2 \/ dev.isrTriggered \/ call # "none")
      BY <1>1, ViewFields
    <2>5. others \in BOOLEAN
      BY <1>2 DEF IInv
    <2> QED BY <1>9, <2>1, <2>2, <2>3, <2>4, <2>5
  <1>11. PassesIn(v, u, time)
    <2>1. (v.wake > 0 => time <= v.wake) /\ (v.away > 0 => time <= v.away)
      BY <1>9 DEF OnTime
    <2> QED BY <1>5, <1>6, <1>7, <1>8, <1>10, <2>1 DEF PassesIn
  <1>12. Header(u)
    BY <1>2, <1>3, <1>11, PassesHeader
  <1>13. u.bit = 7 /\ u.low => u.clean
    BY <1>3, <1>5, <1>7 DEF SamePart, SameBit
  <1>14. Heads(dev') /\ Shape(dev')
    BY <1>3, <1>4
  <1> QED BY <1>11, <1>12, <1>13, <1>14 DEF Heading, v, u

LEMMA HearsInHeader ==
    ASSUME ClockedInv, ClockedInv', Heading, Heads(dev),
           UNCHANGED <<dev, call, sinceBit, wake, away>>
    PROVE  HearsIn(View, View', others') /\ Heads(dev') /\ Heading'
  <1> DEFINE v == View
             u == View'
  <1>1. v = ViewOf(dev, sinceBit, wake, call, away, others)
        /\ u = ViewOf(dev, sinceBit, wake, call, away, others')
    BY DEF View
  <1>2. IsView(v) /\ IsView(u)
    BY ViewIsView, NextIsView DEF ViewIsFine
  <1>3. Header(v) /\ Shape(dev) /\ (v.bit = 7 /\ v.low => v.clean)
    BY DEF Heading
  <1> HIDE DEF v, u
  <1>4. u.head = TRUE /\ u.init = v.init /\ u.bit = v.bit /\ u.sent = v.sent
    BY <1>1, ViewFields
  <1>5. u.low = v.low /\ u.plus = v.plus /\ u.since = v.since /\ u.wake = v.wake
    BY <1>1, ViewFields
  <1>6. u.call = v.call /\ u.away = v.away /\ u.hears = others'
    BY <1>1, ViewFields
  <1>7. u.clean = v.clean
    BY <1>1, ViewFields
  <1>8. u.alert = v.alert
    BY <1>1, ViewFields
  <1>9. HearsIn(v, u, others')
    BY <1>4, <1>5, <1>6, <1>7, <1>8 DEF HearsIn
  <1>10. Header(u)
    BY <1>2, <1>3, <1>9, HearsHeader
  <1>11. u.bit = 7 /\ u.low => u.clean
    BY <1>3, <1>4, <1>5, <1>7
  <1> QED BY <1>3, <1>9, <1>10, <1>11 DEF Heading, v, u

-----------------------------------------------------------------------------
(* Onto the line, and on it.                                               *)

LEMMA RestIsOff == ASSUME NEW d, AtRest(d) PROVE ~OnLine(d)
  BY DEF AtRest, OnLine

\* Run puts no frame on the line.
LEMMA RunStaysOff == ASSUME IInv, ~OnLine(dev), ClockedRun PROVE ~OnLine(dev')
  <1> DEFINE s == Sampled
             p == Pump(s)
             i == [s EXCEPT !.primaryState = "CEC_IDLE"]
  <1>1. IsDevice(s) /\ s.ePrimary = dev.ePrimary /\ s.eSecondary = dev.eSecondary
    BY DEF Sampled, IInv, Stable, Sound, IsDevice, Fields
  <1>2. dev' = p \/ dev' = [p EXCEPT !.isrTriggered = FALSE]
    BY DEF ClockedRun, RunDue, RunInterrupted, RunAsleep, Pumped
  <1> HIDE DEF s
  <1>3. IsDevice(p)
    BY <1>1, PumpLine DEF SameLine
  <1>4. ~OnLine(p)
    <2>1. CASE s.ePrimary = "IDLE"
      <3>1. AtRest(s)
        BY <2>1 DEF AtRest
      <3>2. AtRest(Poll(s))
        BY <1>1, <3>1, PollRest
      <3>3. IsDevice(i) /\ AtRest(i)
        BY <1>1, <3>1 DEF AtRest, IsDevice, Fields
      <3>4. p = Poll(s) \/ p = s \/ p = i
        BY DEF Pump
      <3> QED BY <3>1, <3>2, <3>3, <3>4, RestIsOff
    <2>2. CASE s.ePrimary # "IDLE"
      <3>1. Drives(s, p)
        BY <1>1, <2>2, QueueDrives
      <3> HIDE DEF p
      <3> QED BY <1>1, <3>1 DEF Drives, OnLine
    <2> QED BY <2>1, <2>2
  <1> HIDE DEF p
  <1> QED BY <1>2, <1>3, <1>4 DEF OnLine, IsDevice, Fields

\* The host hands over a frame when none is there.
LEMMA HostStaysOff ==
    ASSUME HostPaced, IInv, Host PROVE ~OnLine(dev) /\ ~OnLine(dev')
  <1>1. Stage(dev) = "empty" /\ ~OnLine(dev)
    BY DEF Host, HostTransmit, Busy, Stage, Waits, OnLine
  <1>2. Stage(dev') \in {"empty", "waiting"}
    <2>1. Moves(dev, dev', TRUE)
      BY HostServed
    <2> HIDE DEF Stage
    <2> QED BY <1>1, <2>1 DEF Moves, Same, At, Ended, Failed, PollsNext
  <1> QED BY <1>1, <1>2 DEF Stage

LEMMA KeepsStaysOff == ASSUME Keeps PROVE ~OnLine(dev')
  <1> PICK d, w :
        /\ IsDevice(d) /\ d.ePrimary # "TRANSMIT"
        /\ Returns(d, w) \/ Resets(d)
    BY DEF Keeps
  <1>1. CASE Returns(d, w)
    BY <1>1, ReturnsAgrees DEF Agrees, Fields, OnLine
  <1>2. CASE Resets(d)
    <2> DEFINE r == ResetState(d)
    <2>1. IsDevice(r) /\ AtRest(r)
      BY ResetStateRest, ResetStateLine DEF SameLine
    <2>2. PICK v : Returns(r, v)
      BY <1>2 DEF Resets
    <2> HIDE DEF r
    <2> QED BY <2>1, <2>2, ReturnsAgrees DEF AtRest, Agrees, Fields, OnLine
  <1> QED BY <1>1, <1>2

\* Process does only by beginning a frame.
LEMMA ProcessStaysOff ==
    ASSUME IInv, ~OnLine(dev), ClockedProcess, OnLine(dev')
    PROVE  Waited /\ BeginFrame /\ ClockedReturn
  <1>1. ~Keeps
    BY KeepsStaysOff
  <1>2. ~(Spurious \/ IdleEdge)
    <2>1. Spurious \/ IdleEdge => dev.ePrimary # "TRANSMIT"
      BY DEF Spurious, IdleEdge
    <2> QED BY <1>1, <2>1, SpuriousKeeps
  <1>3. ~ReceiveAt(sinceBit)
    <2> SUFFICES ASSUME ReceiveAt(sinceBit) PROVE FALSE
      OBVIOUS
    <2>1. dev.ePrimary = "RECEIVE"
      BY DEF ReceiveAt, Receiving, ReceiveStartBit1, ReceiveStartBit2, ReceiveDataBit1,
             ReceiveDataBit2, ReceiveEndOfBlock, ReceiveAck1, ReceiveAck2, ReceiveAckSent,
             ReceiveLineError
    <2>2. Listener(Seen)
      BY <2>1, SeenAgrees DEF Listener, Agrees, TxStill, TxFields, Fields, LineFields
    <2>3. Keeps
      BY <2>2, ReceiveBitKeeps, ReceiveBlockKeeps, ReceiveAckKeeps DEF ReceiveAt
    <2> QED BY <1>1, <2>3
  <1>4. ~AckEdge
    BY DEF AckEdge, OnLine, XmitAckStates
  <1>5. TransmitNow /\ ClockedReturn
    BY <1>2, <1>3, <1>4 DEF ClockedProcess, ClockedReturn
  <1>6. dev.ePrimary = "TRANSMIT" /\ dev.eSecondary = "IDLE_WAIT"
    <2>1. dev.ePrimary = "TRANSMIT"
      BY <1>5, TransmitNowIsTransmit, TransmitIsTransmitting
    <2> QED BY <2>1 DEF OnLine
  <1>7. ~IdleWaitEdge
    <2> DEFINE r == [Seen EXCEPT !.ePrimary = "RECEIVE", !.eSecondary = "RCV_STARTBIT1",
                                 !.transmitPending = TRUE]
    <2>1. IsDevice(Seen) /\ Seen.eSecondary = "IDLE_WAIT"
      BY <1>6, SeenAgrees DEF Agrees, Fields, LineFields
    <2>2. IdleWaitEdge => Returns(Seen, Never) \/ Returns(r, Never)
      BY DEF IdleWaitEdge
    <2> HIDE DEF Seen
    <2>3. IsDevice(r) /\ r.ePrimary = "RECEIVE"
      BY <2>1 DEF IsDevice, Fields
    <2> HIDE DEF r
    <2>4. \A d : IsDevice(d) /\ Returns(d, Never)
             => dev'.ePrimary = d.ePrimary /\ dev'.eSecondary = d.eSecondary
      BY ReturnsAgrees DEF Agrees, Fields
    <2> QED BY <2>1, <2>2, <2>3, <2>4 DEF OnLine
  <1>8. ~IdleWaitLow /\ ~IdleWaitMore
    <2>1. IdleWaitLow \/ IdleWaitMore => dev'.eSecondary = dev.eSecondary
      BY StaysSends DEF Sends
    <2> QED BY <1>6, <2>1 DEF OnLine
  <1>9. ~Collision
    BY <1>6 DEF Collision
  <1>10. Waited /\ BeginFrame
    BY <1>5, <1>6, <1>7, <1>8, <1>9
    DEF TransmitNow, TransmitBit, TransmitFirstBit, TransmitDataBit2, TransmitStartBit1,
        TransmitDataBit1, TransmitAck, TransmitAck2, TransmitNotAcked, TransmitAcked, Timed,
        Transmitting
  <1> QED BY <1>5, <1>10

LEMMA LowShape ==
    ASSUME NEW d, d.out = FALSE, d.lastLineState = FALSE PROVE Shape(d)
  BY DEF Shape

\* No edge is left to be looked at.
Calm(d) == ~d.isrTriggered

\* The header begins.
LEMMA BeginsHeader ==
    ASSUME ClockedInv, ClockedInv', ~MonitorMode, Tx(dev), BeginFrame, ClockedReturn,
           Calm(dev)
    PROVE  StartsAs(View') /\ Heads(dev') /\ Heading'
  <1> DEFINE u == View'
             w == Deadline("bit", 3700)
             l == Lower(Seen)
             e == [l EXCEPT !.amLastTransmittor = TRUE,
                            !.broadcast = (dev.txDest = BROADCAST),
                            !.eSecondary = "XMIT_STARTBIT1"]
  <1>1. u = ViewOf(dev', sinceBit', wake', call', away', others')
    BY DEF View
  <1>2. IsView(u) /\ IInv
    BY NextIsView DEF ViewIsFine, ClockedInv
  <1> HIDE DEF u
  <1>3. /\ dev.ePrimary = "TRANSMIT" /\ dev.eSecondary = "IDLE_WAIT" /\ ~Changed /\ line
        /\ Returns(e, w)
    BY DEF BeginFrame, Timed, Transmitting
  <1>4. dev.txByte = 0 /\ dev.txBit = 7
    BY <1>3 DEF Tx, Sending, Queued
  <1>5. FallenTo(w)
    <2>1. IsDevice(l)
      BY <1>2, RaisedSeen DEF Sound
    <2> HIDE DEF l, w
    <2>2. IsDevice(e) /\ Agrees(l, e, LineFields)
      BY <2>1 DEF Agrees, LineFields, IsDevice, Fields
    <2> HIDE DEF e
    <2>3. Agrees(Lower(Seen), e, LineFields)
      BY <2>2 DEF l
    <2> QED BY <1>2, <1>3, <2>2, <2>3, FallsTo
  <1> HIDE DEF e, l
  <1>6. Sends("XMIT_STARTBIT1", dev.eTertiary, dev)
    BY <1>2, BeginFrameSends
  <1>7. /\ dev'.out = FALSE /\ dev'.lastLineState = FALSE /\ dev'.lastLineState2 = FALSE
        /\ "bit" \in dev'.stamps /\ dev'.waitTime = w /\ call' = "none"
    BY <1>5 DEF FallenTo
  <1>8. /\ dev'.ePrimary = "TRANSMIT" /\ dev'.eSecondary = "XMIT_STARTBIT1"
        /\ dev'.isrTriggered = FALSE /\ dev'.txByte = 0 /\ dev'.txBit = 7
        /\ Block(dev') = Block(dev)
    <2>1. dev.isrTriggered = FALSE
      BY <1>2 DEF Calm, IInv, Stable, Sound, Typed
    <2> QED BY <1>3, <1>4, <1>6, <2>1, SentHeader
  <1>9. Heads(dev') /\ Shape(dev')
    <2>1. Heads(dev')
      BY <1>8 DEF Heads, OnLine
    <2>2. Shape(dev')
      <3>1. dev'.out = FALSE
        BY <1>7
      <3>2. dev'.lastLineState = FALSE
        BY <1>7
      <3> QED BY ONLY <3>1, <3>2, LowShape
    <2> QED BY <2>1, <2>2
  <1>10. w.base = "bit" /\ w.plus = 3700
    BY DEF Deadline
  <1> HIDE DEF w
  <1>11. sinceBit' = 0 /\ wake' = Left(3700, 0) /\ away' = NoTime
    BY <1>7, <1>10 DEF ClockedReturn, BitAge, TimeLeft
  <1>12. u.head = TRUE /\ u.bit = 7 /\ u.since = 0
    BY <1>1, <1>8, <1>9, <1>11, ViewFields
  <1>13. u.sent = 0
    <2>1. u.sent = Block(dev') \div 2^(dev'.txBit + 1)
      BY <1>1, ViewFields
    <2>2. Block(dev') \in 0..255
      BY <1>2, <1>8, BlockType DEF IInv, Stable, Sound
    <2>3. Block(dev') \div 2^(7 + 1) = 0
      BY <2>2, SentBits
    <2> QED BY <1>8, <2>1, <2>3
  <1>14. u.low = TRUE
    <2>1. u.low = ~dev'.out
      BY <1>1, ViewFields
    <2> QED BY <1>7, <2>1
  <1>15. u.clean = TRUE
    <2>1. u.clean = (~dev'.isrTriggered /\ dev'.lastLineState2 = dev'.out /\ call' # "irq")
      BY <1>1, ViewFields
    <2> QED BY <1>7, <1>8, <2>1
  <1>16. u.plus = 3700
    <2>1. u.plus = dev'.waitTime.plus
      BY <1>1, ViewFields
    <2> QED BY <1>7, <1>10, <2>1
  <1>17. u.wake = Left(3700, 0) /\ u.call = "none" /\ u.away = NoTime
    BY <1>1, <1>7, <1>11, ViewFields
  <1>18. Part(u) = 3700
    BY <1>12, <1>14 DEF Part
  <1>19. StartsAs(u)
    BY <1>12, <1>13, <1>14, <1>15, <1>16, <1>17, <1>18 DEF StartsAs
  <1>20. Header(u)
    BY <1>2, <1>19, StartsHeader
  <1> QED BY <1>9, <1>15, <1>19, <1>20 DEF Heading, u

\* On the line the initiator of the frame stays, and the blocks are counted up.
StaysOn == Initiator(dev') = Initiator(dev) /\ (dev'.txByte = 0 => dev.txByte = 0)

LEMMA SendsStaysOn ==
    ASSUME IInv, NEW s, NEW n, NEW p, p = dev \/ p = PopTransmitBit(dev), Sends(s, n, p)
    PROVE  StaysOn
  <1>1. dev.txByte \in Nat /\ IsDevice(dev)
    BY SizeAssumption DEF IInv, Stable, Sound, Typed
  <1>2. PopTransmitBit(dev).txByte \in {dev.txByte, dev.txByte + 1}
    BY <1>1 DEF PopTransmitBit, IsDevice, Fields
  <1>3. p.txByte = 0 => dev.txByte = 0
    <2>1. p.txByte \in {dev.txByte, dev.txByte + 1}
      BY <1>2
    <2> QED BY <1>1, <2>1
  <1>4. dev'.txByte = p.txByte /\ Initiator(dev') = Initiator(dev)
    BY SentHeader
  <1> QED BY <1>3, <1>4 DEF StaysOn

LEMMA ProcessStaysOn ==
    ASSUME IInv, OnLine(dev), ClockedProcess, OnLine(dev') PROVE StaysOn
  <1>1. dev.ePrimary = "TRANSMIT" /\ dev.eSecondary # "IDLE_WAIT"
    BY DEF OnLine
  <1>2. ~GivesUp
    BY GivesUpLeaves
  <1>3. \/ AckEdge \/ Collision \/ TransmitStartBit1 \/ TransmitDataBit1
        \/ \E bit \in {0, 1} : TransmitFirstBit(bit) \/ TransmitDataBit2(bit)
        \/ TransmitAck \/ TransmitAck2 \/ TransmitNotAcked \/ TransmitAcked
    BY <1>1 DEF ClockedProcess, TransmitNow, TransmitBit, Spurious, IdleEdge, ReceiveAt,
                Receiving, ReceiveStartBit1, ReceiveStartBit2, ReceiveDataBit1, ReceiveDataBit2,
                ReceiveEndOfBlock, ReceiveAck1, ReceiveAck2, ReceiveAckSent, ReceiveLineError,
                IdleWaitEdge, IdleWaitLow, IdleWaitMore, BeginFrame, Timed, Transmitting
  <1>4. \E s, n, p : (p = dev \/ p = PopTransmitBit(dev)) /\ Sends(s, n, p)
    <2>1. CASE AckEdge
      BY <2>1, StaysSends
    <2>2. CASE Collision \/ TransmitNotAcked \/ TransmitAcked
      BY <1>2, <2>2, OutcomeSends
    <2>3. CASE TransmitStartBit1 \/ TransmitDataBit1 \/ TransmitAck2
      BY <1>2, <2>3, LowPartSends DEF GivesUp
    <2>4. CASE TransmitAck
      BY <2>4, TransmitAckSends
    <2>5. ASSUME NEW bit, TransmitFirstBit(bit) \/ TransmitDataBit2(bit)
          PROVE  \E s, n, p : (p = dev \/ p = PopTransmitBit(dev)) /\ Sends(s, n, p)
      BY <2>5, FirstBitSends, NextBitSends
    <2> QED BY <1>3, <2>1, <2>2, <2>3, <2>4, <2>5
  <1> QED BY <1>4, SendsStaysOn

LEMMA StepStaysOn ==
    ASSUME IInv, Tx(dev), OnLine(dev), OnLine(dev'),
           ClockedRun \/ ClockedProcess \/ UNCHANGED dev
    PROVE  StaysOn
  <1>1. CASE ClockedRun
    <2>1. /\ Agrees(dev, dev', Fields \ {"lastLineState2", "isrTriggered", "primaryState"})
          /\ Initiator(dev') = Initiator(dev)
      BY <1>1, RunOnLine
    <2> QED BY <2>1 DEF StaysOn, Agrees, Fields
  <1>2. CASE UNCHANGED dev
    BY <1>2 DEF StaysOn
  <1> QED BY <1>1, <1>2, ProcessStaysOn

\* A call of a device, on a line that stays: a frame begins, goes on, or leaves the line.
Acts == ClockedRun \/ StaysAway \/ LetsGo \/ ClockedProcess

LEMMA BeginsOnLine ==
    ASSUME Prompt, ClockedInv, ClockedInv', Tx(dev), Acts, ~OnLine(dev), OnLine(dev')
    PROVE  Begins /\ (Calm(dev) => StartsAs(View') /\ Heading')
  <1>1. IInv /\ ~MonitorMode
    BY DEF ClockedInv, Prompt
  <1>2. ClockedProcess
    <2>1. ~ClockedRun
      BY <1>1, RunStaysOff
    <2>2. ~StaysAway /\ ~LetsGo
      BY DEF StaysAway, LetsGo
    <2> QED BY <2>1, <2>2 DEF Acts
  <1>3. Waited /\ BeginFrame /\ ClockedReturn
    BY <1>1, <1>2, ProcessStaysOff
  <1>4. Begins
    BY <1>3 DEF Begins, BeginFrame, ClockedReturn
  <1>5. Calm(dev) => StartsAs(View') /\ Heading'
    BY <1>1, <1>3, BeginsHeader
  <1> QED BY <1>4, <1>5

LEMMA GoesOnOnLine ==
    ASSUME Prompt, ClockedInv, ClockedInv', Tx(dev), Heading, Acts, others' = others,
           OnLine(dev), OnLine(dev')
    PROVE  /\ StaysOn /\ Heading'
           /\ Heads(dev) => View.bit = 0 \/ StepsIn(View, View')
  <1>1. IInv
    BY DEF ClockedInv
  <1>2. StaysOn
    <2>1. ClockedRun \/ ClockedProcess \/ UNCHANGED dev
      BY DEF Acts, StaysAway, LetsGo
    <2> QED BY <1>1, <2>1, StepStaysOn
  <1>3. CASE Heads(dev)
    <2>1. \/ ~OnLine(dev')
          \/ View.bit = 0 /\ ~Heads(dev')
          \/ StepsIn(View, View') /\ Heads(dev') /\ Heading'
      BY <1>3, StepInHeader DEF Acts
    <2> QED BY <1>2, <2>1 DEF Heading
  <1>4. CASE ~Heads(dev)
    <2>1. ~Heads(dev')
      BY <1>2, <1>4 DEF StaysOn, Heads
    <2> QED BY <1>2, <1>4, <2>1 DEF Heading
  <1> QED BY <1>3, <1>4

LEMMA OffLineHeading == ASSUME ~OnLine(dev') PROVE Heading'
  BY DEF Heading, Heads

\* What time and the line do to it.
LEMMA PassesOnLine ==
    ASSUME ClockedInv, ClockedInv', Tx(dev), Heading, others' = others,
           NEW time \in Nat, Passes(time), OnLine(dev) => OnTime(time)
    PROVE  Heading' /\ (Heads(dev) => PassesIn(View, View', time))
  <1>1. dev' = dev
    BY DEF Passes
  <1>2. CASE Heads(dev)
    BY <1>2, PassesInHeader DEF Heads
  <1>3. CASE ~Heads(dev)
    BY <1>1, <1>3 DEF Heading
  <1> QED BY <1>2, <1>3

LEMMA HearsOnLine ==
    ASSUME ClockedInv, ClockedInv', Heading, UNCHANGED <<dev, call, sinceBit, wake, away>>
    PROVE  Heading' /\ (Heads(dev) => HearsIn(View, View', others'))
  <1>1. CASE Heads(dev)
    BY <1>1, HearsInHeader
  <1>2. CASE ~Heads(dev)
    BY <1>2 DEF Heading
  <1> QED BY <1>1, <1>2

\* What the other one makes of it.
LEMMA PinsIsPin == ASSUME ClockedInv PROVE Pins(View) = pin
  <1>1. View.low = ~dev.out /\ View.call = call /\ View.away = away
    BY DEF View, ViewOf
  <1>2. dev.out \in BOOLEAN
    BY DEF ClockedInv, IInv, Stable, Sound, Typed
  <1> QED BY <1>1, <1>2 DEF Pins, pin

LEMMA FineHeader == ASSUME ClockedInv, Heading, Heads(dev) PROVE Fine(View)
  BY ViewIsView DEF ViewIsFine, Heading, Fine

LEMMA BegunHeader ==
    ASSUME ClockedInv, Tx(dev), Heading, OnLine(dev), dev.eSecondary = "XMIT_STARTBIT1",
           sinceBit = 0
    PROVE  Heads(dev) /\ View.head /\ View.bit = 7 /\ View.low /\ View.since = 0 /\ View.clean
  <1>1. dev.txByte = 0 /\ dev.txBit = 7
    BY DEF OnLine, Tx, Sending, Queued
  <1>2. Heads(dev)
    BY <1>1 DEF Heads
  <1>3. dev.out = FALSE
    BY <1>2 DEF Heading, Shape, ClockedInv, IInv, Stable, Sound, Typed
  <1>4. View.head = Heads(dev) /\ View.bit = dev.txBit /\ View.low = ~dev.out
    BY DEF View, ViewOf
  <1>5. View.since = sinceBit
    BY DEF View, ViewOf
  <1>6. View.bit = 7 /\ View.low
    BY <1>1, <1>3, <1>4
  <1>7. View.clean
    BY <1>2, <1>6 DEF Heading
  <1> QED BY <1>2, <1>4, <1>5, <1>6, <1>7
=============================================================================
