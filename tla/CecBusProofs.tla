----------------------------- MODULE CecBusProofs -----------------------------
(***************************************************************************)
(* The devices of the bus are devices of CecClocked: the line that the     *)
(* others and the third party leave to a device, and the moments at which  *)
(* the bus lets time pass, are among those a device may meet anywhere.     *)
(***************************************************************************)
EXTENDS CecBus, WellFoundedInduction, TLAPS

-----------------------------------------------------------------------------
(* The next moment at which something happens is a number.                 *)

LEMMA EarliestExists ==
    ASSUME NEW S, S \subseteq Nat, S # {}
    PROVE  \E t \in S : \A u \in S : t <= u
  <1> DEFINE R == OpToRel(<, Nat)
  <1>1. IsWellFoundedOn(R, Nat)
    BY NatLessThanWellFounded
  <1>2. PICK t \in S : \A u \in S : ~(<<u, t>> \in R)
    <2> HIDE DEF R
    <2> QED BY <1>1, WFMin
  <1>3. \A u \in S : t <= u
    <2> SUFFICES ASSUME NEW u \in S, ~(t <= u) PROVE FALSE
      OBVIOUS
    <2>1. u < t /\ <<u, t>> \in Nat \X Nat
      OBVIOUS
    <2>2. <<u, t>> \in R
      BY <2>1 DEF OpToRel
    <2> QED BY <1>2, <2>2
  <1> QED BY <1>3

LEMMA NextTimeIsTime == NextTime \in Nat
  <1>1. CASE Dues = {}
    BY <1>1 DEF NextTime, Silence
  <1>2. CASE Dues # {}
    <2>1. Dues \subseteq Nat
      BY DEF Dues
    <2>2. \E t \in Dues : \A u \in Dues : t <= u
      BY <1>2, <2>1, EarliestExists
    <2>3. NextTime \in Dues
      <3> HIDE DEF Dues
      <3> QED BY <1>2, <2>2 DEF NextTime
    <2> QED BY <2>1, <2>3
  <1> QED BY <1>1, <1>2

-----------------------------------------------------------------------------
(* The levels are Boolean, so one that changes is the negation of the      *)
(* other.                                                                  *)

Levels == others1 \in BOOLEAN /\ others2 \in BOOLEAN

LEMMA LeftIsLevel == Left1 \in BOOLEAN /\ Left2 \in BOOLEAN
  BY DEF Left1, Left2

LEMMA LevelsStay == Levels /\ [Next]_vars => Levels'
  <1> SUFFICES ASSUME Levels, [Next]_vars PROVE Levels'
    OBVIOUS
  <1>1. CASE Settle
    BY <1>1, LeftIsLevel DEF Settle, Levels
  <1>2. CASE UNCHANGED levels
    BY <1>2 DEF Levels, levels
  <1>3. Settle \/ UNCHANGED levels
    BY DEF Next, Run1, Process1, Host1, Run2, Process2, Host2, PowerUp2, Tick, Disturb,
           Release, vars
  <1> QED BY <1>1, <1>2, <1>3

-----------------------------------------------------------------------------
(* The first device.                                                       *)

view1 == <<D1!vars, clocks1>>

LEMMA Settle1 == ASSUME Levels, Settle PROVE [D1!LineMoves]_view1 /\ UNCHANGED clocks1
  <1>1. UNCHANGED <<dev1, call1, clocks1>>
    BY DEF Settle, station1
  <1>2. CASE UNCHANGED others1
    BY <1>1, <1>2 DEF view1, D1!vars
  <1>3. CASE others1' = Left1 /\ others1 # Left1
    <2>1. others1' = ~others1
      BY <1>3, LeftIsLevel DEF Levels
    <2> QED BY <1>1, <2>1 DEF D1!LineMoves
  <1> QED BY <1>1, <1>2, <1>3 DEF Settle

LEMMA Host1IsHost == ASSUME Host1 PROVE D1!Host /\ UNCHANGED <<clocks1, others1>>
  <1>1. Nibbles \cap {dev2.address, BROADCAST} \subseteq Nibbles
    OBVIOUS
  <1> QED BY <1>1 DEF Host1, D1!Host, levels

LEMMA FirstStep == ASSUME Levels, [Next]_vars PROVE [D1!ClockedNext]_view1
  <1>1. CASE Run1
    BY <1>1 DEF Run1, levels, D1!ClockedNext
  <1>2. CASE Process1
    BY <1>2 DEF Process1, levels, D1!ClockedNext
  <1>3. CASE Host1
    BY <1>3, Host1IsHost DEF D1!ClockedNext, D1!clocks, clocks1
  <1>4. CASE Settle
    BY <1>4, Settle1 DEF D1!ClockedNext, D1!clocks, clocks1
  <1>5. CASE Tick
    BY <1>5, NextTimeIsTime DEF Tick, levels, D1!ClockedNext
  <1>6. CASE Run2 \/ Process2 \/ Host2 \/ PowerUp2 \/ Disturb \/ Release \/ UNCHANGED vars
    BY <1>6 DEF Run2, Process2, Host2, PowerUp2, Disturb, Release, vars, station1, levels,
                view1, D1!vars
  <1> QED BY <1>1, <1>2, <1>3, <1>4, <1>5, <1>6 DEF Next

\* Whatever the other device, the third party and the hosts do, the first
\* device does what a single CEC_Device with a clock does (Run and Process).
THEOREM FirstIsClocked == Spec => D1!ClockedSpec
  <1>1. Init => Levels /\ D1!ClockedInit
    BY DEF Init, Levels, D1!ClockedInit, NoTime, D1!NoTime
  <1>2. Levels /\ [Next]_vars => Levels' /\ [D1!ClockedNext]_view1
    BY LevelsStay, FirstStep
  <1>3. view1 = <<D1!vars, D1!clocks>>
    BY DEF view1, clocks1, D1!clocks
  <1> QED BY <1>1, <1>2, <1>3, PTL DEF Spec, D1!ClockedSpec, view1, clocks1, D1!clocks

-----------------------------------------------------------------------------
(* The second device: nothing until it is powered up, then the same.       *)

view2 == <<D2!vars, clocks2>>

BootTimes == boot \in Nat \cup {NoTime}

SecondStep ==
    IF boot = NoTime THEN boot' = NoTime /\ [D2!ClockedNext]_view2
    ELSE boot' = NoTime => D2!ClockedInit'

LEMMA RestOfBoot ==
    ASSUME NEW time \in Nat, BootTimes
    PROVE  /\ D1!Rest(boot, time) \in Nat \cup {NoTime}
           /\ D1!Rest(boot, time) = NoTime <=> boot = NoTime
  BY DEF BootTimes, D1!Rest, D1!Left, NoTime, D1!NoTime

LEMMA BootStep ==
    ASSUME BootTimes, [Next]_vars
    PROVE  BootTimes' /\ (boot = NoTime => boot' = NoTime)
                      /\ (boot # NoTime /\ boot' = NoTime => PowerUp2)
  <1>1. CASE Tick
    <2>1. boot' = D1!Rest(boot, NextTime)
      BY <1>1 DEF Tick
    <2> QED BY <2>1, NextTimeIsTime, RestOfBoot DEF BootTimes, NoTime
  <1>2. CASE PowerUp2
    BY <1>2 DEF PowerUp2, BootTimes
  <1>3. CASE UNCHANGED boot
    BY <1>3 DEF BootTimes, NoTime
  <1>4. Tick \/ PowerUp2 \/ UNCHANGED boot
    BY DEF Next, Run1, Process1, Host1, Run2, Process2, Host2, Settle, Disturb, Release, vars
  <1> QED BY <1>1, <1>2, <1>3, <1>4

LEMMA PowerUpIsInit == ASSUME Levels, PowerUp2 PROVE D2!ClockedInit'
  BY DEF PowerUp2, levels, Levels, D2!PoweredUp, D2!ClockedInit

LEMMA Settle2 == ASSUME Levels, Settle PROVE [D2!LineMoves]_view2 /\ UNCHANGED clocks2
  <1>1. UNCHANGED <<dev2, call2, clocks2>>
    BY DEF Settle, station2
  <1>2. CASE UNCHANGED others2
    BY <1>1, <1>2 DEF view2, D2!vars
  <1>3. CASE others2' = Left2 /\ others2 # Left2
    <2>1. others2' = ~others2
      BY <1>3, LeftIsLevel DEF Levels
    <2> QED BY <1>1, <2>1 DEF D2!LineMoves
  <1> QED BY <1>1, <1>2, <1>3 DEF Settle

LEMMA Host2IsHost == ASSUME Host2 PROVE D2!Host /\ UNCHANGED <<clocks2, others2>>
  BY DEF Host2, D2!Host, levels

LEMMA SecondActs ==
    ASSUME Levels, [Next]_vars, ~PowerUp2 PROVE [D2!ClockedNext]_view2
  <1>1. CASE Run2
    BY <1>1 DEF Run2, levels, D2!ClockedNext
  <1>2. CASE Process2
    BY <1>2 DEF Process2, levels, D2!ClockedNext
  <1>3. CASE Host2
    BY <1>3, Host2IsHost DEF D2!ClockedNext, D2!clocks, clocks2
  <1>4. CASE Settle
    BY <1>4, Settle2 DEF D2!ClockedNext, D2!clocks, clocks2
  <1>5. CASE Tick
    BY <1>5, NextTimeIsTime DEF Tick, levels, D2!ClockedNext
  <1>6. CASE Run1 \/ Process1 \/ Host1 \/ Disturb \/ Release \/ UNCHANGED vars
    BY <1>6 DEF Run1, Process1, Host1, Disturb, Release, vars, station2, levels,
                view2, D2!vars
  <1> QED BY <1>1, <1>2, <1>3, <1>4, <1>5, <1>6 DEF Next

\* The second device starts like any other (setup) at the moment it is powered
\* up, in the middle of whatever the first is doing, and from then on does what
\* a single CEC_Device with a clock does.
THEOREM SecondIsClocked == Spec => [][SecondStep]_<<view2, boot>>
  <1> DEFINE Known == Levels /\ BootTimes
  <1>1. Init => Known
    BY MomentsAssumption DEF Init, Levels, BootTimes
  <1>2. Known /\ [Next]_vars => Known'
    BY LevelsStay, BootStep
  <1>3. Known /\ [Next]_vars => [SecondStep]_<<view2, boot>>
    <2>1. PowerUp2 => boot # NoTime
      BY DEF PowerUp2, NoTime
    <2> QED BY <2>1, BootStep, SecondActs, PowerUpIsInit DEF SecondStep
  <1> HIDE DEF Known
  <1> QED BY <1>1, <1>2, <1>3, PTL DEF Spec

-----------------------------------------------------------------------------
(* What is proved of one device holds of both.                             *)

\* The constants of the devices are as CecDevice, CecEngine and the theorems of
\* CecClockedProofs assume.
LEMMA DevicesAssume ==
    /\ SERIAL_BUFFER_SIZE \in Nat /\ SERIAL_BUFFER_SIZE >= 2
    /\ CEC_E_MAX_RETRANSMIT \in Nat \ {0}
    /\ FALSE \in BOOLEAN /\ TRUE \in BOOLEAN /\ Promiscuous \in BOOLEAN
    /\ Type1 \in DOMAIN D1!ValidLogicalAddresses /\ Type2 \in DOMAIN D2!ValidLogicalAddresses
    /\ Ages \subseteq Nat /\ Nibbles \subseteq 0..15 /\ FrameSizes \subseteq Nat
    /\ SERIAL_BUFFER_SIZE \in 1..SERIAL_BUFFER_SIZE
    /\ Lateness \subseteq Nat /\ 0..15 \subseteq Nibbles
    /\ 0..D1!BitAges \subseteq Ages /\ 0..D2!BitAges \subseteq Ages
  <1>1. D1!ValidLogicalAddresses = D2!ValidLogicalAddresses
    BY DEF D1!ValidLogicalAddresses, D2!ValidLogicalAddresses
  <1>2. SERIAL_BUFFER_SIZE \in Nat /\ SERIAL_BUFFER_SIZE >= 2
    BY SizeAssumption
  <1>3. SERIAL_BUFFER_SIZE \in 1..SERIAL_BUFFER_SIZE
    BY <1>2
  <1>4. Ages \subseteq Nat /\ 0..D1!BitAges \subseteq Ages /\ 0..D2!BitAges \subseteq Ages
    BY DEF Ages, D1!BitAges, D2!BitAges
  <1>5. Nibbles \subseteq 0..15 /\ 0..15 \subseteq Nibbles
    BY DEF Nibbles
  <1> QED BY <1>1, <1>2, <1>3, <1>4, <1>5, RetryAssumption, ModeAssumption, FrameAssumption,
             LatenessAssumption, TypesAssumption

\* The invariants of the two devices, with what the steps need of the bus.
Devices == Levels /\ BootTimes /\ D1!ClockedInv /\ D2!ClockedInv

LEMMA InitDevices == Init => Devices
  <1> SUFFICES ASSUME Init PROVE Devices
    OBVIOUS
  <1>1. Levels /\ BootTimes
    BY MomentsAssumption DEF Init, Levels, BootTimes
  <1>2. D1!ClockedInv
    <2>1. D1!ClockedInit
      BY DEF Init, D1!ClockedInit, NoTime, D1!NoTime
    <2> QED BY <2>1, D1!InitClocked, DevicesAssume
  <1>3. D2!IInv
    <2>1. D2!Init
      BY DEF Init, D2!Init
    <2> QED BY <2>1, D2!InitIInv, DevicesAssume
  <1>4. D2!Clocks
    BY DEF Init, NoTime, D2!Clocks, D2!Times, D2!NoTime, D2!BitAges, D2!ChangeAges
  <1> QED BY <1>1, <1>2, <1>3, <1>4 DEF Devices, D2!ClockedInv

LEMMA FirstStays == Devices /\ [Next]_vars => D1!ClockedInv'
  <1> SUFFICES ASSUME Devices, [Next]_vars PROVE D1!ClockedInv'
    OBVIOUS
  <1>1. [D1!ClockedNext]_<<D1!vars, D1!clocks>>
    BY FirstStep DEF Devices, view1, clocks1, D1!clocks
  <1>2. D1!ClockedInv
    BY DEF Devices
  <1> QED BY <1>1, <1>2, D1!NextClocked, DevicesAssume

LEMMA SecondStays == Devices /\ [Next]_vars => D2!ClockedInv' \/ D2!ClockedInit'
  <1> SUFFICES ASSUME Devices, [Next]_vars, ~PowerUp2 PROVE D2!ClockedInv'
    BY PowerUpIsInit DEF Devices
  <1>1. [D2!ClockedNext]_<<D2!vars, D2!clocks>>
    BY SecondActs DEF Devices, view2, clocks2, D2!clocks
  <1>2. D2!ClockedInv
    BY DEF Devices
  <1> QED BY <1>1, <1>2, D2!NextClocked, DevicesAssume

LEMMA AlwaysDevices == Spec => []Devices
  <1>1. D2!ClockedInit => D2!ClockedInv
    BY D2!InitClocked, DevicesAssume
  <1>2. Devices /\ [Next]_vars => (Levels /\ BootTimes)'
    BY LevelsStay, BootStep DEF Devices
  <1> DEFINE Rest == Levels /\ BootTimes
  <1>3. Devices <=> Rest /\ D1!ClockedInv /\ D2!ClockedInv
    BY DEF Devices
  <1>4. Devices /\ [Next]_vars => Rest'
    BY <1>2
  <1> HIDE DEF Rest
  <1> QED BY <1>1, <1>3, <1>4, InitDevices, FirstStays, SecondStays, PTL DEF Spec

-----------------------------------------------------------------------------
(* The type of the state of the bus.                                       *)

Counts ==
    /\ todo1 \in 0..Frames /\ todo2 \in 0..Frames /\ pulses \in 0..Pulses
    /\ boot \in Nat \cup {NoTime} /\ pulse \in Nat \cup {NoTime}
    /\ owed1 \in 0..SERIAL_BUFFER_SIZE /\ owed2 \in 0..SERIAL_BUFFER_SIZE
    /\ third \in BOOLEAN /\ astray \in BOOLEAN

LEMMA InitCounts == Init => Counts
  <1> SUFFICES ASSUME Init PROVE Counts
    OBVIOUS
  <1>1. Frames \in 0..Frames /\ Pulses \in 0..Pulses
    BY BoundsAssumption
  <1>2. 0 \in 0..SERIAL_BUFFER_SIZE
    BY SizeAssumption
  <1>3. boot \in Nat /\ pulse = NoTime
    BY MomentsAssumption DEF Init
  <1>4. todo1 = Frames /\ todo2 = Frames /\ pulses = Pulses /\ owed1 = 0 /\ owed2 = 0
    BY DEF Init
  <1>5. third = TRUE /\ astray = FALSE
    BY DEF Init
  <1> QED BY <1>1, <1>2, <1>3, <1>4, <1>5 DEF Counts

LEMMA RestType ==
    ASSUME NEW time \in Nat, NEW left \in Nat \cup {NoTime}
    PROVE  D1!Rest(left, time) \in Nat \cup {NoTime}
  BY DEF D1!Rest, D1!Left, NoTime, D1!NoTime

LEMMA BlocksType ==
    ASSUME Devices
    PROVE  dev1.txCount \in 0..SERIAL_BUFFER_SIZE /\ dev2.txCount \in 0..SERIAL_BUFFER_SIZE
  BY DEF Devices, D1!ClockedInv, D1!IInv, D1!Stable, D1!Sound, D1!Typed,
         D2!ClockedInv, D2!IInv, D2!Stable, D2!Sound, D2!Typed

LEMMA NextCounts == Devices /\ Counts /\ [Next]_vars => Counts'
  <1> SUFFICES ASSUME Devices, Counts, [Next]_vars PROVE Counts'
    OBVIOUS
  <1>1. CASE Run1 \/ Run2 \/ Settle
    BY <1>1 DEF Run1, Run2, Settle, hosts, noise, history, Counts
  <1>2. CASE Process1 \/ Process2
    <2>1. 0 \in 0..SERIAL_BUFFER_SIZE
      BY SizeAssumption
    <2>2. owed1' \in {owed1, 0, dev1.txCount} /\ owed2' \in {owed2, 0, dev2.txCount}
      BY <1>2 DEF Process1, Process2
    <2>3. astray' \in BOOLEAN /\ UNCHANGED <<hosts, boot, noise>>
      BY <1>2 DEF Process1, Process2, Counts
    <2> QED BY <2>1, <2>2, <2>3, BlocksType DEF hosts, noise, Counts
  <1>3. CASE Host1 \/ Host2
    <2>1. todo1' \in 0..Frames /\ todo2' \in 0..Frames
      BY <1>3, BoundsAssumption DEF Host1, Host2, Counts
    <2> QED BY <1>3, <2>1 DEF Host1, Host2, noise, history, Counts
  <1>4. CASE PowerUp2
    BY <1>4 DEF PowerUp2, hosts, noise, history, Counts
  <1>5. CASE Tick
    <2>1. boot' \in Nat \cup {NoTime} /\ pulse' \in Nat \cup {NoTime}
      BY <1>5, NextTimeIsTime, RestType DEF Tick, Counts
    <2> QED BY <1>5, <2>1 DEF Tick, hosts, history, Counts
  <1>6. CASE Disturb \/ Release
    <2>1. pulses \in 0..Pulses /\ pulses > 0 => pulses - 1 \in 0..Pulses
      BY BoundsAssumption
    <2>2. pulses' \in 0..Pulses
      BY <1>6, <2>1 DEF Disturb, Release, Counts
    <2>3. pulse' \in Nat \cup {NoTime} /\ third' \in BOOLEAN
      <3>1. PulseLength \in Nat
        BY DEF PulseLength
      <3> QED BY <1>6, <3>1 DEF Disturb, Release
    <2> QED BY <1>6, <2>2, <2>3 DEF Disturb, Release, hosts, history, Counts
  <1>7. CASE UNCHANGED vars
    BY <1>7 DEF vars, hosts, noise, history, Counts
  <1> QED BY <1>1, <1>2, <1>3, <1>4, <1>5, <1>6, <1>7 DEF Next

\* The records, clocks and counters of the whole bus stay in their types, for
\* two devices of any types and any lateness of loop(); the blocks owed are
\* those of a frame that the other device really had in its buffer.
THEOREM BusTypeCorrect == Spec => []TypeOK
  <1>1. Devices /\ Counts => TypeOK
    <2>1. Devices => D1!ClockedTypeOK /\ D2!ClockedTypeOK
      BY D1!ClockedInvTypeOK, D2!ClockedInvTypeOK, DevicesAssume DEF Devices
    <2> QED BY <2>1 DEF Counts, TypeOK
  <1> QED BY <1>1, AlwaysDevices, InitCounts, NextCounts, PTL DEF Spec

\* The first device takes, sends and gives up the frames and polls of its host as
\* FrameService promises, whatever the second one and the third party do to the
\* line.
THEOREM FirstServes == Spec => D1!FramesAreServed
  <1>1. Spec => D1!ClockedSpec
    BY FirstIsClocked
  <1>2. D1!ClockedSpec => D1!Spec
    BY D1!ClockedIsEngine, DevicesAssume
  <1>3. D1!Spec => D1!FramesAreServed
    BY D1!FramesServed, DevicesAssume
  <1> QED BY <1>1, <1>2, <1>3, PTL

\* What FrameService sees of the second device.
service2 ==
    <<D2!ServiceStage, D2!ServiceFrame, D2!ServiceTries, D2!ServiceBlocks, D2!ServiceAnswer>>

SecondService ==
    IF boot = NoTime THEN boot' = NoTime /\ [D2!Service!Next]_service2
    ELSE boot' = NoTime => D2!Service!Init'

LEMMA SecondServesNow ==
    ASSUME Devices, D2!Serves, [Next]_vars, ~PowerUp2
    PROVE  D2!Serves' /\ [D2!Service!Next]_service2
  <1>1. [D2!ClockedNext]_<<D2!vars, D2!clocks>>
    BY SecondActs DEF Devices, view2, clocks2, D2!clocks
  <1>2. D2!ClockedInv /\ D2!IInv
    BY DEF Devices, D2!ClockedInv
  <1>3. [D2!Next]_D2!vars
    BY <1>1, <1>2, D2!NextClocked, DevicesAssume
  <1> QED BY <1>2, <1>3, D2!NextServes, DevicesAssume DEF service2, D2!service

LEMMA SecondStarts == D2!Init => D2!Serves /\ D2!Service!Init
  BY D2!InitServes, DevicesAssume

LEMMA PowerUpServes ==
    ASSUME Levels, PowerUp2 PROVE D2!Serves' /\ D2!Service!Init'
  <1>1. D2!Init'
    BY PowerUpIsInit DEF D2!ClockedInit, D2!Init
  <1> QED BY <1>1, SecondStarts, PTL

LEMMA SecondServeStep ==
    Devices /\ D2!Serves /\ [Next]_vars => D2!Serves' /\ [SecondService]_<<service2, boot>>
  <1> SUFFICES ASSUME Devices, D2!Serves, [Next]_vars
               PROVE  D2!Serves' /\ SecondService
    OBVIOUS
  <1>1. CASE PowerUp2
    <2>1. boot # NoTime
      BY <1>1 DEF PowerUp2, NoTime
    <2> QED BY <1>1, <2>1, PowerUpServes DEF SecondService, Devices
  <1>2. CASE ~PowerUp2
    <2>1. (boot = NoTime => boot' = NoTime) /\ (boot # NoTime => boot' # NoTime)
      BY <1>2, BootStep DEF Devices
    <2> QED BY <1>2, <2>1, SecondServesNow DEF SecondService
  <1> QED BY <1>1, <1>2

\* The second device does so too, from the moment it is powered up: whatever
\* frame the first one is in the middle of, it begins with nothing to send.
THEOREM SecondServes == Spec => [][SecondService]_<<service2, boot>>
  <1>1. Init => D2!Serves
    BY SecondStarts DEF Init, D2!Init
  <1>2. Devices /\ D2!Serves /\ [Next]_vars
          => D2!Serves' /\ [SecondService]_<<service2, boot>>
    BY SecondServeStep
  <1> QED BY <1>1, <1>2, AlwaysDevices, PTL DEF Spec

\* While either allocates its address, the one frame in its transmit buffer is the
\* poll of the candidate, also when the polls of the two collide: neither takes
\* the end of one poll for the answer to another.
THEOREM BothPollsAnswered == Spec => [](D1!PollInFlight /\ D2!PollInFlight)
  <1>1. Spec => []D1!PollInFlight
    <2>1. Spec => D1!ClockedSpec
      BY FirstIsClocked
    <2>2. D1!ClockedSpec => D1!Spec
      BY D1!ClockedIsEngine, DevicesAssume
    <2>3. D1!Spec => []D1!PollInFlight
      BY D1!PollsAreAnswered, DevicesAssume
    <2> QED BY <2>1, <2>2, <2>3, PTL
  <1>2. Init => D2!Serves
    BY SecondStarts DEF Init, D2!Init
  <1>3. Devices /\ D2!Serves /\ [Next]_vars => D2!Serves'
    BY SecondServeStep
  <1>4. D2!Serves => D2!PollInFlight
    BY DevicesAssume, D2!ServesPolls
  <1> QED BY <1>1, <1>2, <1>3, <1>4, AlwaysDevices, PTL DEF Spec

\* The transmit cursor of both is in step with the bits they send.
Sent == D1!Tx(dev1) /\ D2!Tx(dev2)

LEMMA AlwaysSent == Spec => []Sent
  <1> DEFINE Served == D1!Serves /\ D2!Serves
  <1>1. Init => Served
    <2>1. Init => D1!Init
      BY DEF Init, D1!Init
    <2>2. Init => D2!Init
      BY DEF Init, D2!Init
    <2> QED BY <2>1, <2>2, SecondStarts, D1!InitServes, DevicesAssume
  <1>2. Devices /\ Served /\ [Next]_vars => Served'
    <2> SUFFICES ASSUME Devices, Served, [Next]_vars PROVE Served'
      OBVIOUS
    <2>1. [D1!ClockedNext]_<<D1!vars, D1!clocks>>
      BY FirstStep DEF Devices, view1, clocks1, D1!clocks
    <2>2. D1!ClockedInv /\ D1!IInv
      BY DEF Devices, D1!ClockedInv
    <2>3. [D1!Next]_D1!vars
      BY <2>1, <2>2, D1!NextClocked, DevicesAssume
    <2>4. D1!Serves'
      BY <2>2, <2>3, D1!NextServes, DevicesAssume
    <2> QED BY <2>4, SecondServeStep
  <1>3. Served => Sent
    BY DEF D1!Serves, D2!Serves, Sent
  <1> HIDE DEF Served
  <1> QED BY <1>1, <1>2, <1>3, AlwaysDevices, PTL DEF Spec

-----------------------------------------------------------------------------
(* The phase of the receptions.                                            *)

LEMMA FirstInPhase ==
    ASSUME Devices, [Next]_vars, AcknowledgesEndLast, D1!InPhase(dev1)
    PROVE  D1!InPhase(dev1')
  <1>1. [D1!ClockedNext]_<<D1!vars, D1!clocks>>
    BY FirstStep DEF Devices, view1, clocks1, D1!clocks
  <1>2. D1!ClockedInv /\ ~(D1!Looks /\ D1!Overlaps)
    BY DEF Devices, AcknowledgesEndLast
  <1> QED BY <1>1, <1>2, D1!ClockedPhase, DevicesAssume

LEMMA SecondInPhase ==
    ASSUME Devices, [Next]_vars, AcknowledgesEndLast, D2!InPhase(dev2), ~PowerUp2
    PROVE  D2!InPhase(dev2')
  <1>1. [D2!ClockedNext]_<<D2!vars, D2!clocks>>
    BY SecondActs DEF Devices, view2, clocks2, D2!clocks
  <1>2. D2!ClockedInv /\ ~(D2!Looks /\ D2!Overlaps)
    BY DEF Devices, AcknowledgesEndLast
  <1> QED BY <1>1, <1>2, D2!ClockedPhase, DevicesAssume

\* If the initiator always lets go of the line before the follower does at the end
\* of an acknowledge, no receiver ever takes an edge for another, whatever edges
\* come between Run and Process, whichever frames collide and whenever the second
\* device is powered up.
THEOREM EdgesStayInPhase == Spec => ([]AcknowledgesEndLast => []EdgesInPhase)
  <1>1. Init => EdgesInPhase
    <2>1. Init => D1!InPhase(dev1)
      BY DEF Init, D1!NewDevice, D1!InPhase
    <2>2. Init => D2!InPhase(dev2)
      BY DEF Init, D2!NewDevice, D2!InPhase
    <2> QED BY <2>1, <2>2 DEF EdgesInPhase
  <1>2. Devices /\ AcknowledgesEndLast /\ EdgesInPhase /\ [Next]_vars => EdgesInPhase'
    <2> SUFFICES ASSUME Devices, AcknowledgesEndLast, EdgesInPhase, [Next]_vars
                 PROVE  EdgesInPhase'
      OBVIOUS
    <2>1. D1!InPhase(dev1')
      BY FirstInPhase DEF EdgesInPhase
    <2>2. CASE ~PowerUp2
      BY <2>1, <2>2, SecondInPhase DEF EdgesInPhase
    <2>3. CASE PowerUp2
      <3>1. D2!InPhase(dev2')
        BY <2>3 DEF PowerUp2, D2!PoweredUp, D2!NewDevice, D2!InPhase
      <3> QED BY <2>1, <3>1 DEF EdgesInPhase
    <2> QED BY <2>2, <2>3
  <1> QED BY <1>1, <1>2, AlwaysDevices, PTL DEF Spec

-----------------------------------------------------------------------------
(* The line is let go of in time.                                          *)

\* Time never passes a moment at which something is due.
LEMMA NextTimeIsFirst == \A due \in Dues : NextTime <= due
  <1> SUFFICES ASSUME Dues # {} PROVE \A due \in Dues : NextTime <= due
    OBVIOUS
  <1>1. Dues \subseteq Nat
    BY DEF Dues
  <1>2. \E t \in Dues : \A u \in Dues : t <= u
    BY <1>1, EarliestExists
  <1> HIDE DEF Dues
  <1> QED BY <1>2 DEF NextTime

LEMMA FirstIsOnTime == ASSUME Devices, Tick PROVE D1!OnTime(NextTime)
  <1>1. D1!Rests
    BY DEF Tick, Quiet
  <1>2. wake1 \in Nat \cup {-1} /\ away1 \in Nat \cup {-1}
    BY DEF Devices, D1!ClockedInv, D1!Clocks, D1!Times, D1!NoTime
  <1>3. wake1 > 0 => wake1 \in Dues
    BY <1>2 DEF Dues
  <1>4. away1 > 0 => away1 \in Dues
    BY <1>2 DEF Dues
  <1> QED BY <1>1, <1>3, <1>4, NextTimeIsFirst DEF D1!OnTime

LEMMA SecondIsOnTime ==
    ASSUME Devices, Tick, boot = NoTime PROVE D2!OnTime(NextTime)
  <1>1. D2!Rests
    BY DEF Tick, Quiet
  <1>2. wake2 \in Nat \cup {-1} /\ away2 \in Nat \cup {-1}
    BY DEF Devices, D2!ClockedInv, D2!Clocks, D2!Times, D2!NoTime
  <1>3. wake2 > 0 => wake2 \in Dues
    BY <1>2 DEF Dues
  <1>4. away2 > 0 => away2 \in Dues
    BY <1>2 DEF Dues
  <1> QED BY <1>1, <1>3, <1>4, NextTimeIsFirst DEF D2!OnTime

LEMMA FirstHoldClock ==
    ASSUME Devices, Sent, D1!HoldClock, [Next]_vars PROVE D1!HoldClock'
  <1>1. D1!ClockedInv /\ D1!ClockedInv' /\ D1!Tx(dev1)
    BY FirstStays DEF Devices, Sent
  <1>2. CASE Run1
    BY <1>1, <1>2, D1!RunHoldClock, D1!AwayHoldClock, DevicesAssume DEF Run1
  <1>3. CASE Process1
    <2>1. D1!IInv'
      BY <1>1 DEF D1!ClockedInv
    <2>2. D1!ClockedProcess
      BY <1>3 DEF Process1
    <2> QED BY <1>1, <2>1, <2>2, D1!ProcessHoldClock, DevicesAssume
  <1>4. CASE Host1
    <2>1. D1!Host /\ UNCHANGED D1!clocks
      BY <1>4, Host1IsHost DEF clocks1, D1!clocks
    <2> QED BY <1>1, <2>1, D1!HostHoldClock, DevicesAssume
  <1>5. CASE Tick
    <2>1. D1!OnTime(NextTime)
      BY <1>5, FirstIsOnTime
    <2>2. D1!Passes(NextTime)
      BY <1>5 DEF Tick
    <2> QED BY <1>1, <2>1, <2>2, NextTimeIsTime, D1!PassesHoldClock, DevicesAssume
  <1>6. CASE UNCHANGED station1
    BY <1>6 DEF station1, clocks1, D1!HoldClock
  <1>7. Run1 \/ Process1 \/ Host1 \/ Tick \/ UNCHANGED station1
    BY DEF Next, Run2, Process2, Host2, PowerUp2, Settle, Disturb, Release, vars
  <1> QED BY <1>2, <1>3, <1>4, <1>5, <1>6, <1>7

\* The second device does nothing, and releases the line, until it is powered up.
Dormant == boot # NoTime => call2 = "none" /\ dev2.out

LEMMA DormantStays == ASSUME BootTimes, Dormant, [Next]_vars PROVE Dormant'
  <1>1. boot = NoTime => boot' = NoTime
    BY BootStep
  <1> SUFFICES ASSUME boot # NoTime, boot' # NoTime PROVE UNCHANGED <<call2, dev2>>
    BY <1>1 DEF Dormant
  <1>2. ~PowerUp2 /\ ~Run2 /\ ~Host2
    BY DEF PowerUp2, Run2, Host2
  <1>3. ~Process2
    <2>1. call2 = "none"
      BY DEF Dormant
    <2> QED BY <2>1 DEF Process2, D2!ClockedProcess, D2!Looks
  <1> QED BY <1>2, <1>3
      DEF Next, Run1, Process1, Host1, Settle, Tick, Disturb, Release, vars, station2, D2!Passes

LEMMA SecondHoldClock ==
    ASSUME Devices, Sent, Dormant, D2!HoldClock, [Next]_vars PROVE D2!HoldClock'
  <1>1. D2!ClockedInv /\ D2!Tx(dev2)
    BY DEF Devices, Sent
  <1>2. CASE PowerUp2
    BY <1>2 DEF PowerUp2, D2!PoweredUp, D2!NewDevice, D2!HoldClock
  <1>3. CASE Run2
    BY <1>1, <1>3, D2!RunHoldClock, D2!AwayHoldClock, DevicesAssume DEF Run2
  <1>4. CASE Process2
    <2>1. D2!ClockedProcess
      BY <1>4 DEF Process2
    <2>2. ~PowerUp2
      <3>1. boot # 0
        BY <1>4 DEF Process2, D2!ClockedProcess, D2!Looks, Dormant, NoTime
      <3> QED BY <3>1 DEF PowerUp2
    <2>3. [D2!ClockedNext]_<<D2!vars, D2!clocks>>
      BY <2>2, SecondActs DEF Devices, view2, clocks2, D2!clocks
    <2>4. D2!IInv'
      BY <1>1, <2>3, D2!NextClocked, DevicesAssume DEF D2!ClockedInv
    <2> QED BY <1>1, <2>1, <2>4, D2!ProcessHoldClock, DevicesAssume
  <1>5. CASE Host2
    <2>1. D2!Host /\ UNCHANGED D2!clocks
      BY <1>5, Host2IsHost DEF clocks2, D2!clocks
    <2> QED BY <1>1, <2>1, D2!HostHoldClock, DevicesAssume
  <1>6. CASE Tick
    <2>1. ~dev2.out => D2!OnTime(NextTime)
      BY <1>6, SecondIsOnTime DEF Dormant
    <2>2. D2!Passes(NextTime)
      BY <1>6 DEF Tick
    <2> QED BY <1>1, <2>1, <2>2, NextTimeIsTime, D2!PassesHoldClock, DevicesAssume
  <1>7. CASE UNCHANGED station2
    BY <1>7 DEF station2, clocks2, D2!HoldClock
  <1>8. PowerUp2 \/ Run2 \/ Process2 \/ Host2 \/ Tick \/ UNCHANGED station2
    BY DEF Next, Run1, Process1, Host1, Settle, Disturb, Release, vars
  <1> QED BY <1>2, <1>3, <1>4, <1>5, <1>6, <1>7, <1>8

\* However the edges, collisions and resets fall, and for any lateness of loop(): a
\* device that pulls the line low (Lower) lets go of it no later than the signal it
\* gives takes, and loop() is away.  The time is that of the value sent, for the
\* start bit, the bits of the header, the EOM bit and the acknowledges, and that of
\* a line error with the settling of the line, which Lower waits for first.
THEOREM HoldsEnd == Spec => []HoldsEndInTime
  <1> DEFINE Held == Dormant /\ D1!HoldClock /\ D2!HoldClock
  <1>1. Init => Held
    BY MomentsAssumption
    DEF Init, Dormant, D1!HoldClock, D2!HoldClock, D1!NewDevice, D2!NewDevice
  <1>2. Devices /\ Sent /\ Held /\ [Next]_vars => Held'
    <2> SUFFICES ASSUME Devices, Sent, Held, [Next]_vars PROVE Held'
      OBVIOUS
    <2>1. D1!HoldClock' /\ D2!HoldClock'
      BY FirstHoldClock, SecondHoldClock
    <2>2. Dormant'
      BY DormantStays DEF Devices
    <2> QED BY <2>1, <2>2
  <1>3. Devices /\ Held => HoldsEndInTime
    <2>1. Devices /\ Held => D1!HoldEndsInTime
      BY D1!HoldClockEnds, DevicesAssume DEF Devices, D1!ClockedInv
    <2>2. Devices /\ Held => D2!HoldEndsInTime
      BY D2!HoldClockEnds, DevicesAssume DEF Devices, D2!ClockedInv
    <2> QED BY <2>1, <2>2 DEF HoldsEndInTime
  <1> HIDE DEF Held
  <1> QED BY <1>1, <1>2, <1>3, AlwaysDevices, AlwaysSent, PTL DEF Spec
-----------------------------------------------------------------------------
(* The header of two initiators with different addresses decides.          *)

\* What the views of the two have in common is no matter of either.
LEMMA SameView ==
    ASSUME NEW v
    PROVE  /\ D2!Part(v) = D1!Part(v) /\ (D2!InTime(v) <=> D1!InTime(v))
           /\ (D2!IsView(v) <=> D1!IsView(v)) /\ (D2!Header(v) <=> D1!Header(v))
           /\ (D2!Fine(v) <=> D1!Fine(v)) /\ (D2!Pins(v) <=> D1!Pins(v))
  <1>1. \A time, age : D2!Left(time, age) = D1!Left(time, age)
    BY DEF D1!Left, D2!Left
  <1>2. D2!Part(v) = D1!Part(v)
    BY DEF D1!Part, D2!Part
  <1>3. D2!NoTime = D1!NoTime /\ D2!BitAges = D1!BitAges /\ D2!Times = D1!Times
    BY DEF D1!NoTime, D2!NoTime, D1!BitAges, D2!BitAges, D1!Times, D2!Times
  <1>4. D2!InTime(v) <=> D1!InTime(v)
    BY <1>3 DEF D1!InTime, D2!InTime
  <1>5. D2!IsView(v) <=> D1!IsView(v)
    BY <1>3 DEF D1!IsView, D2!IsView
  <1>6. D2!Header(v) <=> D1!Header(v)
    BY <1>1, <1>2, <1>4 DEF D1!Header, D2!Header
  <1>7. D2!Pins(v) <=> D1!Pins(v)
    BY <1>3 DEF D1!Pins, D2!Pins
  <1> QED BY <1>2, <1>4, <1>5, <1>6, <1>7 DEF D1!Fine, D2!Fine

LEMMA SameContest ==
    ASSUME NEW v, NEW w
    PROVE  /\ D2!Decided(v, w) <=> D1!Decided(v, w)
           /\ \A time : D2!PassesIn(v, w, time) <=> D1!PassesIn(v, w, time)
  <1>1. \A a, b : D2!Together(a, b) <=> D1!Together(a, b)
    BY SameView DEF D1!Together, D2!Together
  <1>2. D2!NoTime = D1!NoTime /\ D2!BitAges = D1!BitAges
    BY DEF D1!NoTime, D2!NoTime, D1!BitAges, D2!BitAges
  <1>3. \A a, b : D2!Late(a, b) <=> D1!Late(a, b)
    BY <1>2 DEF D1!Late, D2!Late
  <1>4. \A a, b : D2!Ahead(a, b) <=> D1!Ahead(a, b)
    BY <1>3, SameView DEF D1!Ahead, D2!Ahead
  <1>5. \A a, b : D2!SamePart(a, b) <=> D1!SamePart(a, b)
    BY DEF D1!SamePart, D2!SamePart, D1!SameBit, D2!SameBit
  <1>6. \A n, limit : D2!AtMost(n, limit) = D1!AtMost(n, limit)
    BY DEF D1!AtMost, D2!AtMost
  <1>7. \A left, time : D2!Rest(left, time) = D1!Rest(left, time)
    BY <1>2 DEF D1!Rest, D2!Rest, D1!Left, D2!Left
  <1>8. ASSUME NEW time PROVE D2!PassesIn(v, w, time) <=> D1!PassesIn(v, w, time)
    BY <1>2, <1>5, <1>6, <1>7 DEF D1!PassesIn, D2!PassesIn
  <1> QED BY <1>1, <1>4, <1>8 DEF D1!Decided, D2!Decided

\* A device that is neither in monitor mode nor kept from Run for long.
Soon == \A late \in Lateness : late < 600

LEMMA SoonIsPrompt == Soon => D1!Prompt /\ D2!Prompt
  <1>1. Soon => \A late \in Lateness : late \in 1..599
    BY LatenessAssumption DEF Soon
  <1> QED BY <1>1 DEF D1!Prompt, D2!Prompt

On1 == D1!OnLine(dev1)
On2 == D2!OnLine(dev2)
Address1 == D1!Initiator(dev1)
Address2 == D2!Initiator(dev2)

LEMMA OnTheWireIsOn == (On1 <=> OnTheWire(dev1)) /\ (On2 <=> OnTheWire(dev2))
  BY DEF On1, On2, D1!OnLine, D2!OnLine, OnTheWire

\* As soon as both are on the line with different addresses, both are in their
\* headers and as far as the header decides between them.
Headings == D1!Heading /\ D2!Heading
Alone == (On1 \/ On2 => third) /\ (boot # NoTime => ~On2 /\ call2 = "none")
Contest == On1 /\ On2 /\ Address1 # Address2 => D1!Decided(D1!View, D2!View)
Arbitration == Headings /\ Alone /\ Contest

LEMMA DecidedHeads ==
    ASSUME D1!Decided(D1!View, D2!View)
    PROVE  D1!Heads(dev1) /\ D2!Heads(dev2)
  <1>1. D1!View.head /\ D2!View.head
    BY DEF D1!Decided, D1!Together, D1!Ahead
  <1>2. D1!View.head = D1!Heads(dev1) /\ D2!View.head = D2!Heads(dev2)
    BY DEF D1!View, D1!ViewOf, D2!View, D2!ViewOf
  <1> QED BY <1>1, <1>2

LEMMA DecidedBits ==
    ASSUME NEW v, NEW w, D1!Fine(v), D1!Fine(w), D1!Decided(v, w)
    PROVE  v.bit # 0 /\ w.bit # 0
  <1>1. v.bit \in 0..7 /\ w.bit \in 0..7
    BY D1!FineTypes, DevicesAssume
  <1> QED BY <1>1 DEF D1!Decided, D1!Together, D1!Ahead

LEMMA HeadsFine ==
    ASSUME Devices, Headings
    PROVE  /\ D1!Heads(dev1) => D1!Fine(D1!View)
           /\ D2!Heads(dev2) => D1!Fine(D2!View)
  <1>1. D1!Heads(dev1) => D1!Fine(D1!View)
    BY D1!FineHeader, DevicesAssume DEF Devices, Headings
  <1>2. D2!Heads(dev2) => D2!Fine(D2!View)
    BY D2!FineHeader, DevicesAssume DEF Devices, Headings
  <1> QED BY <1>1, <1>2, SameView

\* The one that does nothing.
LEMMA FirstWaits ==
    ASSUME Devices, Devices', D1!Heading, UNCHANGED <<station1, others1>>
    PROVE  /\ D1!View' = D1!View /\ D1!Heading' /\ (On1' <=> On1) /\ Address1' = Address1
           /\ (D1!Heads(dev1') <=> D1!Heads(dev1))
  <1>1. UNCHANGED <<dev1, call1, sinceBit1, wake1, away1, others1>>
    BY DEF station1, clocks1
  <1>2. D1!View' = D1!View
    BY <1>1 DEF D1!View
  <1>3. D1!Heading'
    BY <1>1, D1!HearsOnLine, DevicesAssume DEF Devices
  <1> QED BY <1>1, <1>2, <1>3 DEF On1, Address1

LEMMA SecondWaits ==
    ASSUME Devices, Devices', D2!Heading, UNCHANGED <<station2, others2>>
    PROVE  /\ D2!View' = D2!View /\ D2!Heading' /\ (On2' <=> On2) /\ Address2' = Address2
           /\ (D2!Heads(dev2') <=> D2!Heads(dev2))
  <1>1. UNCHANGED <<dev2, call2, sinceBit2, wake2, away2, others2>>
    BY DEF station2, clocks2
  <1>2. D2!View' = D2!View
    BY <1>1 DEF D2!View
  <1>3. D2!Heading'
    BY <1>1, D2!HearsOnLine, DevicesAssume DEF Devices
  <1> QED BY <1>1, <1>2, <1>3 DEF On2, Address2

\* A device begins a frame, or goes on with it.
LEMMA FirstBegins ==
    ASSUME Soon, Devices, Devices', Sent, FramesBeginOnAFreeLine, D1!Acts, ~On1, On1'
    PROVE  /\ third /\ (On2 => JustBegun(dev2, sinceBit2))
           /\ D1!StartsAs(D1!View') /\ D1!Heading'
  <1>1. D1!Prompt
    BY SoonIsPrompt
  <1>2. D1!Begins /\ (D1!Calm(dev1) => D1!StartsAs(D1!View') /\ D1!Heading')
    BY <1>1, D1!BeginsOnLine, DevicesAssume DEF Devices, Sent, On1
  <1>3. third /\ ~dev1.isrTriggered /\ (On2 => JustBegun(dev2, sinceBit2))
    BY <1>2, OnTheWireIsOn DEF FramesBeginOnAFreeLine
  <1> QED BY <1>2, <1>3 DEF D1!Calm

LEMMA SecondBegins ==
    ASSUME Soon, Devices, Devices', Sent, FramesBeginOnAFreeLine, D2!Acts, ~On2, On2'
    PROVE  /\ third /\ (On1 => JustBegun(dev1, sinceBit1))
           /\ D2!StartsAs(D2!View') /\ D2!Heading'
  <1>1. D2!Prompt
    BY SoonIsPrompt
  <1>2. D2!Begins /\ (D2!Calm(dev2) => D2!StartsAs(D2!View') /\ D2!Heading')
    BY <1>1, D2!BeginsOnLine, DevicesAssume DEF Devices, Sent, On2
  <1>3. third /\ ~dev2.isrTriggered /\ (On1 => JustBegun(dev1, sinceBit1))
    BY <1>2, OnTheWireIsOn DEF FramesBeginOnAFreeLine
  <1> QED BY <1>2, <1>3 DEF D2!Calm

LEMMA FirstGoesOn ==
    ASSUME Soon, Devices, Devices', Sent, Headings, D1!Acts, others1' = others1, On1, On1'
    PROVE  /\ Address1' = Address1 /\ D1!Heading'
           /\ D1!Heads(dev1) => D1!View.bit = 0 \/ D1!StepsIn(D1!View, D1!View')
  <1>1. D1!Prompt
    BY SoonIsPrompt
  <1>2. /\ D1!StaysOn /\ D1!Heading'
        /\ D1!Heads(dev1) => D1!View.bit = 0 \/ D1!StepsIn(D1!View, D1!View')
    BY <1>1, D1!GoesOnOnLine, DevicesAssume DEF Devices, Sent, Headings, On1
  <1> QED BY <1>2 DEF D1!StaysOn, Address1

LEMMA SecondGoesOn ==
    ASSUME Soon, Devices, Devices', Sent, Headings, D2!Acts, others2' = others2, On2, On2'
    PROVE  /\ Address2' = Address2 /\ D2!Heading'
           /\ D2!Heads(dev2) => D2!View.bit = 0 \/ D2!StepsIn(D2!View, D2!View')
  <1>1. D2!Prompt
    BY SoonIsPrompt
  <1>2. /\ D2!StaysOn /\ D2!Heading'
        /\ D2!Heads(dev2) => D2!View.bit = 0 \/ D2!StepsIn(D2!View, D2!View')
    BY <1>1, D2!GoesOnOnLine, DevicesAssume DEF Devices, Sent, Headings, On2
  <1> QED BY <1>2 DEF D2!StaysOn, Address2

HeadersFine ==
    /\ D1!Heads(dev1) => D1!Fine(D1!View)
    /\ D2!Heads(dev2) => D1!Fine(D2!View)
LEMMA HeadersAreFine == Devices /\ Headings => HeadersFine
  BY HeadsFine DEF HeadersFine
LEMMA NextFine == Devices' /\ Headings' => HeadersFine'
  BY HeadersAreFine, PTL

LEMMA ViewInits ==
    /\ D1!View.init = Address1 /\ D2!View.init = Address2
    /\ D1!View.head = D1!Heads(dev1) /\ D2!View.head = D2!Heads(dev2)
  BY DEF D1!View, D2!View, D1!ViewOf, D2!ViewOf, Address1, Address2

HeadsAreSeen == (D1!View.head <=> D1!Heads(dev1)) /\ (D2!View.head <=> D2!Heads(dev2))
LEMMA ViewHeads == TRUE => HeadsAreSeen
  BY DEF HeadsAreSeen, D1!View, D2!View, D1!ViewOf, D2!ViewOf
LEMMA NextHeads == HeadsAreSeen'
  BY ViewHeads, PTL

\* The first device acts, and the second one waits.
LEMMA FirstContest ==
    ASSUME Soon, Devices, Devices', Sent, Arbitration, FramesBeginOnAFreeLine,
           D1!Acts, UNCHANGED <<station2, others1, others2>>, On1', On2', Address1' # Address2'
    PROVE  D1!Decided(D1!View', D2!View')
  <1>1. Headings /\ Contest /\ D2!Heading
    BY DEF Arbitration, Headings
  <1>2. D2!View' = D2!View /\ On2 /\ Address2' = Address2 /\ D2!Heading'
    BY <1>1, SecondWaits
  <1>3. CASE ~On1
    <2>1. (On2 => JustBegun(dev2, sinceBit2)) /\ D1!StartsAs(D1!View') /\ D1!Heading'
      BY <1>3, FirstBegins
    <2>2. D2!OnLine(dev2) /\ dev2.eSecondary = "XMIT_STARTBIT1" /\ sinceBit2 = 0
      BY <1>2, <2>1 DEF On2, JustBegun
    <2>3. /\ D2!Heads(dev2) /\ D2!View.head /\ D2!View.bit = 7 /\ D2!View.low
          /\ D2!View.since = 0 /\ D2!View.clean
      <3>1. D2!ClockedInv /\ D2!Tx(dev2) /\ D2!Heading
        BY <1>1 DEF Devices, Sent
      <3> QED BY <2>2, <3>1, D2!BegunHeader, DevicesAssume
    <2>4. D1!Fine(D2!View)
      BY <1>1, <2>3, HeadersAreFine DEF HeadersFine
    <2>5. D1!Fine(D1!View')
      <3>1. Headings'
        BY <1>2, <2>1 DEF Headings
      <3>2. D1!View'.head <=> D1!Heads(dev1)'
        BY NextHeads DEF HeadsAreSeen
      <3> QED BY <2>1, <3>1, <3>2, NextFine DEF HeadersFine, D1!StartsAs
    <2> QED BY <1>2, <2>1, <2>3, <2>4, <2>5, D1!DecidedStarts, DevicesAssume
  <1>4. CASE On1
    <2>1. Address1' = Address1 /\ D1!Heading'
          /\ (D1!Heads(dev1) => D1!View.bit = 0 \/ D1!StepsIn(D1!View, D1!View'))
      BY <1>1, <1>4, FirstGoesOn
    <2>2. D1!Decided(D1!View, D2!View)
      BY <1>1, <1>2, <1>4, <2>1 DEF Contest
    <2>3. D1!Heads(dev1) /\ D2!Heads(dev2)
      BY <2>2, DecidedHeads
    <2>4. D1!Fine(D1!View) /\ D1!Fine(D2!View)
      BY <1>1, <2>3, HeadersAreFine DEF HeadersFine
    <2>5. D1!StepsIn(D1!View, D1!View')
      BY <2>1, <2>2, <2>3, <2>4, DecidedBits
    <2>6. D1!View'.head
      BY <2>5 DEF D1!StepsIn, D1!RunsIn, D1!AwayIn, D1!WaitsIn, D1!LetsGoIn, D1!RisesIn,
                  D1!NextBitIn, D1!SamePart, D1!SameBit
    <2>7. D1!Fine(D1!View')
      <3>1. Headings'
        BY <1>2, <2>1 DEF Headings
      <3>2. D1!View'.head <=> D1!Heads(dev1)'
        BY NextHeads DEF HeadsAreSeen
      <3> QED BY <2>6, <3>1, <3>2, NextFine DEF HeadersFine
    <2>8. D1!View.init # D2!View.init
      BY <1>2, <2>1, ViewInits
    <2> QED BY <1>2, <2>2, <2>4, <2>5, <2>7, <2>8, D1!DecidedStep, DevicesAssume
  <1> QED BY <1>3, <1>4

LEMMA SecondContest ==
    ASSUME Soon, Devices, Devices', Sent, Arbitration, FramesBeginOnAFreeLine,
           D2!Acts, UNCHANGED <<station1, others1, others2>>, On1', On2', Address1' # Address2'
    PROVE  D1!Decided(D1!View', D2!View')
  <1>1. Headings /\ Contest /\ D1!Heading
    BY DEF Arbitration, Headings
  <1>2. D1!View' = D1!View /\ On1 /\ Address1' = Address1 /\ D1!Heading'
    BY <1>1, FirstWaits
  <1>3. CASE ~On2
    <2>1. (On1 => JustBegun(dev1, sinceBit1)) /\ D2!StartsAs(D2!View') /\ D2!Heading'
      BY <1>3, SecondBegins
    <2>2. D1!OnLine(dev1) /\ dev1.eSecondary = "XMIT_STARTBIT1" /\ sinceBit1 = 0
      BY <1>2, <2>1 DEF On1, JustBegun
    <2>3. /\ D1!Heads(dev1) /\ D1!View.head /\ D1!View.bit = 7 /\ D1!View.low
          /\ D1!View.since = 0 /\ D1!View.clean
      <3>1. D1!ClockedInv /\ D1!Tx(dev1) /\ D1!Heading
        BY <1>1 DEF Devices, Sent
      <3> QED BY <2>2, <3>1, D1!BegunHeader, DevicesAssume
    <2>4. D2!Fine(D1!View)
      BY <1>1, <2>3, HeadersAreFine, SameView DEF HeadersFine
    <2>5. D2!Fine(D2!View')
      <3>1. Headings'
        BY <1>2, <2>1 DEF Headings
      <3>2. D2!View'.head <=> D2!Heads(dev2)'
        BY NextHeads DEF HeadsAreSeen
      <3>3. D1!Fine(D2!View')
        BY <2>1, <3>1, <3>2, NextFine DEF HeadersFine, D2!StartsAs
      <3> QED BY <3>3, SameView
    <2>6. D2!Decided(D2!View', D1!View)
      BY <2>1, <2>3, <2>4, <2>5, D2!DecidedStarts, DevicesAssume
    <2> QED BY <1>2, <2>6, SameContest, D1!DecidedIsSymmetric, DevicesAssume
  <1>4. CASE On2
    <2>1. Address2' = Address2 /\ D2!Heading'
          /\ (D2!Heads(dev2) => D2!View.bit = 0 \/ D2!StepsIn(D2!View, D2!View'))
      BY <1>1, <1>4, SecondGoesOn
    <2>2. D1!Decided(D1!View, D2!View)
      BY <1>1, <1>2, <1>4, <2>1 DEF Contest
    <2>3. D1!Heads(dev1) /\ D2!Heads(dev2)
      BY <2>2, DecidedHeads
    <2>4. D1!Fine(D1!View) /\ D1!Fine(D2!View)
      BY <1>1, <2>3, HeadersAreFine DEF HeadersFine
    <2>5. D2!StepsIn(D2!View, D2!View')
      BY <2>1, <2>2, <2>3, <2>4, DecidedBits
    <2>6. D2!View'.head
      BY <2>5 DEF D2!StepsIn, D2!RunsIn, D2!AwayIn, D2!WaitsIn, D2!LetsGoIn, D2!RisesIn,
                  D2!NextBitIn, D2!SamePart, D2!SameBit
    <2>7. D2!Fine(D2!View')
      <3>1. Headings'
        BY <1>2, <2>1 DEF Headings
      <3>2. D2!View'.head <=> D2!Heads(dev2)'
        BY NextHeads DEF HeadsAreSeen
      <3>3. D1!Fine(D2!View')
        BY <2>6, <3>1, <3>2, NextFine DEF HeadersFine
      <3> QED BY <3>3, SameView
    <2>8. D2!View.init # D1!View.init
      BY <1>2, <2>1, ViewInits
    <2>9. D2!Decided(D2!View, D1!View)
      BY <2>2, SameContest, D1!DecidedIsSymmetric, DevicesAssume
    <2>10. D2!Fine(D1!View) /\ D2!Fine(D2!View)
      BY <2>4, SameView
    <2>11. D2!Decided(D2!View', D1!View)
      BY <2>5, <2>7, <2>8, <2>9, <2>10, D2!DecidedStep, DevicesAssume
    <2> QED BY <1>2, <2>11, SameContest, D1!DecidedIsSymmetric, DevicesAssume
  <1> QED BY <1>3, <1>4

LEMMA FirstArbitrates ==
    ASSUME Soon, Devices, Devices', Sent, Arbitration, FramesBeginOnAFreeLine, Run1 \/ Process1
    PROVE  Arbitration'
  <1>1. D1!Acts /\ UNCHANGED <<station2, others1, others2>> /\ UNCHANGED <<boot, third, call2>>
    BY DEF Run1, Process1, D1!Acts, levels, noise, station2
  <1>2. Headings /\ Alone /\ D2!Heading
    BY DEF Arbitration, Headings
  <1>3. D2!Heading' /\ (On2' <=> On2)
    BY <1>1, <1>2, SecondWaits
  <1>4. D1!Heading'
    <2>1. CASE ~On1'
      BY <2>1, D1!OffLineHeading, DevicesAssume DEF On1
    <2>2. CASE On1' /\ ~On1
      BY <1>1, <2>2, FirstBegins
    <2>3. CASE On1' /\ On1
      BY <1>1, <1>2, <2>3, FirstGoesOn
    <2> QED BY <2>1, <2>2, <2>3
  <1>5. On1' /\ ~On1 => third
    BY <1>1, FirstBegins
  <1>6. Alone'
    BY <1>1, <1>2, <1>3, <1>5 DEF Alone
  <1>7. Contest'
    BY <1>1, FirstContest DEF Contest
  <1> QED BY <1>3, <1>4, <1>6, <1>7 DEF Arbitration, Headings

LEMMA SecondArbitrates ==
    ASSUME Soon, Devices, Devices', Sent, Arbitration, FramesBeginOnAFreeLine, Run2 \/ Process2
    PROVE  Arbitration'
  <1>1. D2!Acts /\ UNCHANGED <<station1, others1, others2>> /\ UNCHANGED <<boot, third>>
    BY DEF Run2, Process2, D2!Acts, levels, noise
  <1>2. Headings /\ Alone /\ D1!Heading
    BY DEF Arbitration, Headings
  <1>3. boot = NoTime
    <2>1. Process2 => call2 # "none"
      BY DEF Process2, D2!ClockedProcess, D2!Looks
    <2> QED BY <1>2, <2>1 DEF Alone, Run2
  <1>4. D1!Heading' /\ (On1' <=> On1)
    BY <1>1, <1>2, FirstWaits
  <1>5. D2!Heading'
    <2>1. CASE ~On2'
      BY <2>1, D2!OffLineHeading, DevicesAssume DEF On2
    <2>2. CASE On2' /\ ~On2
      BY <1>1, <2>2, SecondBegins
    <2>3. CASE On2' /\ On2
      BY <1>1, <1>2, <2>3, SecondGoesOn
    <2> QED BY <2>1, <2>2, <2>3
  <1>6. On2' /\ ~On2 => third
    BY <1>1, SecondBegins
  <1>7. Alone'
    BY <1>1, <1>2, <1>3, <1>4, <1>6 DEF Alone
  <1>8. Contest'
    BY <1>1, SecondContest DEF Contest
  <1> QED BY <1>4, <1>5, <1>7, <1>8 DEF Arbitration, Headings

\* The hosts hand over a frame to a device that has none.
LEMMA HostsArbitrate ==
    ASSUME Devices, Devices', Arbitration, Host1 \/ Host2 PROVE Arbitration'
  <1>1. Headings /\ Alone
    BY DEF Arbitration
  <1>2. D1!IInv /\ D2!IInv
    BY DEF Devices, D1!ClockedInv, D2!ClockedInv
  <1>3. CASE Host1
    <2>1. ~On1'
      BY <1>2, <1>3, Host1IsHost, D1!HostStaysOff, DevicesAssume DEF On1
    <2>2. UNCHANGED <<station2, others2>> /\ UNCHANGED <<boot, third, call2>>
      BY <1>3 DEF Host1, levels, noise, station2
    <2>3. D2!Heading' /\ (On2' <=> On2)
      BY <1>1, <2>2, SecondWaits DEF Headings
    <2>4. D1!Heading'
      BY <2>1, D1!OffLineHeading, DevicesAssume DEF On1
    <2> QED BY <1>1, <2>1, <2>2, <2>3, <2>4 DEF Arbitration, Headings, Alone, Contest
  <1>4. CASE Host2
    <2>1. ~On2'
      BY <1>2, <1>4, Host2IsHost, D2!HostStaysOff, DevicesAssume DEF On2
    <2>2. UNCHANGED <<station1, others1>> /\ UNCHANGED <<boot, third>> /\ boot = NoTime
      BY <1>4 DEF Host2, levels, noise
    <2>3. D1!Heading' /\ (On1' <=> On1)
      BY <1>1, <2>2, FirstWaits DEF Headings
    <2>4. D2!Heading'
      BY <2>1, D2!OffLineHeading, DevicesAssume DEF On2
    <2> QED BY <1>1, <2>1, <2>2, <2>3, <2>4 DEF Arbitration, Headings, Alone, Contest
  <1> QED BY <1>3, <1>4

LEMMA NewDevicesAreOff ==
    ASSUME NEW level PROVE ~D1!OnLine(D1!NewDevice(level)) /\ ~D2!OnLine(D2!NewDevice(level))
  BY DEF D1!OnLine, D2!OnLine, D1!NewDevice, D2!NewDevice

LEMMA PowerUpArbitrates ==
    ASSUME Devices, Devices', Arbitration, PowerUp2 PROVE Arbitration'
  <1>1. Headings /\ Alone
    BY DEF Arbitration
  <1>2. ~On2'
    BY NewDevicesAreOff DEF PowerUp2, D2!PoweredUp, On2
  <1>3. UNCHANGED <<station1, others1>> /\ UNCHANGED third /\ boot' = NoTime
    BY DEF PowerUp2, levels, noise
  <1>4. D1!Heading' /\ (On1' <=> On1)
    BY <1>1, <1>3, FirstWaits DEF Headings
  <1>5. D2!Heading'
    BY <1>2, D2!OffLineHeading, DevicesAssume DEF On2
  <1> QED BY <1>1, <1>2, <1>3, <1>4, <1>5 DEF Arbitration, Headings, Alone, Contest

\* The third party finds nobody on the line when it pulls it, and releases it.
LEMMA NoiseArbitrates ==
    ASSUME Devices, Devices', Arbitration, Disturb \/ Release \/ UNCHANGED vars
    PROVE  Arbitration'
  <1>1. Headings /\ Alone /\ Contest
    BY DEF Arbitration
  <1>2. /\ UNCHANGED <<station1, others1>> /\ UNCHANGED <<station2, others2>>
        /\ UNCHANGED <<boot, call2>>
    BY DEF Disturb, Release, vars, levels, station2
  <1>3. /\ D1!Heading' /\ (On1' <=> On1) /\ Address1' = Address1 /\ D1!View' = D1!View
        /\ D2!Heading' /\ (On2' <=> On2) /\ Address2' = Address2 /\ D2!View' = D2!View
    BY <1>1, <1>2, FirstWaits, SecondWaits DEF Headings
  <1>4. On1' \/ On2' => third'
    <2>1. Disturb => ~On1 /\ ~On2
      BY DEF Disturb, BetweenFrames, On1, On2, D1!OnLine, D2!OnLine
    <2>2. Release \/ UNCHANGED vars => third' = TRUE \/ third' = third
      BY DEF Release, vars, noise
    <2> QED BY <1>1, <1>3, <2>1, <2>2 DEF Alone
  <1> QED BY <1>1, <1>2, <1>3, <1>4 DEF Arbitration, Headings, Alone, Contest

\* What a device drives is what its header says of it.
LEMMA LevelsOfPins ==
    ASSUME Devices, third, D1!Fine(D1!View), D1!Fine(D2!View)
    PROVE  Left1 = D1!Pins(D2!View) /\ Left2 = D1!Pins(D1!View)
  <1>1. D1!Pins(D1!View) = D1!pin
    BY D1!PinsIsPin, DevicesAssume DEF Devices
  <1>2. D2!Pins(D2!View) = D2!pin
    BY D2!PinsIsPin, DevicesAssume DEF Devices
  <1>3. D1!Pins(D2!View) = D2!pin
    <2>1. D2!Pins(D2!View) <=> D1!Pins(D2!View)
      BY SameView
    <2> QED BY <1>2, <2>1 DEF D1!Pins, D2!Pins
  <1>4. Left1 = D2!pin /\ Left2 = D1!pin
    BY DEF Left1, Left2, D1!pin, D2!pin
  <1> QED BY <1>1, <1>3, <1>4

\* What both are on the line with.
Contended == On1 /\ On2 /\ Address1 # Address2
LEMMA ContendedHeaders ==
    ASSUME Devices, Arbitration, Contended
    PROVE  /\ D1!Decided(D1!View, D2!View) /\ D1!Heads(dev1) /\ D2!Heads(dev2)
           /\ D1!Fine(D1!View) /\ D1!Fine(D2!View) /\ third
  <1>1. Headings /\ D1!Decided(D1!View, D2!View) /\ third
    BY DEF Arbitration, Contended, Contest, Alone
  <1>2. D1!Heads(dev1) /\ D2!Heads(dev2)
    BY <1>1, DecidedHeads
  <1> QED BY <1>1, <1>2, HeadersAreFine DEF HeadersFine

LEMMA SettleArbitrates ==
    ASSUME Devices, Devices', Arbitration, Settle PROVE Arbitration'
  <1>1. Headings /\ Alone /\ D1!Heading /\ D2!Heading
    BY DEF Arbitration, Headings
  <1>2. /\ UNCHANGED <<dev1, call1, sinceBit1, wake1, away1>>
        /\ UNCHANGED <<dev2, call2, sinceBit2, wake2, away2>>
        /\ UNCHANGED <<boot, third>> /\ UNCHANGED station1 /\ UNCHANGED station2
    BY DEF Settle, station1, station2, clocks1, clocks2, noise
  <1>3. D1!Heading' /\ (D1!Heads(dev1) => D1!HearsIn(D1!View, D1!View', others1'))
    BY <1>1, <1>2, D1!HearsOnLine, DevicesAssume DEF Devices
  <1>4. D2!Heading' /\ (D2!Heads(dev2) => D2!HearsIn(D2!View, D2!View', others2'))
    BY <1>1, <1>2, D2!HearsOnLine, DevicesAssume DEF Devices
  <1>5. (On1' <=> On1) /\ (On2' <=> On2) /\ Address1' = Address1 /\ Address2' = Address2
    BY <1>2 DEF On1, On2, Address1, Address2
  <1>6. ASSUME Contended PROVE D1!Decided(D1!View', D2!View')
    <2>1. /\ D1!Decided(D1!View, D2!View) /\ D1!Heads(dev1) /\ D2!Heads(dev2)
          /\ D1!Fine(D1!View) /\ D1!Fine(D2!View) /\ third
      BY <1>6, ContendedHeaders
    <2>2. Left1 = D1!Pins(D2!View) /\ Left2 = D1!Pins(D1!View)
      BY <2>1, LevelsOfPins
    <2>3. CASE others1' = Left1 /\ UNCHANGED others2
      <3>1. D1!HearsIn(D1!View, D1!View', D1!Pins(D2!View))
        BY <1>3, <2>1, <2>2, <2>3
      <3>2. D2!View' = D2!View
        BY <1>1, <1>2, <2>3, SecondWaits
      <3>3. Headings'
        BY <1>3, <1>4 DEF Headings
      <3>4. D1!Decided(D1!View', D2!View)
        <4>1. D1!Heads(dev1)'
          BY <1>2, <2>1
        <4>2. D1!Fine(D1!View')
          BY <3>3, <4>1, NextFine DEF HeadersFine
        <4> QED BY <2>1, <3>1, <4>2, D1!DecidedHears, DevicesAssume
      <3> QED BY <3>2, <3>4
    <2>4. CASE others2' = Left2 /\ UNCHANGED others1
      <3>1. D2!HearsIn(D2!View, D2!View', D1!Pins(D1!View))
        BY <1>4, <2>1, <2>2, <2>4
      <3>2. D1!View' = D1!View
        BY <1>1, <1>2, <2>4, FirstWaits
      <3>3. D1!HearsIn(D2!View, D2!View', D1!Pins(D1!View))
        BY <3>1 DEF D1!HearsIn, D2!HearsIn
      <3>4. Headings'
        BY <1>3, <1>4 DEF Headings
      <3>5. D1!Decided(D2!View', D1!View)
        <4>1. D2!Heads(dev2)'
          BY <1>2, <2>1
        <4>2. D1!Fine(D2!View')
          BY <3>4, <4>1, NextFine DEF HeadersFine
        <4>3. D1!Decided(D2!View, D1!View)
          BY <2>1, D1!DecidedIsSymmetric, DevicesAssume
        <4> QED BY <2>1, <3>3, <4>2, <4>3, D1!DecidedHears, DevicesAssume
      <3> QED BY <3>2, <3>5, D1!DecidedIsSymmetric, DevicesAssume
    <2> QED BY <2>3, <2>4 DEF Settle
  <1>7. Contest'
    BY <1>5, <1>6 DEF Contest, Contended
  <1>8. Alone'
    BY <1>1, <1>2, <1>5 DEF Alone
  <1> QED BY <1>3, <1>4, <1>7, <1>8 DEF Arbitration, Headings

LEMMA ViewHears == D1!View.hears = others1 /\ D2!View.hears = others2
  BY DEF D1!View, D2!View, D1!ViewOf, D2!ViewOf

LEMMA TickArbitrates ==
    ASSUME Devices, Devices', Sent, Arbitration, Tick PROVE Arbitration'
  <1> DEFINE t == NextTime
  <1>1. Headings /\ Alone /\ D1!Heading /\ D2!Heading
    BY DEF Arbitration, Headings
  <1>2. /\ D1!Passes(t) /\ D2!Passes(t) /\ UNCHANGED <<others1, others2>> /\ UNCHANGED third
        /\ UNCHANGED <<dev1, call1, dev2, call2>> /\ others1 = Left1 /\ others2 = Left2
    BY DEF Tick, levels, Quiet, D1!Passes, D2!Passes
  <1>3. t \in Nat /\ D1!OnTime(t) /\ (boot = NoTime => D2!OnTime(t))
    BY NextTimeIsTime, FirstIsOnTime, SecondIsOnTime
  <1> HIDE DEF t
  <1>4. D1!Heading' /\ (D1!Heads(dev1) => D1!PassesIn(D1!View, D1!View', t))
    BY <1>1, <1>2, <1>3, D1!PassesOnLine, DevicesAssume DEF Devices, Sent
  <1>5. D2!Heading' /\ (D2!Heads(dev2) => D2!PassesIn(D2!View, D2!View', t))
    <2>1. D2!OnLine(dev2) => D2!OnTime(t)
      BY <1>1, <1>3 DEF Alone, On2
    <2> QED BY <1>1, <1>2, <1>3, <2>1, D2!PassesOnLine, DevicesAssume DEF Devices, Sent
  <1>6. (On1' <=> On1) /\ (On2' <=> On2) /\ Address1' = Address1 /\ Address2' = Address2
    BY <1>2 DEF On1, On2, Address1, Address2
  <1>7. ASSUME Contended PROVE D1!Decided(D1!View', D2!View')
    <2>1. /\ D1!Decided(D1!View, D2!View) /\ D1!Heads(dev1) /\ D2!Heads(dev2)
          /\ D1!Fine(D1!View) /\ D1!Fine(D2!View) /\ third
      BY <1>7, ContendedHeaders
    <2>2. D1!View.hears = D1!Pins(D2!View) /\ D2!View.hears = D1!Pins(D1!View)
      BY <1>2, <2>1, LevelsOfPins, ViewHears
    <2>3. D1!PassesIn(D1!View, D1!View', t) /\ D1!PassesIn(D2!View, D2!View', t)
      BY <1>4, <1>5, <2>1, SameContest
    <2>4. D1!Fine(D1!View') /\ D1!Fine(D2!View')
      <3>1. Headings'
        BY <1>4, <1>5 DEF Headings
      <3>2. D1!Heads(dev1)' /\ D2!Heads(dev2)'
        BY <1>2, <2>1
      <3> QED BY <3>1, <3>2, NextFine DEF HeadersFine
    <2> QED BY <1>3, <2>1, <2>2, <2>3, <2>4, D1!DecidedPasses, DevicesAssume
  <1>8. Contest'
    BY <1>6, <1>7 DEF Contest, Contended
  <1>9. Alone'
    <2>1. boot' # NoTime => boot # NoTime
      BY BootStep DEF Next, Devices
    <2> QED BY <1>1, <1>2, <1>6, <2>1 DEF Alone
  <1> QED BY <1>4, <1>5, <1>8, <1>9 DEF Arbitration, Headings

LEMMA NextArbitrates ==
    Devices /\ Devices' /\ Sent /\ Arbitration /\ FramesBeginOnAFreeLine /\ Soon /\ [Next]_vars
        => Arbitration'
  BY FirstArbitrates, SecondArbitrates, HostsArbitrate, PowerUpArbitrates, NoiseArbitrates,
     SettleArbitrates, TickArbitrates DEF Next

LEMMA InitArbitrates == Init => Arbitration
  <1> SUFFICES ASSUME Init PROVE Arbitration
    OBVIOUS
  <1>1. ~On1 /\ ~On2 /\ third /\ call2 = "none"
    BY NewDevicesAreOff DEF Init, On1, On2
  <1> QED BY <1>1 DEF Arbitration, Headings, Alone, Contest, D1!Heading, D2!Heading,
                      D1!Heads, D2!Heads, On1, On2

LEMMA ArbitratesToOne == Arbitration => OneInitiator
  <1> SUFFICES ASSUME Arbitration, On1, On2, Address1 # Address2
               PROVE  dev1.txByte = 0 /\ dev2.txByte = 0
    BY OnTheWireIsOn DEF OneInitiator, Address1, Address2
  <1>1. D1!Heads(dev1) /\ D2!Heads(dev2)
    BY DecidedHeads DEF Arbitration, Contest
  <1> QED BY <1>1 DEF D1!Heads, D2!Heads

\* If a frame only begins on a line that is free, or in the same moment as another
\* one, and loop() is never away for 600 microseconds, then past the header block
\* there is one initiator: while two with different addresses are both on the line
\* (Process, CEC_TRANSMIT), they are in the same bit of the header, or one is a bit
\* ahead of one that is bound to find the line low and give way.
THEOREM HeadersDecide ==
    ASSUME Soon PROVE Spec => ([]FramesBeginOnAFreeLine => []OneInitiator)
  <1>1. Devices /\ Devices' /\ Sent /\ Arbitration /\ FramesBeginOnAFreeLine /\ [Next]_vars
          => Arbitration'
    BY NextArbitrates
  <1> QED BY <1>1, InitArbitrates, ArbitratesToOne, AlwaysSent, AlwaysDevices, PTL DEF Spec
=============================================================================
