------------------------------- MODULE CecBus -------------------------------
(***************************************************************************)
(* Two devices on one CEC line, each a CecClocked of its own type.  The    *)
(* line is a wired AND, and what one device drives is what the other sees  *)
(* of it once the line has settled (the delay of User_SetLineState), so    *)
(* both may begin to drive before either sees the other.  A third party    *)
(* pulls the line now and then, never into a frame: it stands for the      *)
(* traffic of other devices, which is what wakes a waiting frame.          *)
(*                                                                         *)
(* The clock stands still while something can happen at once, and then     *)
(* goes to the next moment at which something is due.                      *)
(***************************************************************************)
EXTENDS Integers, FiniteSets

CONSTANTS
    SERIAL_BUFFER_SIZE, CEC_E_MAX_RETRANSMIT, Promiscuous, Lateness,
    Type1, Type2,   \* the types of the two devices
    FrameSizes,     \* the operand counts the hosts pass to TransmitFrame
    Frames,         \* how many frames each host sends
    Moments,        \* the times after which the second device is powered up
    Pulses          \* how often the third party pulls the line

ASSUME SizeAssumption == SERIAL_BUFFER_SIZE \in Nat /\ SERIAL_BUFFER_SIZE >= 2
ASSUME RetryAssumption == CEC_E_MAX_RETRANSMIT \in Nat \ {0}
ASSUME ModeAssumption == Promiscuous \in BOOLEAN
ASSUME FrameAssumption == FrameSizes \subseteq Nat
ASSUME LatenessAssumption == Lateness \subseteq Nat \ {0}
ASSUME MomentsAssumption == Moments \subseteq Nat \ {0}
ASSUME BoundsAssumption == Frames \in Nat /\ Pulses \in Nat

VARIABLES
    dev1, call1, others1, sinceBit1, sinceChange1, wake1, away1, heard1,
    dev2, call2, others2, sinceBit2, sinceChange2, wake2, away2, heard2,
    todo1, todo2,   \* the frames the host of each device still sends
    boot,           \* the time left until the second device is powered up
    third,          \* whether the third party releases the line
    pulse,          \* the time left until it does
    pulses,         \* how often it still pulls the line
    owed1, owed2,   \* the blocks of the frame that was acknowledged to each
                    \* device and that the other has not handed over yet
    astray          \* whether a frame was handed over that was not so owed

Ages == 0..5000
Nibbles == 0..15

\* The devices are instances of the module with their theorems, so that a proof
\* about the bus can cite what is proved of a device, of each of the two.
D1 == INSTANCE CecClockedProofs WITH
        dev <- dev1, call <- call1, others <- others1, sinceBit <- sinceBit1,
        sinceChange <- sinceChange1, wake <- wake1, away <- away1, heard <- heard1,
        DeviceType <- Type1, MonitorMode <- FALSE, Elapsed <- Ages,
        Destinations <- Nibbles, MaxRxBlocks <- SERIAL_BUFFER_SIZE, HostPaced <- TRUE
D2 == INSTANCE CecClockedProofs WITH
        dev <- dev2, call <- call2, others <- others2, sinceBit <- sinceBit2,
        sinceChange <- sinceChange2, wake <- wake2, away <- away2, heard <- heard2,
        DeviceType <- Type2, MonitorMode <- FALSE, Elapsed <- Ages,
        Destinations <- Nibbles, MaxRxBlocks <- SERIAL_BUFFER_SIZE, HostPaced <- TRUE

ASSUME TypesAssumption == {Type1, Type2} \subseteq DOMAIN D1!ValidLogicalAddresses

clocks1 == <<sinceBit1, sinceChange1, wake1, away1, heard1>>
clocks2 == <<sinceBit2, sinceChange2, wake2, away2, heard2>>
station1 == <<dev1, call1, clocks1>>
station2 == <<dev2, call2, clocks2>>
levels == <<others1, others2>>
hosts == <<todo1, todo2>>
noise == <<third, pulse, pulses>>
history == <<owed1, owed2, astray>>
vars == <<station1, station2, levels, hosts, boot, noise, history>>

NoTime == -1
BROADCAST == 15
Silence == 20000        \* longer than every idle time the code waits for
PulseLength == 600

-----------------------------------------------------------------------------
(* The devices and their hosts.                                            *)

Run1 ==
    /\ D1!ClockedRun \/ D1!StaysAway \/ D1!LetsGo
    /\ UNCHANGED <<station2, levels, hosts, boot, noise, history>>

Run2 ==
    /\ boot = NoTime
    /\ D2!ClockedRun \/ D2!StaysAway \/ D2!LetsGo
    /\ UNCHANGED <<station1, levels, hosts, boot, noise, history>>

Process1 ==
    /\ D1!ClockedProcess
    /\ owed1' = IF D1!Succeeds THEN dev1.txCount ELSE owed1
    /\ owed2' = IF D1!HandsOver THEN 0 ELSE owed2
    /\ astray' = (astray \/ (D1!HandsOver /\ owed2 # dev1.rxByte))
    /\ UNCHANGED <<station2, levels, hosts, boot, noise>>

Process2 ==
    /\ D2!ClockedProcess
    /\ owed2' = IF D2!Succeeds THEN dev2.txCount ELSE owed2
    /\ owed1' = IF D2!HandsOver THEN 0 ELSE owed1
    /\ astray' = (astray \/ (D2!HandsOver /\ owed1 # dev2.rxByte))
    /\ UNCHANGED <<station1, levels, hosts, boot, noise>>

\* The hosts send to each other, or to all.
Host1 ==
    /\ todo1 > 0
    /\ \E dest \in {dev2.address, BROADCAST} \cap Nibbles, count \in FrameSizes :
        D1!HostTransmit(dest, count)
    /\ todo1' = todo1 - 1
    /\ UNCHANGED <<clocks1, station2, levels, todo2, boot, noise, history>>

Host2 ==
    /\ boot = NoTime /\ todo2 > 0
    /\ \E dest \in {dev1.address, BROADCAST} \cap Nibbles, count \in FrameSizes :
        D2!HostTransmit(dest, count)
    /\ todo2' = todo2 - 1
    /\ UNCHANGED <<clocks2, station1, levels, todo1, boot, noise, history>>

PowerUp2 ==
    /\ boot = 0
    /\ D2!PoweredUp(others2)
    /\ boot' = NoTime
    /\ UNCHANGED <<station1, levels, hosts, noise, history>>

-----------------------------------------------------------------------------
(* The line and the time.                                                  *)

\* What the rest of the bus leaves of the line to each device.
Left1 == D2!pin /\ third
Left2 == D1!pin /\ third

Settle ==
    /\ \/ others1 # Left1 /\ others1' = Left1 /\ UNCHANGED others2
       \/ others2 # Left2 /\ others2' = Left2 /\ UNCHANGED others1
    /\ UNCHANGED <<station1, station2, hosts, boot, noise, history>>

\* Nothing more happens at this moment.
Quiet ==
    /\ others1 = Left1 /\ others2 = Left2
    /\ D1!Rests /\ (boot = NoTime => D2!Rests)
    /\ boot # 0 /\ pulse # 0

Dues == {wake1, wake2, away1, away2, boot, pulse} \cap (Nat \ {0})
NextTime == IF Dues = {} THEN Silence
            ELSE CHOOSE t \in Dues : \A u \in Dues : t <= u

Tick ==
    /\ Quiet
    /\ D1!Passes(NextTime) /\ D2!Passes(NextTime)
    /\ boot' = D1!Rest(boot, NextTime)
    /\ pulse' = D1!Rest(pulse, NextTime)
    /\ UNCHANGED <<levels, hosts, third, pulses, history>>

BetweenFrames(device) ==
    device.ePrimary = "IDLE" \/ (device.ePrimary = "TRANSMIT" /\ device.eSecondary = "IDLE_WAIT")

Disturb ==
    /\ Quiet /\ third /\ pulses > 0
    /\ BetweenFrames(dev1) /\ BetweenFrames(dev2)
    /\ third' = FALSE /\ pulse' = PulseLength /\ pulses' = pulses - 1
    /\ UNCHANGED <<station1, station2, levels, hosts, boot, history>>

Release ==
    /\ pulse = 0
    /\ third' = TRUE /\ pulse' = NoTime
    /\ UNCHANGED <<station1, station2, levels, hosts, boot, pulses, history>>

-----------------------------------------------------------------------------

Init ==
    /\ dev1 = D1!NewDevice(TRUE) /\ call1 = "none" /\ others1 = TRUE
    /\ sinceBit1 = D1!BitAges /\ sinceChange1 = 0 /\ wake1 = 0 /\ away1 = NoTime
    /\ heard1 = 0
    /\ dev2 = D2!NewDevice(TRUE) /\ call2 = "none" /\ others2 = TRUE
    /\ sinceBit2 = D2!BitAges /\ sinceChange2 = 0 /\ wake2 = NoTime /\ away2 = NoTime
    /\ heard2 = 0
    /\ todo1 = Frames /\ todo2 = Frames
    /\ boot \in Moments
    /\ third = TRUE /\ pulse = NoTime /\ pulses = Pulses
    /\ owed1 = 0 /\ owed2 = 0 /\ astray = FALSE

Next ==
    \/ Run1 \/ Process1 \/ Host1
    \/ Run2 \/ Process2 \/ Host2 \/ PowerUp2
    \/ Settle \/ Tick \/ Disturb \/ Release

Spec == Init /\ [][Next]_vars

-----------------------------------------------------------------------------
(* Properties.                                                             *)

\* The type of the state.
TypeOK ==
    /\ D1!ClockedTypeOK /\ D2!ClockedTypeOK
    /\ {todo1, todo2} \subseteq 0..Frames /\ pulses \in 0..Pulses
    /\ {boot, pulse} \subseteq Nat \cup {NoTime}
    /\ {owed1, owed2} \subseteq 0..SERIAL_BUFFER_SIZE
    /\ {third, astray} \subseteq BOOLEAN

HandingOver(device, blocks) ==
    /\ device.ePrimary = "RECEIVE" /\ device.eSecondary = "RCV_ACK_SENT"
    /\ device.eom /\ device.rxByte = blocks

\* No device pulls the line low for longer than the bit (by its value), acknowledge
\* or line error (with the settling time Lower spends first) that it signals, and
\* the time for which loop() may be with the USB side: no order of edges, interrupts,
\* resets and calls of TransmitFrame leaves the bus wedged.
HoldsEndInTime == D1!HoldEndsInTime /\ D2!HoldEndsInTime

\* When an initiator has seen its last block acknowledged, the other device is
\* the one that acknowledges it, and hands over all the blocks sent and no
\* others when it lets go of the line: no acknowledge comes from nobody.
AcknowledgedIsReceived ==
    /\ owed1 # 0 => HandingOver(dev2, owed1)
    /\ owed2 # 0 => HandingOver(dev1, owed2)

\* A follower hands over only what was acknowledged to the initiator before, so
\* a frame that is sent again was not received the first time.
ReceivedIsAcknowledged == ~astray

OnTheWire(device) == device.ePrimary = "TRANSMIT" /\ device.eSecondary # "IDLE_WAIT"

\* Two initiators may begin in the same moment, but if they have different
\* addresses the bits of the header decide between them: past it there is one.
OneInitiator ==
    D1!Initiator(dev1) # D2!Initiator(dev2) =>
        ~(OnTheWire(dev1) /\ OnTheWire(dev2) /\ dev1.txByte > 0 /\ dev2.txByte > 0)

\* A frame begins on a line that is free and has been quiet, or in the same moment
\* as another one: the idle time that BeginFrame waits for, measured by each device
\* from the edges it has seen itself, keeps it out of what others send.
JustBegun(device, age) == device.eSecondary = "XMIT_STARTBIT1" /\ age = 0
FramesBeginOnAFreeLine ==
    /\ D1!Begins => /\ third /\ ~dev1.isrTriggered
                    /\ OnTheWire(dev2) => JustBegun(dev2, sinceBit2)
    /\ D2!Begins => /\ third /\ ~dev2.isrTriggered
                    /\ OnTheWire(dev1) => JustBegun(dev1, sinceBit1)

\* A receiver takes any edge for the one it waits for, and is never wrong: also
\* after its own acknowledge has overlapped with that of the initiator.
EdgesInPhase == D1!InPhase(dev1) /\ D2!InPhase(dev2)

\* When a follower lets go of its acknowledge (RCV_ACK_SENT), the initiator has
\* let go of the line before, so that it rises and the next edge is a fall.
AcknowledgesEndLast == ~(D1!Looks /\ D1!Overlaps) /\ ~(D2!Looks /\ D2!Overlaps)

-----------------------------------------------------------------------------
(* What the comments of the source say and the code does not do.           *)

Registered(device) ==
    device.primaryState = "CEC_IDLE" /\ device.logicalAddress # BROADCAST

\* "Someone is there, try the next" (CEC.cpp:847): an address that a device on
\* the bus has claimed is not claimed by another one.
UniqueAddresses ==
    Registered(dev1) /\ Registered(dev2) => dev1.logicalAddress # dev2.logicalAddress
=============================================================================
