# A TLA+ model of cec-arduino

cec-arduino is the firmware of an ATtiny85 that joins an HDMI CEC bus, one open-drain
wire, as a device: it allocates a logical address, receives the frames on the bus,
sends frames for a PC and talks to the PC as a USB HID device. This directory holds
TLA+ modules translated from the firmware, the TLC configurations that check them on
small instances, and theorems checked by TLAPS for every value of the constants.

File names without a directory are in `src/firmware/cec-arduino/`.

## Inventory

| Component | State | Operations | Talks to |
|---|---|---|---|
| Serial line buffers (`CEC.cpp` 54-139) | transmit count, byte and bit cursor; receive byte and bit cursor | clear, append, pop a bit, push a bit, reset | engine |
| Line driving (`CEC.cpp` 158-205, `.ino` 33-45) | the output pin, the last level seen by `Process` and by `Run`, two time stamps | `Raise`, `Lower`, `HasRaised`, `HasLowered` | the wire, the engine |
| State resets (`CEC.cpp` 731-799) | engine state, flags, retry counter | `ResetState`, `ResetTransmit`, `OnTransmitBegin` | buffers, allocation |
| Address allocation (`CEC.cpp` 821-887, 914-925) | primary, secondary, tertiary state, logical address | `ProcessStateMachine`, `OnTransmitComplete` | queues polls, is told how they ended |
| Signalling engine (`CEC.cpp` 262-729, 927-947) | all of the above and `_waitTime`, `_isrTriggered` | `Run`, `Process` | called by `loop()` for ever |
| CEC bus | the level of the wire | every participant pulls it low or lets it go | the engines of all devices |
| Sketch (`.ino`) | serial buffer | `setup`, `loop`, `User_OnReceive` | engine, HID serial |
| HID serial (`USBComm.cpp` 16-186) | `received`, `inBuffer`, `bytesRemaining`, `outBuffer` | setup and write callbacks, `read`, `write` | sketch, V-USB |
| V-USB driver, C part (`libraries/usbdrv/usbdrv.c`, vendored) | the packet received, transmit buffers and their lengths, data tokens, addresses, the reply in progress | `usbPoll`, `usbProcessRx`, `usbBuildTxBlock`, `usbSetInterrupt` | HID serial, the interrupt handler |
| V-USB driver, interrupt handler (`asmcommon.inc`, `usbdrvasm165.inc`) | the same variables | answers tokens, stores packets, sends packets and handshakes | the host, at any moment |
| Oscillator calibration (`USBComm.cpp` 205-247) | `OSCCAL` | binary search, then neighbourhood search | nothing: `USB_RESET_HOOK` is not defined |

Nothing in the CEC part runs concurrently inside the device: the "interrupt" is a flag
that `Run` raises itself when a sample of the line differs from its last one. What makes
it hard is the outside. The line may move between any two instructions, in particular
between the sample of `Run` and that of `Process`; while the device holds the line low it
can see nothing; other initiators collide with every bit; a handler measures time from a
stamp that an earlier call left; and the engine, the address allocation and the sketch
queue frames in one buffer. On a bus, two devices run this code with a clock that is late
by as much as `loop()` takes with the USB side.

The USB part is concurrent: the interrupt handler answers the host between any two
instructions of the main program, and shares with it a receive buffer, two transmit
buffers, their lengths, their data tokens and the device address. The main program polls
the driver in `loop()` and, while it waits for the host to fetch a report, inside
`HIDSerial::write`, which is called from `Run`. The host may give up a transfer and start
another, set the interface again or reset the bus, at any moment.

What makes each part correct:

- *line driving*: only a state that owns the line pulls it low, and always with a
  wake-up time, because a held line wakes nobody;
- *resets*: nothing of an aborted reception is left for the next, a retransmission
  starts at the first bit, the retry counter stops at its limit;
- *buffers*: cursors agree with the bit the engine is at and stay inside the buffer;
- *allocation*: an address is claimed by an unanswered poll only, and then stays;
- *engine*: a frame begun comes to an end, a frame waiting is sent, steps are taken when
  they are due;
- *bus*: initiator and follower agree on what was transferred, two initiators are told
  apart by the header, nobody mistakes an edge, an address has one owner;
- *HID serial*: the sketch reads whole reports of the host, `write` comes back;
- *USB driver*: a buffer is touched by one side at a time, a reply is to the request in
  progress, packets are neither lost nor repeated, the address is the one the host uses.

## Modules

| Module | Models |
|---|---|
| `CecDevice` | the object of class `CEC_Device` as a record, its member functions as operators from the record before a call to the record after it |
| `CecEngine` | `Run` and `Process` as actions over one device (`dev`), the reason `Process` is being called (`call`) and the level the other devices leave (`others`); the properties |
| `FrameService` | the abstract specification of sending: a frame handed over is sent block by block, each after the acknowledge of the one before it, ends only by an answer or after its last try has failed, and is neither lost nor replaced |
| `MCCecEngine` | values of the constants for TLC |
| `CecDeviceProofs` | lemmas: every member function keeps the object well formed, and the resets leave the line alone |
| `CecEngineProofs` | the inductive invariant of the engine and the theorems |
| `CecFrameProofs` | the cursors and flags of receptions and transmissions and the phase of a reception, as theorems |
| `CecAddressProofs` | the polls of the allocation, the refinement of `FrameService` and that a claimed address is final, as theorems |
| `CecClocked` | `CecEngine` with microseconds and the real bits of the header |
| `CecBus` | two devices of `CecClocked`, their hosts and a third party on one line |
| `MCCecBus` | values of the constants for TLC |
| `CecClockedProofs` | a clocked device implements `CecEngine` |
| `CecBusProofs` | the devices of the bus implement `CecClocked`, so what is proved of a device holds of them |
| `HidSerial` | the object of class `HIDSerial` and its callbacks as operators on a record |
| `UsbDriver` | the main program (`loop`, `usbPoll`, `write`), one step per access to a variable it shares with the interrupt handler, and the transactions of the handler |
| `UsbHost` | the host: control transfers, polls of endpoint 1, giving up, bus resets; the composition with `UsbDriver`, the properties |
| `InterruptPipe` | the abstract specification of endpoint 1: pieces arrive once and in order |
| `MCUsbHost` | values of the constants for TLC |
| `UsbProofs` | buffers, refused SETUPs, the refinement of `InterruptPipe`, fresh replies and the device address, as theorems |
| `UsbReportProofs` | the type of the state and whole reports, as theorems |

How they build on each other:

    CecDevice <- CecEngine <- CecClocked <- CecBus (two instances)
                 CecEngine -> FrameService (refinement)
    HidSerial <- UsbDriver <- UsbHost -> InterruptPipe (refinement)

The instances of `CecBus` are of `CecClockedProofs`, which is `CecClocked` with the theorems
about it, so that `CecBusProofs` can cite a theorem of each of the two devices.

The two sides meet in `loop()`, which hands each report it has read to `TransmitFrame`
and sends each frame that `Run` has received as a report. They are not composed: to
`CecEngine` the USB side is a host that calls `TransmitFrame` between two calls of `Run`
with any frame, and to `UsbDriver` the CEC side is a call of `Run` that receives a frame
of any size or none.

### Correspondence with the code: CEC

A field of `dev` is the member of the same name without underscore and with the
prefix `e` for the engine's states (`ePrimary` is `_e_primaryState`, `primaryState` is
`_primaryState`). `out` is the output pin: TRUE when the line is released. `rxByte` and
`rxBit` are the receive cursor, `txByte`, `txBit` and `txCount` the transmit cursor and
count. The content of a buffer is abstracted to what the code reads back: `txDest`, the
low nibble of the first byte to send, and for received frames the destination nibble,
chosen when `CheckAddress` reads it. A popped bit is 0 or 1, and 0 only past the end.

`Run` is `RunDue`, `RunInterrupted` or `RunAsleep`, the three outcomes of its one `if`
(`CEC.cpp` 940); the first two set `call` and leave the rest to an action of `Process`,
so that the line can move in between. Each `case` label of `Process` is an action; those
that test how long a pulse was take the time as the parameter `t`. `Seen` is the device
after lines 282-292, `Returns(d, w)` the end of `Process` and the assignment of
`_waitTime` in `Run`. What `ResetState`, `ResetTransmit` and `ProcessStateMachine` do to
one another is inside the operators: no handler is split into steps the model may skip.

Time is abstracted in two ways. A measured time is any member of `Elapsed` (microseconds
since `_bitStartTime`), unrelated to other measurements. A wake-up time is the pair of
the stamp it is counted from and the microseconds added, so the model knows whether there
is one and that `micros()` or 0 is already past; any other may be past or not when `Run`
looks. This admits every behaviour of the code and some that real time excludes, so what
is shown to hold holds of the code; for the four violated properties, see below.

`CecClocked` gives the times their values. A stamp is kept as its age and `_waitTime` as
the time left until it, so that the state does not grow with time; an age stops counting
where no test can tell it from a larger one (`BitAges`, `ChangeAges`). `sinceBit` is the
age of `_bitStartTime`, `sinceChange` that of `_lastStateChangeTime`, `wake` the time left
until `_waitTime`. `StaysAway` is `loop()` being with the USB side when there is something
to do: `Run` is called `Lateness` microseconds late. `LetsGo` is `User_SetLineState`, which
waits 50 microseconds for the line to settle before `Raise` reads it back: in between, the
rest of the bus acts. `Lower` waits the same 50 microseconds, but after its stamp, and what
it reads back is its own low; what the wait does change is the wake-up time of a
line error, which `LineError` counts from a `micros()` read after it (`Lowering`), so that
a line error lasts 3650 microseconds and not 3600. The other handlers that pull the line
count from `_bitStartTime`, from before the wait. `heard` is the header as far as it has been received, from the
pulses measured, and `HeaderBit` the header sent; past it, bits are open.

`CecBus` puts two such devices on a wired AND. `Settle` lets the level reach a device,
`Tick` lets time pass to the next moment at which something is due, when nothing else can
happen. The second device is powered up while the first is at work (`boot`). Each host
sends `Frames` frames, to the other device or to all. A third party pulls the line for
600 microseconds, `Pulses` times, between frames: without such an edge a frame queued on
an idle line is not sent (the lost wake-up below).

What `FrameService` sees of a device: a frame is its destination and its number of blocks,
and is in service from the moment the engine or `transmitPending` has it. It is "asking" in
`CEC_XMIT_ACK_TEST`, where the level of the line is the answer to the block just sent, and
"sending" in the other states of `CEC_TRANSMIT` but `CEC_E_IDLE_WAIT`. `blocks` is the
transmit cursor, without the block that is out and has no answer yet, so it says at which
block a try goes on (`NextBlock`) or begins (`Yield`, `Again`: the first one). `Yield` is a
reception that comes first, `Again` a retransmission after a try that failed, `GiveUp` the
end of the frame after the last of `CEC_E_MAX_RETRANSMIT` of them, `Finish` its end by the
answer to its last block, `PollNext` the end of a poll that makes the allocation queue the
poll of the next candidate, in the same call. Two mutants show that this is not idle: a
collision that drops the frame, and a retransmission that goes on where the collision was,
both violate `FramesAreServed`.

### Correspondence with the code: USB

`pc` says where the main program is and `ret` where `usbPoll` returns to (`loop` or
`write`). `rx` is the packet in the receive buffer, with its token; it stands for
`usbRxLen`, `usbRxToken` and the content, and `Free` is `usbRxLen = 0`. The handler fills
the other half of the double buffer, so the half that `usbPoll` works on is a private
copy. `txLen`/`txBuf` and `tx1Len`/`tx1Pid`/`tx1Data` are the two transmit buffers: a
length is `"NAK"` or `"ACK"` (the handshakes with these values) or that of data. `msg` is
the reply in progress (`usbMsgLen`, `usbMsgPtr`, `usbMsgFlags`). `hid` is the `HIDSerial`
object; `reset` is how far the driver has noticed a bus reset.

The handler runs with interrupts disabled, so a transaction of the host is one step with
its effect on these variables: `Accept` stores a packet if the buffer is free, `Refuse`
answers with NAK if not, `SendReply` and `SendInterrupt` send what is offered. The main
program can be interrupted anywhere: every store to or test of a shared variable is an
action, in the order of the source (`ToggleInterrupt`, `CopyInterrupt` and
`OfferInterrupt` are the three parts of `usbGenericSetInterrupt`).

### Abstractions and bounds: CEC

- `SERIAL_BUFFER_SIZE` is 3, on the bus 4 (16 in the code): frames of one, two blocks are
  sent and frames of three refused; more blocks repeat the second.
- `CEC_E_MAX_RETRANSMIT = 2` (5): one retransmission, then giving up.
- `Elapsed`: one value in each window the handlers test (600, 1500, 2400, 3700, 4500)
  and one in none (100). Handlers only compare against windows.
- `Destinations`: the device's first address, another one, broadcast.
- `MaxRxBlocks = 2`: an assumption on the initiators, who end their frame by this block.
  The code has no room test on the receive buffer; CEC frames have at most 16 blocks.
- `HostPaced = TRUE`: no frame is handed over while one is queued or being sent. This is
  an assumption on the program on the PC, and nothing in the repository enforces it: the
  sketch (`cec-arduino.ino` 95-99) calls `TransmitFrame` for every report it reads,
  `TransmitFrame` looks only at `_primaryState` and replaces a frame in the middle of a bit,
  and the PC is not told when its frame has ended, so that it can only wait long enough.
  Without this `TransmitIsAligned` and `FramesAreServed` fail, and all other properties of
  the run hold. There is no run for the failure: no comment, document or test of the
  repository says what a second `TransmitFrame` should do.
- `Raise` reads the line twice, 50 microseconds apart (in `User_SetLineState` and after
  it); the model reads it once.
- `micros()` does not wrap and never equals the sentinels `-1` and `-2`.

On the bus (`Bus.cfg`), in addition:

- a television and a playback device, which poll different addresses; frames of one or
  two blocks, one per host, two pulses;
- the second device is powered up after 40.1 ms, when the first has sent its poll;
- `Lateness = {100}` microseconds. A short and a long bit are told apart by windows of
  200 microseconds to each side, and both edges of a pulse may be seen late. From 150 on
  `AcknowledgedIsReceived` fails: a late edge leads to a line error, and a device with a
  stale broadcast flag reads the low of a line error as its acknowledge. So 100 is a
  condition on `loop()` under which the devices agree, not a fact about the sketch;
- no device reads the line while it settles.

### Abstractions and bounds: USB

- `PacketSize = 2` (8) and `HIDSERIAL_INBUFFER_SIZE = 4` (32): a report of four bytes
  takes two packets and fills the buffer, and its terminating zero is then stored behind
  it. The model has a cell of its own for it; which variable the linker places there, the
  source does not say, and what that variable makes of the zero is not modelled.
- `Chunks`: the pieces of CEC frames are numbered modulo 1 in `Usb.cfg` (only that there
  is one matters there) and modulo 3 in `UsbLive.cfg`, where order, loss and repetition
  are told apart.
- `Requests`: the enumeration, and for each way through `usbDriverSetup` and
  `usbFunctionSetup` one request: answers that end with a packet, inside one and at once,
  reports that fill the buffer, contain a zero, have an identifier.
- A packet sent keeps only its token: `Sent` forgets a content nobody can read again.
- `usbCurrentTok` and packets for other addresses are inside the transactions.
- Only a report brings data, of `wLength` bytes and never more than
  `HIDSERIAL_INBUFFER_SIZE`, which is the size `usbHidReportDescriptor` announces
  (`ReportsAssumption`).
- No STALL: the callbacks never return 0xff. `usbConfiguration` is only reported.
- Assumed of the host: a bus reset is driven for at least one whole `usbPoll`; packets
  are not damaged (the comment at `asmcommon.inc` 153-160 says that the driver relies on
  it); SET_ADDRESS is given up only by a reset; with `HostPaced`, the next report comes
  after `read` has taken the last.

### Fairness

`FairSpec` of `CecEngine` adds weak fairness of `RunDue`, `RunInterrupted` and `Process`:
`loop()` calls `Run` for ever, `Run` calls `Process` in the same call, and every wake-up
time passes. It adds strong fairness of `BeginFrame`: when the line stays free, the needed
idle time passes too, though every look at the clock before that takes `IdleWaitMore`.
Nothing is assumed of the other devices or of the host; where a property needs the line
to settle, it says so.

`FairSpec` of `UsbHost` adds weak fairness of the main program, which nothing blocks, and
of the host's next transaction of a transfer and end of a reset: a USB host repeats what
is refused. It adds strong fairness of `PollInterrupt`: the host polls endpoint 1 every
10 milliseconds or so for ever, at moments that have nothing to do with the few
microseconds in which the driver is in the middle of something.

## Runs

| Run | Shows |
|---|---|
| `Engine.cfg` | pass, about 590,000 states. A promiscuous TV: `TypeOK`, `HoldIsLegitimate`, `HoldIsTimed`, `ReceptionIsClean`, `ReceiveIsAligned`, `TransmitIsAligned`, `PollInFlight`, `AddressIsFinal`, `OnlyOverlapsShiftPhase`, and the refinement `FramesAreServed` |
| `EngineLive.cfg` | pass, about 200,000 states. An audio system that is not promiscuous, with fairness: `OnlyFramesForUs`, `HoldIsReleased`, `TransmissionEnds` |
| `Bus.cfg` | pass, about 2,000,000 states. Two devices that poll, claim and send: `TypeOK`, `HoldsEndInTime`, `AcknowledgedIsReceived`, `ReceivedIsAcknowledged`, `OneInitiator`, `FramesBeginOnAFreeLine`, `EdgesInPhase`, `AcknowledgesEndLast` |
| `Usb.cfg` | pass, about 2,170,000 states. A host that gives up transfers and resets the bus: `TypeOK`, `BuffersAreOwned`, `PacketIsKept`, `RepliesAreFresh`, `AddressesAgree`, `ReportIsWhole` |
| `UsbLive.cfg` | pass, about 130,000 states. A host that does not, with fairness: `SetupIsAccepted`, `PipeIsImplemented`, `TransferEnds`, `WriteEnds` |
| `LostWakeup.cfg` | violation of `WaitingFrameIsSent` |
| `EarlyStep.cfg` | violation of `InterruptMeansChange` |
| `StaleBroadcast.cfg` | violation of `AddresseeUnknownBeforeHeader` |
| `BlindClaim.cfg` | violation of `ClaimFollowsPoll` |
| `AddressTaken.cfg` | violation of `UniqueAddresses` |
| `TornReport.cfg` | violation of `ReportIsWhole`, without `HostPaced` |
| `StaleToggle.cfg` | violation of `TogglesAgree` |

`CHECK_DEADLOCK` stays on: the line may always move and `Run` can always be called, on
the bus the idle time passes, and the main program of the USB side never blocks.

The violations state a comment of the source that the code does not keep:

- **A lost wake-up.** `TransmitPending()` (`CEC.h` 31) compares the states of the address
  allocation with enumerators of the signalling engine and is false for ever. A frame
  queued while the line is low returns "no wake-up time"; the rising edge that would let
  it go returns the same; so it waits for another edge that need never come. In the
  counterexample the line is low at power-up and high ever after, and the first poll is
  never sent. `BeginFrame` is fair in this run, so it is not time that is missing.
- **A step ahead of its time.** When the wake-up time has passed, `Run` does not look at
  the interrupt flag, and the flag of an edge that this `Process` call has already taken
  account of causes the next call at once. Inside a frame that call takes the next timed
  step. The order of the steps needs no clock: the due call and the edge coincide, and
  the next `Run` finds the flag.
- **A stale broadcast flag.** A device that waits to send a broadcast again and sees the
  line go low starts a reception with `_broadcast` still set, which `CEC_E_IDLE` would
  have cleared. Until the frame ends, its acknowledges are read inverted.
- **A blind claim.** A poll given up after too many collisions is reported like one
  nobody answered, and its address is claimed.

- **An address taken.** Two devices that wait for the line let the same time pass from
  the same edge and begin together. The one that loses the start bit or the header to the
  other goes to `CEC_E_IDLE_WAIT` in the middle of the winner's frame: it takes the next
  falling edge for a start bit, whatever bit it belongs to, and gives up. If the winner's
  frame is the poll of a second television for address 0 and the loser the television that
  has it, nobody answers, and both have address 0. This run has the real times.
- **A torn report.** `usbFunctionSetup` and `usbFunctionWrite` store a new report over
  `inBuffer` while `received` still announces the last one. The host has the time: `write`
  polls the driver from inside `Run`, before `loop()` comes to `read`. `Usb.cfg` shows the
  report whole for a host that waits.
- **A stale toggle.** SET_INTERFACE restarts the token of endpoint 1 whatever its buffer
  holds. A packet that waits there goes out with the token of a repetition and is dropped
  by the host. So `PipeHolds` is for hosts that do not send SET_INTERFACE.

`CecEngine` leaves the times open, so its shortest counterexamples need not keep to them:
that of `EarlyStep.cfg` begins its frame before the line has been free for 12 milliseconds.
The times are not what it is about. The same end is reached when the line has been free for
long enough: the idle time changes nothing but when `BeginFrame` is taken, and the due call
and the edge that coincide come after it. In the other counterexamples the handlers that
matter are those of one frame, or the edges come at arbitrary moments of an idle line.

Every property of a passing run has a mutant in `PROJECT.json`: an operator marked "Slip"
next to the definition it replaces, a mistake one could make there, with which TLC finds
the property violated.

## Proofs

### The engine

The modules named `Cec...Proofs` prove, for every buffer size from 2, every positive
retry limit, every device type, both modes and every set of times, destinations and
frame sizes allowed by the assumptions of the modules:

- `TypeCorrect`: `Spec => []TypeOK`;
- `HoldsLegitimately`: `Spec => []HoldIsLegitimate`;
- `HoldsForATime`: `Spec => []HoldIsTimed`;
- `AddressStays`: `Spec => AddressIsFinal`;
- `PollsAreAnswered`: `Spec => []PollInFlight`;
- `FramesServed`: `HostPaced` implies `Spec => FramesAreServed`, the refinement of
  `FrameService`;
- `ReceptionsStartClean`, `ReceptionsAreAligned`, `OnlyOurFramesAreFollowed`:
  `Spec => []P` for `ReceptionIsClean`, `ReceiveIsAligned` and `OnlyFramesForUs`;
- `TransmissionsAreAligned`: `HostPaced` implies `Spec => []TransmitIsAligned`;
- `PhaseShiftsInOverlaps`: `Spec => OnlyOverlapsShiftPhase`.

None of the first three invariants is inductive. `TypeOK` needs that the retry counter is
below its limit while a frame is being sent (the code compares with `==`), that the
transmit cursor is not past the count, that there is a next candidate while addresses are
allocated (`InRange`), and that the bit counter is in the range it counts through in the
states that add one to it (`Counting`). The two properties of the line need each other:
an edge cannot be seen while the device holds the line (`HeldIsUnchanged`), because the last
level seen is then low, so the handlers of edges start from a released line, and the
timed handlers of the states that hold it let go. Together they are `IInv`; `Inductive`
proves it, one lemma per action, and the theorems follow from it.

`AddressStays` is about steps. `Settled(d, l, a)` says that the device `d` is in
`CEC_IDLE` with the addresses `l` and `a`; `CecAddressProofs` shows that every member
function, and then every action, takes a settled device to a device settled on the same
addresses. The one place where it could fail is `OnTransmitComplete`, which pumps the
allocation only while it is going on.

The provers do badly on sets of records with 26 fields. The proofs treat a device as a
function on its field names (`IsDevice`), with a type for each field (`Typed`), and
`DeviceTyped` shows that this is membership in `Device`.

`CecFrameProofs` adds two invariants to `IInv`. `Rx(dev)` says that a device either has
nothing left of a reception (`Clean`), or is in `CEC_RECEIVE` with the cursor and the EOM
at the bit its state is at (`RxCursor`, `RxEnd`), and past the header knows the addressee
(`PastHeader`). It holds whatever the sketch does. `Tx(dev)` says the same of the transmit
cursor while sending, and that a frame that waits does so at its first bit; it needs
`HostPaced`, since a second `TransmitFrame` replaces the frame under the cursor. Neither
is a consequence of the property it proves: a handler moves the cursor in one state and
the state machine in another, and only together do they come out at the end of a block. Most
lemmas say which fields a member function leaves alone ("Agrees").

`PhaseShiftsInOverlaps` is a fact about the steps of a receiver. The receive states take any
change of the line for the edge they wait for, so they are right only as long as the level
last seen is the one before that edge. The proof has one lemma per action ("Phase"): a
handler that waits for an edge stores the level after it and goes on to a state that waits
for the opposite one; `ReceiveEndOfBlock`, which pulls the line low itself, leaves it so
until `RCV_ACK_SENT`; and that state, which samples the line after letting go, is in phase
with `RCV_ACK2` exactly when the line has risen.

`FramesServed` is about every step of the detailed specification being a step of the
abstract one or a stutter. `Moves(d, e, answered)` says this of two devices and the answer
on the line, and one lemma per operator and per action ("Served") shows it of the device
before and after: a collision and a low part read back wrong only put the frame back or end
its last try (`RetransmitsServed`), and only the test of the acknowledge completes it
(`TestServed`). It needs `Tx`, by which a frame is queued once at most (`transmitPending` is
false in `CEC_TRANSMIT`) and the cursor is at the end of a block in `CEC_XMIT_ACK_TEST`, and
`Promised(dev)`: while an address is allocated, the frame in service is the poll of the
current candidate, alone. `OnTransmitComplete` does not say which frame has ended, so only
this makes its next poll one for another address (`PollNext`) rather than a second frame in
the place of somebody else's. `Promised` is the invariant of `PollsAreAnswered` too, which
holds whatever the sketch does: until an address is claimed `TransmitFrame` refuses, so
that until then `Tx` holds without `HostPaced` (`Allocates`).

### The clock and the bus

- `ClockedTypeCorrect`: the ages, the time left and the header heard stay in their ranges;
- `ClockedIsEngine`: `ClockedSpec => Spec`, the clocked device implements `CecEngine`;
- `FirstIsClocked`: `CecBus!Spec => D1!ClockedSpec`, the first device of the bus implements
  the clocked device;
- `SecondIsClocked`: so does the second from the moment it is powered up, when it is as
  `setup()` leaves it;
- `BusTypeCorrect`: `CecBus!Spec => []TypeOK`;
- `FirstServes`: `CecBus!Spec => D1!FramesAreServed`, the three refinements one after the
  other: the first device serves its frames whatever the rest of the bus does;
- `SecondServes`: so does the second, which has nothing to send when it is powered up, in
  the middle of whatever frame;
- `BothPollsAnswered`: `CecBus!Spec => [](D1!PollInFlight /\ D2!PollInFlight)`;
- `HoldsEnd`: `CecBus!Spec => []HoldsEndInTime`, for every `Lateness`: 3700 microseconds for
  a start bit, 600 for a one and 1500 for a zero, 600 and 1500 for an acknowledge, 3650 for a
  line error;
- `EdgesStayInPhase`: `CecBus!Spec` implies `[]AcknowledgesEndLast => []EdgesInPhase`;
- `HeadersDecide`: if every lateness is below 600 microseconds (`Soon`), `CecBus!Spec` implies
  `[]FramesBeginOnAFreeLine => []OneInitiator`.

They make the abstraction of time in `CecEngine` more than a plausible one: each handler,
given the age of its stamp, does what `CecEngine` allows with the times left open,
provided `Elapsed` contains the ages and `Destinations` all addresses; and what a device
meets on the bus is among what `CecEngine` lets it meet. So the theorems above, which are
for every such `Elapsed`, are about a device on a real bus with a real clock too. The
steps need the type of `_waitTime` (part of `IInv`) and that the next moment due exists,
which is the well-ordering of the naturals.

`BusTypeCorrect` rests on `Devices`: both devices satisfy the inductive invariant of a
clocked device. Its step is not proved again but is `NextClocked`, cited through the
instances `D1` and `D2`; `DevicesAssume` shows that the constants of the bus satisfy what
the modules of the devices assume. The blocks owed are in their range because the transmit
count of the device that sent them is.

`EdgesStayInPhase` reduces a property of all the edges of all frames to one of a single
moment. `ClockedPhase` carries `PhaseShiftsInOverlaps` over to a clocked device; what is
left is that the initiator, which holds the acknowledge bit for 600 microseconds, has let
go of it when the follower does after 1500. That is about the clocks of both devices and
is the hypothesis, which the run of the bus checks (`AcknowledgesEndLast`).

`HoldsEnd` is the first theorem about real times. Its invariant is `HoldClock`: while a
device pulls the line, the age of the pull and the time left until `_waitTime` make up no
more than the signal takes, and once it is due, only one absence of `loop()` comes before
`Process` lets go (`ProcessReleases`). `ProcessPulls` shows, for every handler, that one
that pulls the line stamps the change and returns a wake-up time no longer than the signal,
counted from that stamp: `Lower` refreshes `_bitStartTime` only if the line was high, and a
deadline counted from an older stamp would come early, not late; and the 3600 microseconds
of a line error are counted from the end of the settling time. How long a bit takes is what
the frame says: the address of the initiator and the destination for the header (`HeaderSent`),
the blocks left for the EOM bit. This needs `Tx`, by which the state and the cursor are at the
same bit; the bits of an operand are open, and there the bound is the wake-up time chosen.
The run of the bus reaches no line error, since the third party pulls no line into a frame:
that a line error lasts 3650 microseconds and no longer rests on this theorem alone. That
`Tick` never passes a moment at which something is due (`NextTimeIsFirst`) is what bounds
the age, so the theorem is one of the bus. The second device pulls nothing before it
is powered up (`Dormant`).

`HeadersDecide` is about the arbitration. An initiator never compares what it sends with
what is on the line; it gives way when `Process` finds a level it has not left behind itself
(`Collision`). Two that begin in the same moment stay in step for as long as they send the
same bits, each with its own lateness; the first one to let go of the line earlier finds
it still low when it reads it back, and gives way. The proof reduces a device to what matters of its
header (`View`: the bit, the bits sent, the part of the bit and its wake-up time, the
level it hears, whether an edge is left to be looked at) and its actions to five steps
of a view (`StepsIn`), the passing of time and a change of the line. The invariant,
`Decided`, says of two views that they are in the same bit and have sent the same bits
before (`Together`), or that one is a bit ahead, holds the line low, and the other one either
has not seen it yet, in which case it sees the level when it next looks, or is alerted
(`Ahead`). It is inductive because a late step is later by less than the 600 microseconds that
the shortest pulse takes, and because the blocks of different initiators differ in their first
four bits: before the fourth is over, one of the two sends a one where the other sends a zero. So
neither gets past the header with the other one. That two begin in the same moment, and
not one in the middle of the other's frame, is the hypothesis, which the run of the bus checks
(`FramesBeginOnAFreeLine`): it is what the idle times are for. `Alone` adds that the third
party does not hold the line meanwhile, by its assumption, and that the second device is
not on the line before it is powered up.

### The USB side

For every packet size, buffer size, set of requests, descriptors and frames:

- `PacketStays`: `Spec => PacketIsKept`, by the actions that store to `rx`;
- `BuffersHaveOneOwner`: `Spec => []BuffersAreOwned`, inductive with the range of `ret`;
- `EverySetupIsAccepted`: `Spec => []SetupIsAccepted` for a host that does not give up.
  `SetupInv` says that the receive buffer is free between two transfers: the last
  transaction of one is refused until the driver has released the packet before;
- `PipeHolds`: `Spec => PipeIsImplemented`, the refinement of `InterruptPipe`, for a host
  that neither gives up nor sends SET_INTERFACE. `PipeInv` relates the last piece offered,
  the token in the buffer and the token the host expects (`InStep`), and says that nothing
  on its way to the driver would restart the token (`NoRestart`);
- `AnswersAreForTheRequest`: `Spec => RepliesAreFresh`. What goes out was put in the buffer
  earlier, when another request may have been in progress: `ReplyInv` follows the reply
  from the SETUP that waits (`SetupWaits`) through `usbMsgLen` and the token to come
  (`NextInv`) into the packet offered (`PacketInv`), with the progress of the host;
- `AddressIsTheHosts`: `Spec => []AddressesAgree`. `AddressInv` says where the new address
  is between the packet and the end of its status, and that a reset makes the driver
  forget both addresses before the host begins again (`Forgotten`, `LateForgetting`);
- `UsbTypeCorrect`: `Spec => []TypeOK`. That no report runs past `inBuffer` is `RoomInv`:
  `bytesRemaining` and `pos` together never exceed the buffer while a report arrives,
  whatever transfers were given up before. `WriterInv` keeps `write` from sending a piece too
  many, and `SizesInv` a reply from exceeding a packet;
- `ReportsAreWhole`: `Spec => []ReportIsWhole` for a host that waits until a report has been
  read (`HostPaced`). `ContentInv` compares the buffer with what the host has sent of its
  report so far, taking a packet that waits in the receive buffer as stored already
  (`Coming`). `usbFunctionWrite` drops zeros packet by packet, so it needs that this is the
  same as dropping them from the whole (`WithoutZerosConcat`). That is an induction over the
  length of a packet, which the induction theorems of the library cannot give here; it
  is done with the least counterexample of a set of naturals (`InductionOverASet`).

### Only model-checked

- Of the engine: `HoldIsReleased` and `TransmissionEnds`, liveness under fairness, which
  is out of the prover's reach.
- Of the bus: `AcknowledgedIsReceived`, `ReceivedIsAcknowledged`, `AcknowledgesEndLast` and
  `FramesBeginOnAFreeLine`, of which the last two are the hypotheses of `EdgesStayInPhase` and
  `HeadersDecide`. They hold for a lateness of 100 microseconds and for the windows of the
  code; a proof would have to follow both devices through a whole frame and the idle time
  after it.
- Of the USB side: `TransferEnds` and `WriteEnds`, which are liveness.

## Not modelled

- The cycle-counted sampling, bit stuffing and CRC of USB packets in the interrupt
  handler: there is no state to speak of, only timing of instructions.
- The oscillator calibration: `usbconfig.h` defines no `USB_RESET_HOOK`, so
  `usbEventResetReady` is never called.
- The wrap of `micros()` and the sentinels as numbers: the models keep ages and times
  left. At a wrap a step comes early, or one wake-up time is waited for a whole period.
- The contents of CEC frames beyond the header, and debug output.
- Endpoint halt, endpoint 3, flow control and OUT endpoints of V-USB: compiled out.
- `serBuffer` of the sketch (`cec-arduino.ino` 30), into which `read` copies a report. It has
  32 bytes, as `inBuffer` has: `read` stores the zero that ends a full report behind it
  (`USBComm.cpp` 145). What is there is up to the linker.
- V-USB for other clock rates (`usbdrvasm12.inc` and others) and `oddebug.c`: not built
  for this board.
- An initiator that stops in the middle of a frame, or sends more blocks than a frame may
  have: assumptions on the other devices.

## Plan

Done: `CecDevice` and `CecEngine` with their runs and the refinement of `FrameService`;
`HidSerial`, `UsbDriver`, `UsbHost` and the refinement of `InterruptPipe`; `CecClocked` and
`CecBus`; theorems for all safety properties of the engine and of the USB side that passing
runs check; the refinements from the bus to the engine, and the type of the bus.

Left, in the order of what it would add:

1. The composition of the two sides through `loop()`: a frame from the host of one device
   to the host of another, with the lateness that `write` really causes instead of the
   constant. It needs the bus without the details of the transactions.
2. An abstract specification of address claiming. What the code keeps is weaker than
   unique owners (see the address taken), so it would state under which conditions on the
   waiting times two claims cannot meet.
3. `AcknowledgesEndLast` and `FramesBeginOnAFreeLine`, with which `EdgesInPhase` and
   `OneInitiator` are theorems without a hypothesis about the other device. They need what
   `Decided` is for a header for the rest of a frame: an invariant that ties the state, the
   level last seen and the times left of an initiator to those of a follower.
4. The wake-up decision of `Run` over a clock of small width that wraps.
