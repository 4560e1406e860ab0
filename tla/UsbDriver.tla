------------------------------ MODULE UsbDriver ------------------------------
(***************************************************************************)
(* The USB driver (usbdrv.c) with the interrupt handler it shares its      *)
(* buffers with (asmcommon.inc), and the main program that calls it:       *)
(* loop() of the sketch, HIDSerial::write and usbPoll.                     *)
(*                                                                         *)
(* The handler answers a transaction of the host with interrupts disabled: *)
(* it is one step.  The main program can be interrupted anywhere: it takes *)
(* one step per access to a variable the handler also uses, and `pc' says  *)
(* where it is.  The configuration is that of usbconfig.h: an interrupt    *)
(* endpoint 1, no endpoint halt, no flow control, no check of the data     *)
(* toggle, messages of at most 254 bytes.                                  *)
(*                                                                         *)
(* A packet's contents are abstracted to what it is about: a reply to the  *)
(* host is the request it answers and its place in the answer, a piece of  *)
(* a CEC frame sent on endpoint 1 is its number modulo Chunks.             *)
(***************************************************************************)
EXTENDS HidSerial

CONSTANTS
    DescriptorLength,   \* the length of each descriptor the device has
    FrameSizes,         \* the sizes of the CEC frames that Run receives
    Chunks              \* pieces of frames are numbered modulo Chunks

ASSUME ChunksAssumption == Chunks \in Nat \ {0}
ASSUME FrameSizesAssumption == FrameSizes \subseteq Nat
ASSUME DescriptorAssumption ==
    DescriptorLength \in [DOMAIN DescriptorLength -> 0..(USB_NO_MSG - 1)]

VARIABLES
    pc,                 \* where the main program is
    ret,                \* where usbPoll returns to
    toWrite,            \* the pieces that HIDSerial::write still has to send
    offered,            \* the number of the last piece given to endpoint 1
    rx,                 \* the packet received and not yet processed, or Free
    txLen, txBuf,       \* endpoint 0: what an IN token is answered with
    tx1Len, tx1Pid, tx1Data,    \* endpoint 1: the same
    usbDeviceAddr, usbNewDeviceAddr,
    msg,                \* the reply in progress: usbMsgLen, -Ptr and -Flags
    hid,                \* the HID serial port
    reset               \* a reset of the bus, see ResetStates

programVars == <<pc, ret, toWrite, offered>>
endpoint0 == <<txLen, txBuf>>
endpoint1 == <<tx1Len, tx1Pid, tx1Data>>
addresses == <<usbDeviceAddr, usbNewDeviceAddr>>
driverVars == <<pc, ret, toWrite, offered, rx, txLen, txBuf, tx1Len, tx1Pid, tx1Data,
                usbDeviceAddr, usbNewDeviceAddr, msg, hid, reset>>

Free == [token |-> "none"]
NoRequest == [kind |-> "none", value |-> 0, length |-> 0, data |-> <<>>]

\* The host drives a reset for many polls of the driver (usbPoll: "called
\* multiple times during reset"), at least for one that begins during it.
ResetStates == {"none", "driven", "polled", "noticed"}

\* Of a packet that has been sent, only the token matters from then on.
Sent(packet) == [packet EXCEPT !.req = NoRequest, !.off = 0, !.len = 0]

\* usbTxLen and usbTxLen1 hold a handshake or the length of a packet.
Idle(len) == len = "NAK"
Toggled(pid) == IF pid = "DATA0" THEN "DATA1" ELSE "DATA0"

\* The initial values of the driver's variables.
Variables ==
    /\ rx = Free
    /\ txLen = "NAK" /\ txBuf = [pid |-> "none", req |-> NoRequest, off |-> 0, len |-> 0]
    /\ usbDeviceAddr = 0 /\ usbNewDeviceAddr = 0
    /\ msg = [len |-> USB_NO_MSG, req |-> NoRequest, off |-> 0, user |-> FALSE]

\* usbInit, called by setup() through begin().
UsbInit == tx1Len = "NAK" /\ tx1Pid = "DATA1" /\ tx1Data = 0

\* After setup(), which connected the device: the host resets the bus.
Setup ==
    /\ Variables /\ UsbInit
    /\ hid = HidInit
    /\ pc = "loop" /\ ret = "run" /\ toWrite = 0 /\ offered = 0
    /\ reset = "driven"

-----------------------------------------------------------------------------
(* The interrupt handler, called with a transaction of the host.           *)

\* A received packet waits, or the main program is processing it.
Busy == rx # Free

\* Packets for another address are ignored.
Addressed(address) == usbDeviceAddr = address

\* Slip: a packet that is refused has already overwritten the one before.
AcceptOverwriting(packet) ==
    /\ rx' = packet
    /\ UNCHANGED <<programVars, endpoint0, endpoint1, addresses, msg, hid, reset>>

\* SETUP or OUT with data for a free buffer: it is acknowledged and the halves
\* of usbRxBuf change places, so that the main program reads a copy of its own.
Accept(packet) ==
    /\ ~Busy
    /\ rx' = packet
    /\ UNCHANGED <<programVars, endpoint0, endpoint1, addresses, msg, hid, reset>>

\* Slip: OUT without data occupies the buffer like any other.
AcceptEmptyStored == Accept([token |-> "OUT", data |-> <<>>])

\* OUT without data: acknowledged and forgotten.
AcceptEmpty == ~Busy /\ UNCHANGED driverVars

\* The end of a data packet that is sent makes the new address count.
AssignAddress == usbDeviceAddr' = usbNewDeviceAddr

\* Slip: the new address counts from the next handshake, as it once did.
RefuseAndMove ==
    /\ AssignAddress
    /\ UNCHANGED <<programVars, rx, endpoint0, endpoint1, usbNewDeviceAddr, msg, hid,
                   reset>>

\* Data for a buffer that is not free, or IN without a packet to send.
Refuse == UNCHANGED driverVars

\* IN on endpoint 0 with a packet to send.  Nothing is sent as long as a
\* received packet waits.
SendReply ==
    /\ ~Busy
    /\ txLen = "DATA"
    /\ txLen' = "NAK" /\ AssignAddress
    /\ txBuf' = Sent(txBuf)
    /\ UNCHANGED <<programVars, rx, endpoint1, usbNewDeviceAddr, msg, hid,
                   reset>>

\* IN on endpoint 1 with a packet to send.
SendInterrupt ==
    /\ ~Busy
    /\ tx1Len = "DATA"
    /\ tx1Len' = "NAK" /\ AssignAddress
    /\ UNCHANGED <<programVars, rx, endpoint0, tx1Pid, tx1Data, usbNewDeviceAddr, msg, hid,
                   reset>>

-----------------------------------------------------------------------------
(* usbPoll: a received packet.                                             *)

PollReceived ==
    /\ pc = "poll"
    /\ pc' = IF ~Busy THEN "transmit" ELSE IF rx.token = "SETUP" THEN "restart" ELSE "data"
    /\ reset' = IF reset = "driven" THEN "polled" ELSE reset
    /\ UNCHANGED <<ret, toWrite, offered, rx, endpoint0, endpoint1, addresses, msg, hid>>

\* A SETUP starts the data toggles of endpoint 0 again ...
RestartToggle ==
    /\ pc = "restart" /\ pc' = "cancel"
    /\ txBuf' = [txBuf EXCEPT !.pid = "DATA0"]
    /\ UNCHANGED <<ret, toWrite, offered, rx, txLen, endpoint1, addresses, msg, hid, reset>>

\* Slip: a pending reply survives the SETUP of the next request.
CancelNothing ==
    /\ pc = "cancel" /\ pc' = "request"
    /\ UNCHANGED <<ret, toWrite, offered, rx, endpoint0, endpoint1, addresses, msg, hid,
                   reset>>

\* ... and cancels the reply to the request before it.
CancelReply ==
    /\ pc = "cancel" /\ pc' = "request"
    /\ txLen' = "NAK"
    /\ UNCHANGED <<ret, toWrite, offered, rx, txBuf, endpoint1, addresses, msg, hid, reset>>

\* A reply of len bytes, limited to what the host asked for; the comparison
\* looks at the low byte of the length when the high byte is zero.
Limited(len, req) ==
    IF req.length < 256 /\ len > req.length THEN req.length ELSE len

Reply(len, req) ==
    msg' = [len |-> Limited(len, req), req |-> req, off |-> 0, user |-> FALSE]

Serves(kinds) ==
    /\ pc = "request" /\ rx.req.kind \in kinds
    /\ pc' = "release"
    /\ UNCHANGED <<ret, toWrite, offered, rx, endpoint0, tx1Len, tx1Data,
                   usbDeviceAddr, reset>>

\* usbDriverSetup.
SetAddress ==
    /\ Serves({"SET_ADDRESS"})
    /\ usbNewDeviceAddr' = rx.req.value
    /\ Reply(0, rx.req)
    /\ UNCHANGED <<tx1Pid, hid>>

\* The data toggle of endpoint 1 starts again, in whatever usbTxBuf1 holds.
SetInterface ==
    /\ Serves({"SET_INTERFACE"})
    /\ tx1Pid' = "DATA1"
    /\ Reply(0, rx.req)
    /\ UNCHANGED <<usbNewDeviceAddr, hid>>

\* Requests the driver acknowledges without effect: usbConfiguration is only
\* kept to be reported.
Acknowledge ==
    /\ Serves({"SET_CONFIGURATION", "CLEAR_FEATURE"})
    /\ Reply(0, rx.req)
    /\ UNCHANGED <<usbNewDeviceAddr, tx1Pid, hid>>

\* usbDriverDescriptor: a descriptor the device does not have is empty.
GetDescriptor ==
    /\ Serves({"GET_DESCRIPTOR"})
    /\ Reply(IF rx.req.value \in DOMAIN DescriptorLength
             THEN DescriptorLength[rx.req.value] ELSE 0, rx.req)
    /\ UNCHANGED <<usbNewDeviceAddr, tx1Pid, hid>>

StatusLength == [GET_STATUS |-> 2, GET_CONFIGURATION |-> 1, GET_INTERFACE |-> 1]

GetStatus ==
    /\ Serves(DOMAIN StatusLength)
    /\ Reply(StatusLength[rx.req.kind], rx.req)
    /\ UNCHANGED <<usbNewDeviceAddr, tx1Pid, hid>>

\* Requests of the HID class go to the application, which answers those about
\* a report with USB_NO_MSG: its callbacks carry the data.  The length of a
\* control-in transfer is then the low byte of the one the host gave.
ClassRequest ==
    /\ Serves({"HID_GET_REPORT", "HID_SET_REPORT", "HID_SET_IDLE"})
    /\ hid' = FunctionSetup(hid, rx.req)
    /\ IF FunctionSetupReturns(rx.req) # USB_NO_MSG
       THEN Reply(FunctionSetupReturns(rx.req), rx.req)
       ELSE msg' = [len |-> IF rx.req.kind = "HID_GET_REPORT"
                            THEN rx.req.length % 256 ELSE USB_NO_MSG,
                    req |-> rx.req, off |-> 0, user |-> TRUE]
    /\ UNCHANGED <<usbNewDeviceAddr, tx1Pid>>

\* A data packet of a control-out transfer: the callback that returns 1 ends
\* it, and the host gets an empty packet.
ReportData ==
    /\ pc = "data" /\ pc' = "release"
    /\ IF msg.user
       THEN /\ hid' = FunctionWrite(hid, rx.data)
            /\ msg' = IF FunctionWriteReturns(hid, rx.data)
                      THEN [msg EXCEPT !.len = 0] ELSE msg
       ELSE UNCHANGED <<hid, msg>>
    /\ UNCHANGED <<ret, toWrite, offered, rx, endpoint0, endpoint1, addresses, reset>>

\* The packet has been processed: the handler may receive the next.
Release ==
    /\ pc = "release" /\ pc' = "transmit"
    /\ rx' = Free
    /\ UNCHANGED <<ret, toWrite, offered, endpoint0, endpoint1, addresses, msg, hid, reset>>

-----------------------------------------------------------------------------
(* usbPoll: the next packet of a reply, and a reset of the bus.            *)

\* Slip: the reply goes on although the packet before has not been sent.
PollTransmitHasty ==
    /\ pc = "transmit"
    /\ pc' = IF msg.len # USB_NO_MSG THEN "fill" ELSE "sense"
    /\ UNCHANGED <<ret, toWrite, offered, rx, endpoint0, endpoint1, addresses, msg, hid,
                   reset>>

PollTransmit ==
    /\ pc = "transmit"
    /\ pc' = IF Idle(txLen) /\ msg.len # USB_NO_MSG THEN "fill" ELSE "sense"
    /\ UNCHANGED <<ret, toWrite, offered, rx, endpoint0, endpoint1, addresses, msg, hid,
                   reset>>

\* usbDeviceRead: the bytes that a packet gets of the want it has room for.
DeviceRead(want) == IF want > 0 /\ msg.user THEN FunctionRead ELSE want

\* Slip: a packet always takes a full packet from the reply.
FillReplyFully ==
    LET len == DeviceRead(PacketSize)
    IN /\ pc = "fill" /\ pc' = "arm"
       /\ txBuf' = [pid |-> Toggled(txBuf.pid), req |-> msg.req, off |-> msg.off, len |-> len]
       /\ msg' = IF len < PacketSize
                 THEN [len |-> USB_NO_MSG, req |-> NoRequest, off |-> 0, user |-> msg.user]
                 ELSE [msg EXCEPT !.len = @ - len, !.off = @ + len]
       /\ UNCHANGED <<ret, toWrite, offered, rx, txLen, endpoint1, addresses, hid, reset>>

\* usbBuildTxBlock up to its last line: a packet that is not full is the last.
FillReply ==
    LET want == Min({msg.len, PacketSize})
        len == DeviceRead(want)
    IN /\ pc = "fill" /\ pc' = "arm"
       /\ txBuf' = [pid |-> Toggled(txBuf.pid), req |-> msg.req, off |-> msg.off, len |-> len]
       /\ msg' = IF len < PacketSize
                 THEN [len |-> USB_NO_MSG, req |-> NoRequest, off |-> 0, user |-> msg.user]
                 ELSE [msg EXCEPT !.len = @ - want, !.off = @ + len]
       /\ UNCHANGED <<ret, toWrite, offered, rx, txLen, endpoint1, addresses, hid, reset>>

ArmReply ==
    /\ pc = "arm" /\ pc' = "sense"
    /\ txLen' = "DATA"
    /\ UNCHANGED <<ret, toWrite, offered, rx, txBuf, endpoint1, addresses, msg, hid, reset>>

Sense ==
    /\ pc = "sense"
    /\ pc' = IF reset # "none" THEN "forget" ELSE ret
    /\ UNCHANGED <<ret, toWrite, offered, rx, endpoint0, endpoint1, addresses, msg, hid,
                   reset>>

ForgetNewAddress ==
    /\ pc = "forget" /\ pc' = "forgetOld"
    /\ usbNewDeviceAddr' = 0
    /\ UNCHANGED <<ret, toWrite, offered, rx, endpoint0, endpoint1, usbDeviceAddr, msg,
                   hid, reset>>

ForgetAddress ==
    /\ pc = "forgetOld" /\ pc' = ret
    /\ usbDeviceAddr' = 0
    /\ reset' = IF reset = "polled" THEN "noticed" ELSE reset
    /\ UNCHANGED <<ret, toWrite, offered, rx, endpoint0, endpoint1, usbNewDeviceAddr, msg,
                   hid>>

-----------------------------------------------------------------------------
(* The sketch and HIDSerial::write.                                        *)

\* loop() takes a report, the bytes Readable(hid), for TransmitFrame, and polls.
LoopStart ==
    /\ pc = "loop" /\ pc' = "poll" /\ ret' = "run"
    /\ hid' = IF hid.received THEN Read(hid) ELSE hid
    /\ UNCHANGED <<toWrite, offered, rx, endpoint0, endpoint1, addresses, msg, reset>>

\* write(): a frame of n bytes is sent in pieces, after the full ones one more
\* that may be empty.
Pieces(n) == n \div PacketSize + 1

\* device.Run() without and with a CEC frame for User_OnReceive.
RunQuiet ==
    /\ pc = "run" /\ pc' = "loop"
    /\ UNCHANGED <<ret, toWrite, offered, rx, endpoint0, endpoint1, addresses, msg, hid,
                   reset>>

RunReceives ==
    /\ pc = "run" /\ pc' = "write"
    /\ \E n \in FrameSizes : toWrite' = Pieces(n)
    /\ UNCHANGED <<ret, offered, rx, endpoint0, endpoint1, addresses, msg, hid, reset>>

InterruptIsReady == Idle(tx1Len)

\* Slip: write8 waits for the endpoint without polling.
WaitIdly ==
    /\ pc = "write"
    /\ pc' = IF InterruptIsReady THEN "toggle" ELSE "write"
    /\ UNCHANGED <<ret, toWrite, offered, rx, endpoint0, endpoint1, addresses, msg, hid,
                   reset>>

\* write8: usbInterruptIsReady, or poll and look again.
Wait ==
    /\ pc = "write"
    /\ IF InterruptIsReady THEN pc' = "toggle" /\ UNCHANGED ret
                       ELSE pc' = "poll" /\ ret' = "write"
    /\ UNCHANGED <<toWrite, offered, rx, endpoint0, endpoint1, addresses, msg, hid, reset>>

\* usbGenericSetInterrupt toggles the token of an empty buffer, and withdraws
\* the packet of a full one before it overwrites it.
ToggleInterrupt ==
    /\ pc = "toggle" /\ pc' = "copy"
    /\ IF InterruptIsReady THEN tx1Pid' = Toggled(tx1Pid) /\ UNCHANGED tx1Len
                       ELSE tx1Len' = "NAK" /\ UNCHANGED tx1Pid
    /\ UNCHANGED <<ret, toWrite, offered, rx, endpoint0, tx1Data, addresses, msg, hid, reset>>

NextChunk == (offered + 1) % Chunks

\* Slip: the length is stored before the data is copied.
CopyTooLate ==
    /\ pc = "copy" /\ pc' = "offer"
    /\ tx1Len' = "DATA" /\ tx1Data' = tx1Data
    /\ UNCHANGED <<ret, toWrite, offered, rx, endpoint0, tx1Pid, addresses, msg, hid, reset>>

CopyInterrupt ==
    /\ pc = "copy" /\ pc' = "offer"
    /\ tx1Data' = NextChunk
    /\ UNCHANGED <<ret, toWrite, offered, rx, endpoint0, tx1Len, tx1Pid, addresses, msg, hid, reset>>

OfferInterrupt ==
    /\ pc = "offer"
    /\ tx1Len' = "DATA" /\ offered' = NextChunk
    /\ toWrite' = toWrite - 1
    /\ pc' = IF toWrite = 1 THEN "loop" ELSE "write"
    /\ UNCHANGED <<ret, rx, endpoint0, tx1Pid, tx1Data, addresses, msg, hid, reset>>

Poll ==
    \/ PollReceived \/ RestartToggle \/ CancelReply
    \/ SetAddress \/ SetInterface \/ Acknowledge \/ GetDescriptor \/ GetStatus
    \/ ClassRequest \/ ReportData \/ Release
    \/ PollTransmit \/ FillReply \/ ArmReply
    \/ Sense \/ ForgetNewAddress \/ ForgetAddress

Program ==
    \/ LoopStart \/ Poll \/ RunQuiet \/ RunReceives
    \/ Wait \/ ToggleInterrupt \/ CopyInterrupt \/ OfferInterrupt
=============================================================================
