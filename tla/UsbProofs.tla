------------------------------ MODULE UsbProofs ------------------------------
(***************************************************************************)
(* Theorems about the USB driver and its host, for every packet size,      *)
(* every set of requests, of descriptors and of frames.                    *)
(***************************************************************************)
EXTENDS UsbHost, TLAPS

\* The groups of variables that actions leave alone.
USE DEF programVars, endpoint0, endpoint1, addresses

-----------------------------------------------------------------------------
(* Frames: what the main program and the host may change at all.           *)

\* The main program only ever frees the receive buffer, at the end of the
\* packet it has processed, and neither begins nor ends a reset of the bus.
LEMMA ProgramReceives ==
    ASSUME Program
    PROVE  /\ rx' = rx \/ (pc = "release" /\ rx' = Free)
           /\ reset' = "none" <=> reset = "none"
<1>1. CASE LoopStart
  BY <1>1 DEF LoopStart
<1>2. CASE PollReceived
  BY <1>2 DEF PollReceived
<1>3. CASE RestartToggle \/ CancelReply
  BY <1>3 DEF RestartToggle, CancelReply
<1>4. CASE SetAddress \/ SetInterface \/ Acknowledge \/ GetDescriptor \/ GetStatus
             \/ ClassRequest
  BY <1>4 DEF SetAddress, SetInterface, Acknowledge, GetDescriptor, GetStatus, ClassRequest,
              Serves
<1>5. CASE ReportData \/ Release
  BY <1>5 DEF ReportData, Release
<1>6. CASE PollTransmit \/ FillReply \/ ArmReply
  BY <1>6 DEF PollTransmit, FillReply, ArmReply
<1>7. CASE Sense \/ ForgetNewAddress \/ ForgetAddress
  BY <1>7 DEF Sense, ForgetNewAddress, ForgetAddress
<1>8. CASE RunQuiet \/ RunReceives
  BY <1>8 DEF RunQuiet, RunReceives
<1>9. CASE Wait \/ ToggleInterrupt \/ CopyInterrupt \/ OfferInterrupt
  BY <1>9 DEF Wait, ToggleInterrupt, CopyInterrupt, OfferInterrupt
<1> QED
  BY <1>1, <1>2, <1>3, <1>4, <1>5, <1>6, <1>7, <1>8, <1>9 DEF Program, Poll

HostStep ==
    \/ Begin \/ ControlTransfer \/ PollInterrupt \/ Refused
    \/ GiveUp \/ ResetBus \/ EndReset

\* The host never runs the main program, never fills a transmit buffer and
\* stores a packet only in a receive buffer that is free.
LEMMA HostReceives ==
    ASSUME HostStep
    PROVE  /\ UNCHANGED <<pc, ret, toWrite, offered, tx1Pid, tx1Data, msg, hid>>
           /\ txLen' = txLen \/ txLen' = "NAK"
           /\ tx1Len' = tx1Len \/ tx1Len' = "NAK"
           /\ rx' = rx \/ (~Busy /\ Busy')
<1> USE DEF Busy, Free, driverVars
<1>1. CASE Begin
  BY <1>1 DEF Begin
<1>2. CASE SendSetup
  BY <1>2 DEF SendSetup, Accept
<1>3. CASE SendData
  BY <1>3 DEF SendData, Accept
<1>4. CASE ReadData \/ ReadStatus
  BY <1>4 DEF ReadData, ReadStatus, SendReply
<1>5. CASE SendStatus
  BY <1>5 DEF SendStatus, AcceptEmpty
<1>6. CASE PollInterrupt
  BY <1>6 DEF PollInterrupt, SendInterrupt
<1>7. CASE Refused
  BY <1>7 DEF Refused, Refuse
<1>8. CASE GiveUp \/ ResetBus \/ EndReset
  BY <1>8 DEF GiveUp, ResetBus, EndReset
<1> QED
  BY <1>1, <1>2, <1>3, <1>4, <1>5, <1>6, <1>7, <1>8 DEF HostStep, ControlTransfer

LEMMA Steps ==
    ASSUME [Next]_vars
    PROVE  (Program /\ UNCHANGED hostVars) \/ HostStep \/ UNCHANGED vars
  BY DEF Next, HostStep

-----------------------------------------------------------------------------
(* A packet that waits is kept, and buffers have one owner at a time.      *)

\* A packet that has been acknowledged stays until usbPoll has processed it.
THEOREM PacketStays == Spec => PacketIsKept
<1>1. ASSUME [Next]_vars
      PROVE  [Busy => rx' = rx \/ (pc = "release" /\ rx' = Free)]_vars
  BY <1>1, Steps, ProgramReceives, HostReceives DEF vars, driverVars
<1> QED
  BY <1>1, PTL DEF Spec, PacketIsKept

\* usbPoll returns to loop() or to write().
OwnedInv == ret \in {"run", "write"} /\ BuffersAreOwned

LEMMA OwnedByProgram ==
    ASSUME OwnedInv, Program
    PROVE  OwnedInv'
<1> USE DEF OwnedInv, BuffersAreOwned, Idle, Busy, Processing
<1>1. CASE LoopStart
  BY <1>1 DEF LoopStart
<1>2. CASE PollReceived
  BY <1>2 DEF PollReceived
<1>3. CASE RestartToggle \/ CancelReply
  BY <1>3 DEF RestartToggle, CancelReply
<1>4. CASE SetAddress \/ SetInterface \/ Acknowledge \/ GetDescriptor \/ GetStatus
             \/ ClassRequest
  BY <1>4 DEF SetAddress, SetInterface, Acknowledge, GetDescriptor, GetStatus, ClassRequest,
              Serves
<1>5. CASE ReportData \/ Release
  BY <1>5 DEF ReportData, Release
<1>6. CASE PollTransmit \/ FillReply \/ ArmReply
  BY <1>6 DEF PollTransmit, FillReply, ArmReply
<1>7. CASE Sense \/ ForgetNewAddress \/ ForgetAddress
  BY <1>7 DEF Sense, ForgetNewAddress, ForgetAddress
<1>8. CASE RunQuiet \/ RunReceives
  BY <1>8 DEF RunQuiet, RunReceives
<1>9. CASE Wait \/ ToggleInterrupt \/ CopyInterrupt \/ OfferInterrupt
  BY <1>9 DEF Wait, ToggleInterrupt, CopyInterrupt, OfferInterrupt, InterruptIsReady
<1> QED
  BY <1>1, <1>2, <1>3, <1>4, <1>5, <1>6, <1>7, <1>8, <1>9 DEF Program, Poll

\* The main program fills a transmit buffer only while the handler would not
\* send it, and reads a received packet only while the handler keeps it.
THEOREM BuffersHaveOneOwner == Spec => []BuffersAreOwned
<1>1. Init => OwnedInv
  BY DEF Init, Setup, Variables, UsbInit, OwnedInv, BuffersAreOwned, Processing
<1>2. OwnedInv /\ [Next]_vars => OwnedInv'
  <2> SUFFICES ASSUME OwnedInv, [Next]_vars PROVE OwnedInv'
    OBVIOUS
  <2>1. CASE Program
    BY <2>1, OwnedByProgram
  <2>2. CASE HostStep
    BY <2>2, HostReceives DEF OwnedInv, BuffersAreOwned, Idle, Busy, Processing
  <2>3. CASE UNCHANGED vars
    BY <2>3 DEF vars, driverVars, OwnedInv, BuffersAreOwned, Idle, Busy, Processing
  <2> QED
    BY <2>1, <2>2, <2>3, Steps
<1> QED
  BY <1>1, <1>2, PTL DEF Spec, OwnedInv

-----------------------------------------------------------------------------
(* A SETUP is never refused.                                               *)

\* The host is a record: an update of a field is a field of the result.
IsHost(h) ==
    h = [stage |-> h.stage, req |-> h.req, off |-> h.off, toggle |-> h.toggle,
         addr |-> h.addr, configured |-> h.configured]

\* Between two transfers the receive buffer is free: each transfer ends with a
\* transaction that a device with a full buffer would have refused.
SetupInv ==
    /\ IsHost(host)
    /\ host.stage \in {"idle", "setup", "off"} => ~Busy
    /\ reset # "none" => host.stage = "off"

LEMMA SetupInvByHost ==
    ASSUME ~HostGivesUp, SetupInv, HostStep
    PROVE  SetupInv'
<1> USE DEF SetupInv, IsHost, Busy, Free, Ended, driverVars
<1>1. CASE Begin
  BY <1>1 DEF Begin
<1>2. CASE SendSetup
  BY <1>2 DEF SendSetup, Accept
<1>3. CASE SendData
  BY <1>3 DEF SendData, Accept
<1>4. CASE ReadData
  BY <1>4 DEF ReadData, SendReply
<1>5. CASE ReadStatus
  BY <1>5 DEF ReadStatus, SendReply
<1>6. CASE SendStatus
  BY <1>6 DEF SendStatus, AcceptEmpty
<1>7. CASE PollInterrupt
  BY <1>7 DEF PollInterrupt, SendInterrupt
<1>8. CASE Refused
  BY <1>8 DEF Refused, Refuse, hostVars
<1>9. CASE EndReset
  BY <1>9 DEF EndReset
<1> QED
  BY <1>1, <1>2, <1>3, <1>4, <1>5, <1>6, <1>7, <1>8, <1>9
  DEF HostStep, ControlTransfer, GiveUp, ResetBus

\* A device whose host does not give up transfers accepts every SETUP.
THEOREM EverySetupIsAccepted ==
    ASSUME ~HostGivesUp
    PROVE  Spec => []SetupIsAccepted
<1>1. Init => SetupInv
  BY DEF Init, Setup, Variables, SetupInv, IsHost, Busy
<1>2. SetupInv /\ [Next]_vars => SetupInv'
  <2> SUFFICES ASSUME SetupInv, [Next]_vars PROVE SetupInv'
    OBVIOUS
  <2>1. CASE Program /\ UNCHANGED hostVars
    BY <2>1, ProgramReceives DEF SetupInv, IsHost, Busy, hostVars
  <2>2. CASE HostStep
    BY <2>2, SetupInvByHost
  <2>3. CASE UNCHANGED vars
    BY <2>3 DEF vars, driverVars, hostVars, SetupInv, IsHost, Busy
  <2> QED
    BY <2>1, <2>2, <2>3, Steps
<1>3. SetupInv => SetupIsAccepted
  BY DEF SetupInv, SetupIsAccepted
<1> QED
  BY <1>1, <1>2, <1>3, PTL DEF Spec

-----------------------------------------------------------------------------
(* The interrupt endpoint implements the pipe, as long as nothing starts   *)
(* the toggles of the two sides again: no SET_INTERFACE, no bus reset.     *)

Chunk == 0..(Chunks - 1)
Toggles == {"DATA0", "DATA1"}

LEMMA ChunkSuccessor == \A c \in Chunk : (c + 1) % Chunks \in Chunk
  BY ChunksAssumption DEF Chunk

\* What waits in usbTxBuf1 is the piece after the last one that the host has
\* taken, with the token it expects; when nothing waits it has taken them all
\* and expects the token that the next piece will get.
InStep ==
    /\ tx1Len \in {"NAK", "DATA"}
    /\ tx1Len = "NAK" =>
          /\ offered = hostLast
          /\ pc \in {"copy", "offer"} => tx1Pid = hostToggle1
          /\ pc \notin {"copy", "offer"} => tx1Pid # hostToggle1
    /\ tx1Len = "DATA" =>
          /\ tx1Data = offered /\ offered = (hostLast + 1) % Chunks
          /\ tx1Pid = hostToggle1
    /\ pc \in {"toggle", "copy", "offer"} => tx1Len = "NAK"
    /\ pc = "offer" => tx1Data = NextChunk

\* Nothing starts the toggles again: the device is configured once, before it
\* has sent anything.
NoRestart ==
    /\ IsHost(host)
    /\ host.req.kind # "SET_INTERFACE"
    /\ host.req.kind = "SET_CONFIGURATION" => ~host.configured
    /\ ~host.configured => hostToggle1 = "DATA0"
    /\ rx.token = "SETUP" => rx.req.kind # "SET_INTERFACE"
    /\ pc \in {"restart", "cancel", "request"} => rx.token = "SETUP"

PipeInv ==
    /\ ret \in {"run", "write"}
    /\ tx1Pid \in Toggles /\ hostToggle1 \in Toggles
    /\ offered \in Chunk /\ hostLast \in Chunk
    /\ InStep /\ NoRestart

LEMMA PipeInvByProgram ==
    ASSUME PipeInv, Program, UNCHANGED hostVars
    PROVE  PipeInv'
<1> USE DEF PipeInv, InStep, NoRestart, IsHost, hostVars, NextChunk, Toggles
<1>1. CASE LoopStart
  BY <1>1 DEF LoopStart
<1>2. CASE PollReceived
  BY <1>2 DEF PollReceived, Busy, Free
<1>3. CASE RestartToggle \/ CancelReply
  BY <1>3 DEF RestartToggle, CancelReply
<1>4. CASE SetAddress \/ Acknowledge \/ GetDescriptor \/ GetStatus \/ ClassRequest
  BY <1>4 DEF SetAddress, Acknowledge, GetDescriptor, GetStatus, ClassRequest, Serves
<1>5. CASE SetInterface
  BY <1>5 DEF SetInterface, Serves
<1>6. CASE ReportData
  BY <1>6 DEF ReportData
<1>7. CASE Release
  BY <1>7 DEF Release, Free
<1>8. CASE PollTransmit \/ FillReply \/ ArmReply
  BY <1>8 DEF PollTransmit, FillReply, ArmReply
<1>9. CASE Sense \/ ForgetNewAddress \/ ForgetAddress
  BY <1>9 DEF Sense, ForgetNewAddress, ForgetAddress
<1>10. CASE RunQuiet \/ RunReceives
  BY <1>10 DEF RunQuiet, RunReceives
<1>11. CASE Wait
  BY <1>11 DEF Wait, InterruptIsReady, Idle
<1>12. CASE ToggleInterrupt
  BY <1>12 DEF ToggleInterrupt, InterruptIsReady, Idle, Toggled
<1>13. CASE CopyInterrupt
  BY <1>13 DEF CopyInterrupt
<1>14. CASE OfferInterrupt
  BY <1>14, ChunkSuccessor DEF OfferInterrupt
<1> QED
  BY <1>1, <1>2, <1>3, <1>4, <1>5, <1>6, <1>7, <1>8, <1>9, <1>10, <1>11, <1>12, <1>13, <1>14
  DEF Program, Poll

LEMMA PipeInvByHost ==
    ASSUME ~HostGivesUp, \A req \in Requests : req.kind # "SET_INTERFACE",
           PipeInv, HostStep
    PROVE  PipeInv'
<1> USE DEF PipeInv, InStep, NoRestart, IsHost, Ended, driverVars, NextChunk, Toggles
<1>1. CASE Begin
  BY <1>1 DEF Begin, Legal
<1>2. CASE SendSetup
  BY <1>2 DEF SendSetup, Accept, Busy, Free
<1>3. CASE SendData
  <2>1. /\ rx = Free /\ rx'.token = "OUT"
        /\ host'.req = host.req /\ host'.configured = host.configured /\ IsHost(host')
        /\ UNCHANGED <<programVars, endpoint1, hostToggle1, hostLast>>
    BY <1>3 DEF SendData, Accept, Busy
  <2> QED
    BY <2>1 DEF Free
<1>4. CASE ReadData
  BY <1>4 DEF ReadData, SendReply
<1>5. CASE ReadStatus
  BY <1>5 DEF ReadStatus, SendReply, NoRequest
<1>6. CASE SendStatus
  BY <1>6 DEF SendStatus, AcceptEmpty, NoRequest
<1>7. CASE PollInterrupt
  BY <1>7, ChunkSuccessor DEF PollInterrupt, SendInterrupt, Toggled
<1>8. CASE Refused
  BY <1>8 DEF Refused, Refuse, hostVars
<1>9. CASE EndReset
  BY <1>9 DEF EndReset
<1> QED
  BY <1>1, <1>2, <1>3, <1>4, <1>5, <1>6, <1>7, <1>8, <1>9
  DEF HostStep, ControlTransfer, GiveUp, ResetBus

\* Without SET_INTERFACE and bus resets, the pieces of the CEC frames reach the
\* host one by one, in order, none twice and none lost: every step of the
\* driver and its host is a Write, a Take or nothing to the pipe.
THEOREM PipeHolds ==
    ASSUME ~HostGivesUp, \A req \in Requests : req.kind # "SET_INTERFACE"
    PROVE  Spec => PipeIsImplemented
<1> USE DEF vars, driverVars, hostVars
<1>1. Init => PipeInv /\ Pipe!Init
  BY ChunksAssumption
  DEF Init, Setup, Variables, UsbInit, PipeInv, InStep, NoRestart, IsHost, Toggles, Chunk,
      Free, NoRequest, Pipe!Init
<1>2. PipeInv /\ [Next]_vars => PipeInv'
  <2> SUFFICES ASSUME PipeInv, [Next]_vars PROVE PipeInv'
    OBVIOUS
  <2>1. CASE Program /\ UNCHANGED hostVars
    BY <2>1, PipeInvByProgram
  <2>2. CASE HostStep
    BY <2>2, PipeInvByHost
  <2>3. CASE UNCHANGED vars
    BY <2>3 DEF PipeInv, InStep, NoRestart, IsHost, NextChunk
  <2> QED
    BY <2>1, <2>2, <2>3, Steps
<1>3. PipeInv /\ [Next]_vars => [Pipe!Next]_<<offered, hostLast>>
  <2> SUFFICES ASSUME PipeInv, [Next]_vars PROVE [Pipe!Next]_<<offered, hostLast>>
    OBVIOUS
  <2>1. CASE OfferInterrupt /\ UNCHANGED hostVars
    BY <2>1 DEF OfferInterrupt, PipeInv, InStep, NextChunk, Pipe!Next, Pipe!Write
  <2>2. CASE PollInterrupt
    BY <2>2 DEF PollInterrupt, SendInterrupt, PipeInv, InStep, Pipe!Next, Pipe!Take
  <2>3. CASE ~OfferInterrupt /\ Program /\ UNCHANGED hostVars
    BY <2>3
    DEF Program, Poll, LoopStart, PollReceived, RestartToggle, CancelReply, SetAddress,
        SetInterface, Acknowledge, GetDescriptor, GetStatus, ClassRequest, Serves, ReportData,
        Release, PollTransmit, FillReply, ArmReply, Sense, ForgetNewAddress, ForgetAddress,
        RunQuiet, RunReceives, Wait, ToggleInterrupt, CopyInterrupt
  <2>4. CASE ~PollInterrupt /\ HostStep
    BY <2>4
    DEF HostStep, ControlTransfer, Begin, SendSetup, SendData, Accept, ReadData, ReadStatus,
        SendReply, SendStatus, AcceptEmpty, Refused, Refuse, GiveUp, ResetBus, EndReset
  <2>5. CASE UNCHANGED vars
    BY <2>5
  <2> QED
    BY <2>1, <2>2, <2>3, <2>4, <2>5, Steps
<1> QED
  BY <1>1, <1>2, <1>3, PTL DEF Spec, PipeIsImplemented, Pipe!Spec
-----------------------------------------------------------------------------
(* What goes out on endpoint 0 answers the request in progress, also after *)
(* transfers that were given up and resets of the bus.                     *)

IsMessage(m) == m = [len |-> m.len, req |-> m.req, off |-> m.off, user |-> m.user]
IsPacket(p) == p = [pid |-> p.pid, req |-> p.req, off |-> p.off, len |-> p.len]

\* The stages in which the host waits for the device.
Active == host.stage \in {"dataOut", "dataIn", "statusIn"}

\* The SETUP of the transfer has been processed.
Served == rx.token # "SETUP" \/ pc = "release"

\* The host is in the stage its request calls for.
StageFits ==
    /\ reset # "none" => host.stage = "off"
    /\ host.stage = "dataIn" => ControlIn(host.req)
    /\ host.stage \in {"dataOut", "statusIn"} => ~ControlIn(host.req)
    /\ host.stage \in {"idle", "setup", "off"} => host.toggle = "DATA1" /\ host.off = 0
    /\ host.stage \notin {"idle", "off"} => host.req \in Requests
    /\ host.stage = "dataIn" => rx = Free \/ rx.token = "SETUP"

\* A SETUP that waits is that of the transfer, which has got nowhere.
SetupWaits ==
    Active /\ rx.token = "SETUP" =>
        rx.req = host.req /\ host.toggle = "DATA1" /\ host.off = 0

\* Where the main program is tells what it has done to a SETUP.
Progress ==
    /\ pc \in {"restart", "cancel", "request"} => rx.token = "SETUP"
    /\ pc = "data" => rx.token # "SETUP"
    /\ pc \in {"cancel", "request"} => txBuf.pid = "DATA0"
    /\ pc = "request" => Idle(txLen)
    /\ pc = "release" /\ rx.token = "SETUP" => Idle(txLen)
    /\ pc = "fill" => msg.len # USB_NO_MSG
    /\ pc \in {"fill", "arm"} => Idle(txLen)
    /\ pc \in Processing => Busy

\* The next packet of the reply, not yet in the buffer.
NextIsFresh ==
    /\ txBuf.pid = Toggled(host.toggle)
    /\ host.stage = "dataIn" /\ msg.len # USB_NO_MSG =>
          msg.req = host.req /\ msg.off = host.off
    /\ host.stage \in {"dataOut", "statusIn"} =>
          msg.req = host.req /\ msg.len \in {0, USB_NO_MSG}

\* A packet in the buffer, sent or about to be.
PacketIsFresh ==
    /\ txBuf.req = host.req /\ txBuf.pid = host.toggle
    /\ host.stage = "dataIn" =>
          /\ txBuf.off = host.off
          /\ msg.len # USB_NO_MSG => msg.req = host.req /\ msg.off = txBuf.off + txBuf.len
    /\ host.stage \in {"dataOut", "statusIn"} => txBuf.len = 0

ReplyTypes ==
    /\ ret \in {"run", "write"}
    /\ IsHost(host) /\ IsMessage(msg) /\ IsPacket(txBuf)
    /\ host.toggle \in Toggles /\ txLen \in {"NAK", "DATA"}
    /\ host.off \in Nat /\ txBuf.off \in Nat /\ txBuf.len \in Nat
    /\ msg.off \in Nat /\ msg.len \in Nat
    /\ host.req \in Requests \cup {NoRequest}
    /\ rx.token = "SETUP" => rx.req \in Requests

NextInv == Active /\ Served /\ Idle(txLen) /\ pc # "arm" => NextIsFresh

PacketInv == Active /\ Served /\ (~Idle(txLen) \/ pc = "arm") => PacketIsFresh

ReplyInv ==
    ReplyTypes /\ StageFits /\ SetupWaits /\ Progress /\ NextInv /\ PacketInv

-----------------------------------------------------------------------------
LEMMA MinOfTwo == \A a, b \in Nat : Min({a, b}) = IF a <= b THEN a ELSE b
  BY DEF Min

LEMMA MinWithLength ==
    ASSUME NEW n \in Nat
    PROVE  /\ Min({n, PacketSize}) \in Nat
           /\ Min({n, PacketSize}) <= n
           /\ n = 0 => Min({n, PacketSize}) = 0
  BY MinOfTwo, PacketAssumption

\* A step that only moves the main program, and not to or from one of the
\* places that the invariant names.
LEMMA Elsewhere ==
    ASSUME ReplyInv, UNCHANGED <<rx, endpoint0, msg, hostVars>>,
           ret' \in {"run", "write"}, reset' = "none" <=> reset = "none",
           pc \notin {"arm", "release"}, pc' \notin {"fill", "arm"} \cup Processing
    PROVE  ReplyInv'
<1> USE DEF ReplyInv, hostVars
<1>1. ReplyTypes'
  BY DEF ReplyTypes, IsHost, IsMessage, IsPacket
<1>2. StageFits' /\ SetupWaits'
  BY DEF StageFits, SetupWaits, Active
<1>3. Progress'
  BY DEF Progress, Processing
<1>4. NextInv' /\ PacketInv'
  BY DEF NextInv, PacketInv, NextIsFresh, PacketIsFresh, Active, Served, Idle, Processing
<1> QED
  BY <1>1, <1>2, <1>3, <1>4

LEMMA ReplyInvByProgram ==
    ASSUME ReplyInv, Program, UNCHANGED hostVars
    PROVE  ReplyInv'
<1> USE DEF Processing
<1>0. ret \in {"run", "write"}
  BY DEF ReplyInv, ReplyTypes
<1>1. CASE LoopStart
  BY <1>0, <1>1, Elsewhere, ProgramReceives DEF LoopStart
<1>2. CASE Sense
  BY <1>0, <1>2, Elsewhere, ProgramReceives DEF Sense, ReplyInv, Progress
<1>3. CASE ForgetNewAddress
  BY <1>0, <1>3, Elsewhere, ProgramReceives DEF ForgetNewAddress
<1>4. CASE ForgetAddress
  BY <1>0, <1>4, Elsewhere, ProgramReceives DEF ForgetAddress
<1>5. CASE RunQuiet \/ RunReceives
  BY <1>0, <1>5, Elsewhere, ProgramReceives DEF RunQuiet, RunReceives
<1>6. CASE Wait \/ ToggleInterrupt \/ CopyInterrupt \/ OfferInterrupt
  BY <1>0, <1>6, Elsewhere, ProgramReceives DEF Wait, ToggleInterrupt, CopyInterrupt, OfferInterrupt
<1> USE DEF ReplyInv, ReplyTypes, StageFits, SetupWaits, Progress, NextInv, PacketInv,
            NextIsFresh, PacketIsFresh, Active, Served, Idle, IsMessage, IsPacket, IsHost, Busy,
            hostVars
<1>7. CASE PollReceived
  BY <1>7, ProgramReceives DEF PollReceived, Free
<1>8. CASE RestartToggle
  BY <1>8 DEF RestartToggle
<1>9. CASE CancelReply
  BY <1>9 DEF CancelReply
<1>10. CASE SetAddress
  BY <1>10, RequestsAssumption
  DEF SetAddress, Serves, Reply, Limited, USB_NO_MSG, ControlIn, Toggled
<1>11. CASE SetInterface
  BY <1>11, RequestsAssumption
  DEF SetInterface, Serves, Reply, Limited, USB_NO_MSG, ControlIn, Toggled
<1>12. CASE Acknowledge
  BY <1>12, RequestsAssumption
  DEF Acknowledge, Serves, Reply, Limited, USB_NO_MSG, ControlIn, Toggled
<1>13. CASE GetDescriptor
  <2>1. PICK n \in Nat : Reply(n, rx.req)
    BY <1>13, DescriptorAssumption DEF GetDescriptor, USB_NO_MSG
  <2>2. /\ pc = "request" /\ pc' = "release" /\ UNCHANGED <<ret, rx, endpoint0, reset>>
        /\ rx.req.kind = "GET_DESCRIPTOR"
    BY <1>13 DEF GetDescriptor, Serves
  <2>3. /\ IsMessage(msg') /\ msg'.len \in Nat /\ msg'.off = 0 /\ msg'.req = rx.req
    BY <2>1, <2>2, RequestsAssumption DEF Reply, Limited
  <2> QED
    BY <2>2, <2>3 DEF ControlIn, Toggled
<1>14. CASE GetStatus
  BY <1>14, RequestsAssumption
  DEF GetStatus, Serves, Reply, Limited, USB_NO_MSG, ControlIn, Toggled, StatusLength
<1>15. CASE ClassRequest
  BY <1>15, RequestsAssumption
  DEF ClassRequest, Serves, Reply, Limited, USB_NO_MSG, ControlIn, Toggled,
      FunctionSetupReturns
<1>16. CASE ReportData
  <2>1. /\ pc = "data" /\ pc' = "release"
        /\ UNCHANGED <<ret, rx, endpoint0, reset>>
        /\ msg' = msg \/ msg' = [msg EXCEPT !.len = 0]
    BY <1>16 DEF ReportData
  <2>2. CASE msg' = msg
    BY <2>1, <2>2
  <2>3. CASE msg' = [msg EXCEPT !.len = 0]
    <3>1. /\ IsMessage(msg') /\ msg'.len = 0 /\ msg'.req = msg.req /\ msg'.off = msg.off
      BY <2>3
    <3>2. host.stage # "dataIn"
      BY <2>1
    <3> QED
      BY <2>1, <3>1, <3>2
  <2> QED
    BY <2>1, <2>2, <2>3
<1>17. CASE Release
  BY <1>17 DEF Release, Free
<1>18. CASE PollTransmit
  BY <1>18 DEF PollTransmit
<1>19. CASE FillReply
  <2> DEFINE want == Min({msg.len, PacketSize})
             len == DeviceRead(want)
  <2>1. want \in Nat /\ want <= msg.len /\ (msg.len = 0 => want = 0)
    BY MinWithLength
  <2>2. len \in Nat /\ (msg.len = 0 => len = 0) /\ (len # 0 => len = want)
    BY <2>1 DEF DeviceRead, FunctionRead
  <2>3. /\ pc = "fill" /\ pc' = "arm" /\ UNCHANGED <<ret, rx, txLen, reset>>
        /\ txBuf' = [pid |-> Toggled(txBuf.pid), req |-> msg.req, off |-> msg.off, len |-> len]
        /\ msg' = IF len < PacketSize
                  THEN [len |-> USB_NO_MSG, req |-> NoRequest, off |-> 0, user |-> msg.user]
                  ELSE [msg EXCEPT !.len = @ - want, !.off = @ + len]
    BY <1>19 DEF FillReply
  <2> HIDE DEF want, len
  <2>4. ReplyTypes'
    <3>1. CASE len < PacketSize
      BY <2>2, <2>3, <3>1 DEF USB_NO_MSG
    <3>2. CASE ~(len < PacketSize)
      <4>1. /\ IsMessage(msg') /\ msg'.len = msg.len - want /\ msg'.off = msg.off + len
        BY <2>3, <3>2
      <4>2. msg'.len \in Nat /\ msg'.off \in Nat
        BY <2>1, <2>2, <4>1
      <4> QED
        BY <2>2, <2>3, <4>1, <4>2
    <3> QED
      BY <3>1, <3>2
  <2>5. Active /\ Served => PacketIsFresh'
    <3> SUFFICES ASSUME Active, Served PROVE PacketIsFresh'
      OBVIOUS
    <3>1. txBuf'.pid = host'.toggle
      BY <2>3 DEF Toggled, Toggles
    <3>2. msg'.len # USB_NO_MSG => msg'.req = msg.req /\ msg'.off = msg.off + len
      BY <2>3
    <3> QED
      BY <2>2, <2>3, <3>1, <3>2
  <2> QED
    BY <2>3, <2>4, <2>5
<1>20. CASE ArmReply
  BY <1>20 DEF ArmReply
<1> QED
  BY <1>1, <1>2, <1>3, <1>4, <1>5, <1>6, <1>7, <1>8, <1>9, <1>10, <1>11, <1>12, <1>13, <1>14,
     <1>15, <1>16, <1>17, <1>18, <1>19, <1>20
  DEF Program, Poll

LEMMA ReplyInvByHost ==
    ASSUME ReplyInv, HostStep
    PROVE  ReplyInv'
<1> USE DEF ReplyInv, ReplyTypes, StageFits, SetupWaits, Progress, NextInv, PacketInv,
            NextIsFresh, PacketIsFresh, Active, Served, Idle, IsMessage, IsPacket, IsHost, Busy,
            Processing, Ended, driverVars, Toggles, Toggled
<1>1. CASE Begin
  BY <1>1 DEF Begin
<1>2. CASE SendSetup
  <2>1. /\ host.stage = "setup" /\ rx = Free /\ rx' = [token |-> "SETUP", req |-> host.req]
        /\ UNCHANGED <<programVars, endpoint0, msg, reset>>
    BY <1>2 DEF SendSetup, Accept
  <2>2. /\ IsHost(host') /\ host'.req = host.req
        /\ host'.toggle = host.toggle /\ host'.off = host.off
        /\ host'.stage \in {"dataOut", "dataIn", "statusIn"}
        /\ host'.stage = "dataIn" <=> ControlIn(host.req) /\ host.req.data = <<>>
    BY <1>2 DEF SendSetup
  <2>3. host.req \in Requests /\ (ControlIn(host.req) => host.req.data = <<>>)
    BY <2>1, RequestsAssumption
  <2> QED
    BY <2>1, <2>2, <2>3 DEF Free
<1>3. CASE SendData
  <2>1. /\ host.stage = "dataOut" /\ rx = Free /\ rx'.token = "OUT"
        /\ UNCHANGED <<programVars, endpoint0, msg, reset>>
    BY <1>3 DEF SendData, Accept
  <2>2. /\ IsHost(host') /\ host'.req = host.req
        /\ host'.toggle = host.toggle /\ host'.off = host.off + PacketSize
        /\ host'.stage \in {"dataOut", "statusIn"}
    BY <1>3 DEF SendData
  <2>3. host'.off \in Nat
    BY <2>2, PacketAssumption
  <2> QED
    BY <2>1, <2>2, <2>3 DEF Free
<1>4. CASE ReadData
  <2>1. /\ host.stage = "dataIn" /\ rx = Free /\ txLen = "DATA" /\ txLen' = "NAK"
        /\ UNCHANGED <<programVars, rx, msg, reset>>
        /\ txBuf' = Sent(txBuf)
    BY <1>4 DEF ReadData, SendReply
  <2>2. PacketIsFresh
    BY <2>1 DEF Free
  <2>3. /\ IsHost(host') /\ host'.req = host.req /\ host'.off = host.off + txBuf.len
        /\ host'.toggle = Toggled(host.toggle)
        /\ host'.stage \in {"dataIn", "statusOut"}
    BY <1>4, <2>1, <2>2 DEF ReadData
  <2>4. /\ IsPacket(txBuf') /\ txBuf'.pid = txBuf.pid /\ txBuf'.off \in Nat
        /\ txBuf'.len \in Nat
    BY <2>1 DEF Sent
  <2>5. host'.off \in Nat
    BY <2>3
  <2> QED
    BY <2>1, <2>2, <2>3, <2>4, <2>5 DEF Free
<1>5. CASE ReadStatus
  BY <1>5 DEF ReadStatus, SendReply, Sent, NoRequest
<1>6. CASE SendStatus
  BY <1>6 DEF SendStatus, AcceptEmpty
<1>7. CASE PollInterrupt
  BY <1>7 DEF PollInterrupt, SendInterrupt
<1>8. CASE Refused
  BY <1>8 DEF Refused, Refuse, hostVars
<1>9. CASE GiveUp
  BY <1>9 DEF GiveUp, Transferring
<1>10. CASE ResetBus
  BY <1>10 DEF ResetBus
<1>11. CASE EndReset
  BY <1>11 DEF EndReset
<1> QED
  BY <1>1, <1>2, <1>3, <1>4, <1>5, <1>6, <1>7, <1>8, <1>9, <1>10, <1>11
  DEF HostStep, ControlTransfer

\* ReplyInv is an invariant.
LEMMA RepliesStayFresh == Spec => []ReplyInv
<1>1. Init => ReplyInv
  BY DEF Init, Setup, Variables, ReplyInv, ReplyTypes, StageFits, SetupWaits, Progress,
         NextInv, PacketInv, Active, Processing, IsHost, IsMessage, IsPacket, Toggles, Free,
         NoRequest, USB_NO_MSG
<1>2. ReplyInv /\ [Next]_vars => ReplyInv'
  <2> SUFFICES ASSUME ReplyInv, [Next]_vars PROVE ReplyInv'
    OBVIOUS
  <2>1. CASE Program /\ UNCHANGED hostVars
    BY <2>1, ReplyInvByProgram
  <2>2. CASE HostStep
    BY <2>2, ReplyInvByHost
  <2>3. CASE UNCHANGED vars
    BY <2>3
    DEF vars, driverVars, hostVars, ReplyInv, ReplyTypes, StageFits, SetupWaits, Progress,
        NextInv, PacketInv, NextIsFresh, PacketIsFresh, Active, Served, Idle, Busy, IsHost,
        IsMessage, IsPacket
  <2> QED
    BY <2>1, <2>2, <2>3, Steps
<1> QED
  BY <1>1, <1>2, PTL DEF Spec

\* The main program cancels a reply only on its way to the next request.
LEMMA ProgramSendsNothing ==
    ASSUME Program, txLen = "DATA", txLen' # "DATA"
    PROVE  pc' # pc
  BY DEF Program, Poll, LoopStart, PollReceived, RestartToggle, CancelReply, SetAddress,
         SetInterface, Acknowledge, GetDescriptor, GetStatus, ClassRequest, Serves, ReportData,
         Release, PollTransmit, FillReply, ArmReply, Sense, ForgetNewAddress, ForgetAddress,
         RunQuiet, RunReceives, Wait, ToggleInterrupt, CopyInterrupt, OfferInterrupt

\* What goes out on endpoint 0 answers the request in progress, from the place
\* the answer has reached and with the token the host expects.
THEOREM AnswersAreForTheRequest == Spec => RepliesAreFresh
<1> DEFINE Fresh == /\ txBuf.req = host.req /\ txBuf.pid = host.toggle
                    /\ \/ host.stage = "dataIn" /\ txBuf.off = host.off
                       \/ host.stage = "statusIn" /\ txBuf.len = 0
<1>1. ASSUME ReplyInv, [Next]_vars, txLen = "DATA", txLen' # "DATA", pc' = pc
      PROVE  Fresh
  <2>1. CASE Program
    BY <1>1, <2>1, ProgramSendsNothing
  <2>2. CASE ReadData \/ ReadStatus
    <3>1. rx = Free /\ host.stage \in {"dataIn", "statusIn"}
      BY <2>2 DEF ReadData, ReadStatus, SendReply, Busy
    <3>2. PacketIsFresh
      BY <1>1, <3>1 DEF ReplyInv, PacketInv, Active, Served, Idle, Free
    <3> QED
      BY <3>1, <3>2 DEF PacketIsFresh
  <2>3. CASE HostStep /\ ~ReadData /\ ~ReadStatus
    BY <1>1, <2>3
    DEF HostStep, ControlTransfer, Begin, SendSetup, SendData, Accept, SendStatus, AcceptEmpty,
        PollInterrupt, SendInterrupt, Refused, Refuse, GiveUp, ResetBus, EndReset, driverVars
  <2>4. CASE UNCHANGED vars
    BY <1>1, <2>4 DEF vars, driverVars
  <2> QED
    BY <1>1, <2>1, <2>2, <2>3, <2>4, Steps
<1>2. ReplyInv /\ [Next]_vars
        => [txLen = "DATA" /\ txLen' # "DATA" /\ pc' = pc => Fresh]_vars
  BY <1>1
<1> QED
  BY <1>2, RepliesStayFresh, PTL DEF Spec, RepliesAreFresh

-----------------------------------------------------------------------------
(* The address of the device is the one the host uses.                     *)

SettingAddress == Active /\ host.req.kind = "SET_ADDRESS"

\* A new address waits for the status of the request that set it.
NewAddressWaits ==
    reset = "none" =>
        /\ usbDeviceAddr = host.addr
        /\ usbNewDeviceAddr = host.addr \/ SettingAddress
        /\ SettingAddress /\ Served => usbNewDeviceAddr = host.req.value
        /\ rx.token = "SETUP" /\ rx.req.kind = "SET_ADDRESS" => SettingAddress

\* The host has an address when it configures the device, and sets none after.
Enumerated ==
    /\ host.configured => host.addr # 0 /\ host.req.kind # "SET_ADDRESS"
    /\ host.req.kind = "SET_CONFIGURATION" => host.addr # 0
    /\ reset # "none" => host.addr = 0 /\ ~host.configured

\* A poll that begins during a reset leaves no request and no address behind.
Forgotten ==
    /\ reset \in ResetStates
    /\ reset = "polled" /\ pc \notin Processing => rx = Free
    /\ reset = "polled" /\ pc = "forgetOld" => usbNewDeviceAddr = 0
    /\ reset = "noticed" => rx = Free /\ usbNewDeviceAddr = 0 /\ usbDeviceAddr = 0

\* A poll that notices a reset which then ends clears nothing the host has set.
LateForgetting ==
    pc \in {"forget", "forgetOld"} /\ reset = "none" =>
        host.addr = 0 /\ (SettingAddress => rx.token = "SETUP")

AddressInv == NewAddressWaits /\ Enumerated /\ Forgotten /\ LateForgetting
\* A step of the main program that touches neither the addresses nor what the
\* address invariant says of the receive buffer.
LEMMA AddressElsewhere ==
    ASSUME AddressInv, UNCHANGED <<rx, addresses, hostVars>>,
           \/ reset' = reset
           \/ reset = "driven" /\ reset' = "polled" /\ (rx = Free \/ pc' \in Processing),
           rx.token = "SETUP" /\ pc' = "release" => pc = "release",
           pc \notin Processing \/ pc' \in Processing,
           pc' # "forgetOld",
           pc' = "forget" => reset # "none"
    PROVE  AddressInv'
  BY DEF AddressInv, NewAddressWaits, Enumerated, Forgotten, LateForgetting, SettingAddress,
         Active, Served, hostVars, ResetStates

LEMMA AddressByProgram ==
    ASSUME ReplyInv, AddressInv, Program, UNCHANGED hostVars
    PROVE  AddressInv'
<1> USE DEF Processing
<1>0. ret \in {"run", "write"}
  BY DEF ReplyInv, ReplyTypes
<1>1. CASE LoopStart \/ PollReceived \/ RestartToggle \/ CancelReply
  BY <1>1, AddressElsewhere DEF LoopStart, PollReceived, RestartToggle, CancelReply, Busy
<1>2. CASE PollTransmit \/ FillReply \/ ArmReply
  BY <1>2, AddressElsewhere DEF PollTransmit, FillReply, ArmReply
<1>3. CASE Sense
  BY <1>0, <1>3, AddressElsewhere DEF Sense
<1>4. CASE RunQuiet \/ RunReceives \/ Wait \/ ToggleInterrupt \/ CopyInterrupt
             \/ OfferInterrupt
  BY <1>4, AddressElsewhere
  DEF RunQuiet, RunReceives, Wait, ToggleInterrupt, CopyInterrupt, OfferInterrupt
<1>5. CASE ReportData
  BY <1>5, AddressElsewhere DEF ReportData, ReplyInv, Progress
<1> USE DEF AddressInv, NewAddressWaits, Enumerated, Forgotten, LateForgetting, SettingAddress,
            Active, Served, hostVars, ResetStates
<1>6. CASE SetAddress
  BY <1>6 DEF SetAddress, Serves, ReplyInv, SetupWaits, Progress, Free
<1>7. CASE SetInterface \/ Acknowledge \/ GetDescriptor \/ GetStatus \/ ClassRequest
  <2>1. /\ pc = "request" /\ pc' = "release" /\ UNCHANGED <<rx, addresses, reset>>
        /\ rx.req.kind # "SET_ADDRESS"
    BY <1>7
    DEF SetInterface, Acknowledge, GetDescriptor, GetStatus, ClassRequest, Serves, StatusLength
  <2> QED
    BY <2>1 DEF ReplyInv, SetupWaits, Progress
<1>8. CASE Release
  BY <1>8 DEF Release, Free
<1>9. CASE ForgetNewAddress
  BY <1>9 DEF ForgetNewAddress
<1>10. CASE ForgetAddress
  BY <1>0, <1>10 DEF ForgetAddress
<1> QED
  BY <1>1, <1>2, <1>3, <1>4, <1>5, <1>6, <1>7, <1>8, <1>9, <1>10 DEF Program, Poll

LEMMA AddressByHost ==
    ASSUME ReplyInv, AddressInv, HostStep
    PROVE  AddressInv'
<1> USE DEF AddressInv, NewAddressWaits, Enumerated, Forgotten, LateForgetting, SettingAddress,
            Active, Served, ResetStates, Ended, IsHost, driverVars
<1>0. /\ IsHost(host) /\ StageFits
      /\ Active /\ rx.token = "SETUP" => rx.req = host.req
      /\ pc \in Processing => rx # Free
  BY DEF ReplyInv, ReplyTypes, SetupWaits, Progress, Busy
<1>1. CASE Begin
  BY <1>0, <1>1 DEF Begin, Legal, StageFits
<1>2. CASE SendSetup
  <2>1. /\ host.stage = "setup" /\ rx = Free /\ rx' = [token |-> "SETUP", req |-> host.req]
        /\ UNCHANGED <<programVars, addresses, reset>>
    BY <1>2 DEF SendSetup, Accept, Busy
  <2>2. /\ host'.stage \in {"dataOut", "dataIn", "statusIn"} /\ host'.req = host.req
        /\ host'.addr = host.addr /\ host'.configured = host.configured
    BY <1>0, <1>2 DEF SendSetup
  <2>3. reset = "none"
    BY <1>0, <2>1 DEF StageFits
  <2> QED
    BY <1>0, <2>1, <2>2, <2>3 DEF Free, Processing
<1>3. CASE SendData
  BY <1>0, <1>3 DEF SendData, Accept, Busy, Free, StageFits
<1>4. CASE ReadData
  BY <1>0, <1>4 DEF ReadData, SendReply, AssignAddress, StageFits, ControlIn
<1>5. CASE ReadStatus
  <2>1. /\ host.stage = "statusIn" /\ rx = Free
        /\ UNCHANGED <<programVars, rx, reset, usbNewDeviceAddr>>
        /\ usbDeviceAddr' = usbNewDeviceAddr
    BY <1>5 DEF ReadStatus, SendReply, AssignAddress, Busy
  <2>2. /\ host'.stage = "idle" /\ host'.req = NoRequest
        /\ host'.addr = IF host.req.kind = "SET_ADDRESS" THEN host.req.value ELSE host.addr
    BY <1>0, <1>5 DEF ReadStatus
  <2>3. host'.configured <=> host.configured \/ host.req.kind = "SET_CONFIGURATION"
    BY <1>0, <1>5 DEF ReadStatus
  <2>4. reset = "none"
    BY <1>0, <2>1 DEF StageFits
  <2> QED
    BY <1>0, <2>1, <2>2, <2>3, <2>4 DEF Free, NoRequest
<1>6. CASE SendStatus
  BY <1>0, <1>6 DEF SendStatus, AcceptEmpty, StageFits, NoRequest
<1>7. CASE PollInterrupt
  BY <1>0, <1>7 DEF PollInterrupt, SendInterrupt, AssignAddress, StageFits
<1>8. CASE Refused
  BY <1>8 DEF Refused, Refuse, hostVars
<1>9. CASE GiveUp
  BY <1>0, <1>9 DEF GiveUp, NoRequest, StageFits, Transferring
<1>10. CASE ResetBus
  BY <1>0, <1>10 DEF ResetBus, NoRequest
<1>11. CASE EndReset
  BY <1>0, <1>11 DEF EndReset, StageFits, Free
<1> QED
  BY <1>1, <1>2, <1>3, <1>4, <1>5, <1>6, <1>7, <1>8, <1>9, <1>10, <1>11
  DEF HostStep, ControlTransfer

\* Outside a reset of the bus the device answers at the address the host uses.
THEOREM AddressIsTheHosts == Spec => []AddressesAgree
<1>1. Init => AddressInv
  BY DEF Init, Setup, Variables, AddressInv, NewAddressWaits, Enumerated, Forgotten,
         LateForgetting, SettingAddress, Active, ResetStates, NoRequest
<1>2. ReplyInv /\ AddressInv /\ [Next]_vars => AddressInv'
  <2> SUFFICES ASSUME ReplyInv, AddressInv, [Next]_vars PROVE AddressInv'
    OBVIOUS
  <2>1. CASE Program /\ UNCHANGED hostVars
    BY <2>1, AddressByProgram
  <2>2. CASE HostStep
    BY <2>2, AddressByHost
  <2>3. CASE UNCHANGED vars
    BY <2>3
    DEF vars, driverVars, hostVars, AddressInv, NewAddressWaits, Enumerated, Forgotten,
        LateForgetting, SettingAddress, Active, Served
  <2> QED
    BY <2>1, <2>2, <2>3, Steps
<1>3. AddressInv => AddressesAgree
  BY DEF AddressInv, NewAddressWaits, AddressesAgree
<1> QED
  BY <1>1, <1>2, <1>3, RepliesStayFresh, PTL DEF Spec
=============================================================================
