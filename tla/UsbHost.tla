------------------------------- MODULE UsbHost -------------------------------
(***************************************************************************)
(* The USB driver, the HID serial port and the sketch with the host they   *)
(* talk to: a control transfer at a time on endpoint 0, made of a SETUP, a *)
(* data stage and a status stage, and polls of endpoint 1.  The host       *)
(* repeats what is refused.  It may give up a transfer and may reset the   *)
(* bus at any time if HostGivesUp.                                         *)
(***************************************************************************)
EXTENDS UsbDriver

CONSTANTS
    Requests,       \* the requests of the host
    HostGivesUp,    \* transfers may be given up, the bus may be reset
    HostPaced       \* the host sends a report when the last one has been read

ASSUME HostAssumption == HostGivesUp \in BOOLEAN /\ HostPaced \in BOOLEAN

VARIABLES
    host,           \* the control transfer and what the host knows of the device
    hostToggle1,    \* the token the host expects next on endpoint 1
    hostLast,       \* the number of the last piece it has taken from it
    hostReport      \* the last report whose data have all been acknowledged

hostVars == <<host, hostToggle1, hostLast, hostReport>>
vars == <<driverVars, hostVars>>

ControlIn(req) ==
    req.kind \in {"GET_DESCRIPTOR", "GET_STATUS", "GET_CONFIGURATION",
                  "GET_INTERFACE", "HID_GET_REPORT"}

\* A request that asks for data brings none.
ASSUME RequestsAssumption ==
    \A req \in Requests : req.length \in Nat /\ (ControlIn(req) => req.data = <<>>)

\* Only reports bring data, and none is longer than usbHidReportDescriptor says.
ASSUME ReportsAssumption ==
    \A req \in Requests :
        /\ req.data \in Seq(Nat)
        /\ req.data # <<>> => req.kind = "HID_SET_REPORT"
        /\ req.kind = "HID_SET_REPORT" =>
              req.length = Len(req.data) /\ Len(req.data) <= HIDSERIAL_INBUFFER_SIZE

\* The host between two transfers.
Ended(h) == [h EXCEPT !.stage = "idle", !.req = NoRequest, !.off = 0, !.toggle = "DATA1"]

Transferring == {"setup", "dataOut", "dataIn", "statusIn", "statusOut"}

\* Enumeration: an address, a configuration, then the rest.
Legal(req) ==
    CASE host.addr = 0    -> req.kind \in {"SET_ADDRESS", "GET_DESCRIPTOR"}
      [] host.configured  -> req.kind \notin {"SET_ADDRESS", "SET_CONFIGURATION"}
      [] OTHER            -> req.kind \in {"SET_CONFIGURATION", "GET_DESCRIPTOR",
                                           "GET_STATUS"}

Begin ==
    /\ host.stage = "idle"
    /\ \E req \in Requests :
          /\ Legal(req)
          /\ HostPaced /\ req.kind = "HID_SET_REPORT" => ~hid.received /\ ~Busy
          /\ host' = [host EXCEPT !.stage = "setup", !.req = req]
    /\ UNCHANGED <<driverVars, hostToggle1, hostLast, hostReport>>

SendSetup ==
    /\ host.stage = "setup" /\ Addressed(host.addr)
    /\ Accept([token |-> "SETUP", req |-> host.req])
    /\ host' = [host EXCEPT !.stage =
                    IF host.req.data # <<>> THEN "dataOut"
                    ELSE IF ControlIn(host.req) THEN "dataIn" ELSE "statusIn"]
    /\ UNCHANGED <<hostToggle1, hostLast, hostReport>>

\* The data of the packet that the host sends now.
NextData == SubSeq(host.req.data, host.off + 1,
                   Min({host.off + PacketSize, Len(host.req.data)}))

SendData ==
    LET last == host.off + PacketSize >= Len(host.req.data)
    IN /\ host.stage = "dataOut" /\ Addressed(host.addr)
       /\ Accept([token |-> "OUT", data |-> NextData])
       /\ host' = [host EXCEPT !.off = @ + PacketSize,
                               !.stage = IF last THEN "statusIn" ELSE @]
       /\ hostReport' = IF last /\ host.req.value = 0 THEN host.req ELSE hostReport
       /\ UNCHANGED <<hostToggle1, hostLast>>

\* A packet of the data stage: a packet that is not full ends it.  One with
\* the token of the packet before is taken for its repetition.
ReadData ==
    LET off == host.off + txBuf.len
    IN /\ host.stage = "dataIn" /\ Addressed(host.addr)
       /\ SendReply
       /\ host' = IF txBuf.pid # host.toggle THEN host
                  ELSE [host EXCEPT
                           !.off = off, !.toggle = Toggled(@),
                           !.stage = IF txBuf.len < PacketSize \/ off = host.req.length
                                     THEN "statusOut" ELSE @]
       /\ UNCHANGED <<hostToggle1, hostLast, hostReport>>

\* The empty packet that ends a transfer without data for the host.
ReadStatus ==
    /\ host.stage = "statusIn" /\ Addressed(host.addr)
    /\ SendReply
    /\ host' = [Ended(host) EXCEPT
                   !.addr = IF host.req.kind = "SET_ADDRESS" THEN host.req.value ELSE @,
                   !.configured = @ \/ host.req.kind = "SET_CONFIGURATION"]
    /\ hostToggle1' = IF host.req.kind \in {"SET_CONFIGURATION", "SET_INTERFACE"}
                      THEN "DATA0" ELSE hostToggle1
    /\ UNCHANGED <<hostLast, hostReport>>

SendStatus ==
    /\ host.stage = "statusOut" /\ Addressed(host.addr)
    /\ AcceptEmpty
    /\ host' = Ended(host)
    /\ UNCHANGED <<hostToggle1, hostLast, hostReport>>

\* The host polls endpoint 1 and finds a piece of a CEC frame.
PollInterrupt ==
    /\ host.configured /\ Addressed(host.addr)
    /\ SendInterrupt
    /\ IF tx1Pid = hostToggle1
       THEN hostToggle1' = Toggled(hostToggle1) /\ hostLast' = tx1Data
       ELSE UNCHANGED <<hostToggle1, hostLast>>
    /\ UNCHANGED <<host, hostReport>>

\* A transaction that is refused is repeated later.
Refused ==
    /\ \/ host.stage \in {"setup", "dataOut"} /\ Busy
       \/ host.stage \in {"dataIn", "statusIn"} /\ (Busy \/ Idle(txLen))
       \/ host.configured /\ (Busy \/ Idle(tx1Len))
    /\ Addressed(host.addr)
    /\ Refuse
    /\ UNCHANGED hostVars

\* A host that cannot set the address resets the bus instead.
GiveUp ==
    /\ HostGivesUp
    /\ host.stage \in Transferring /\ host.req.kind # "SET_ADDRESS"
    /\ host' = Ended(host)
    /\ UNCHANGED <<driverVars, hostToggle1, hostLast, hostReport>>

ResetBus ==
    /\ HostGivesUp /\ reset = "none"
    /\ reset' = "driven"
    /\ host' = [Ended(host) EXCEPT !.stage = "off", !.addr = 0, !.configured = FALSE]
    /\ UNCHANGED <<programVars, rx, endpoint0, endpoint1, addresses, msg, hid,
                   hostToggle1, hostLast, hostReport>>

EndReset ==
    /\ reset = "noticed"
    /\ reset' = "none"
    /\ host' = [host EXCEPT !.stage = "idle"]
    /\ UNCHANGED <<programVars, rx, endpoint0, endpoint1, addresses, msg, hid,
                   hostToggle1, hostLast, hostReport>>

Init ==
    /\ Setup
    /\ host = [stage |-> "off", req |-> NoRequest, off |-> 0, toggle |-> "DATA1",
               addr |-> 0, configured |-> FALSE]
    /\ hostToggle1 = "DATA0" /\ hostLast = 0 /\ hostReport = NoRequest

ControlTransfer == SendSetup \/ SendData \/ ReadData \/ ReadStatus \/ SendStatus

Next ==
    \/ Program /\ UNCHANGED hostVars
    \/ Begin \/ ControlTransfer \/ PollInterrupt \/ Refused
    \/ GiveUp \/ ResetBus \/ EndReset

Spec == Init /\ [][Next]_vars

\* The main program runs on, and the host repeats what is refused.  It polls
\* endpoint 1 for ever too, and not always just when a packet waits.
Fairness ==
    /\ WF_vars(Program /\ UNCHANGED hostVars)
    /\ WF_vars(ControlTransfer) /\ WF_vars(EndReset)
    /\ SF_vars(PollInterrupt)

FairSpec == Spec /\ Fairness

-----------------------------------------------------------------------------
(* Properties.                                                             *)

Processing == {"restart", "cancel", "request", "data", "release"}

\* Every variable keeps the values it can have in the code.
TypeOK ==
    /\ pc \in Processing \cup
             {"loop", "poll", "transmit", "fill", "arm", "sense", "forget", "forgetOld",
              "run", "write", "toggle", "copy", "offer"}
    /\ ret \in {"run", "write"} /\ toWrite \in Nat /\ offered \in 0..(Chunks - 1)
    /\ rx = Free \/ (rx.token = "SETUP" /\ rx.req \in Requests)
               \/ (rx.token = "OUT" /\ Len(rx.data) \in 1..PacketSize)
    /\ txLen \in {"NAK", "DATA"} /\ txBuf.pid \in {"none", "DATA0", "DATA1"}
    /\ txBuf.len \in 0..PacketSize /\ txBuf.off \in Nat
    /\ tx1Len \in {"NAK", "DATA"} /\ tx1Pid \in {"DATA0", "DATA1"}
    /\ tx1Data \in 0..(Chunks - 1)
    /\ msg.len \in 0..USB_NO_MSG /\ msg.off \in Nat /\ msg.user \in BOOLEAN
    /\ hid.received \in BOOLEAN /\ hid.pos \in 1..(HIDSERIAL_INBUFFER_SIZE + 2)
    /\ hid.bytesRemaining \in 0..HIDSERIAL_INBUFFER_SIZE
    /\ reset \in ResetStates
    /\ host.stage \in Transferring \cup {"idle", "off"}

\* The main program fills a transmit buffer only while the handler would not
\* send it, and reads a received packet only while the handler keeps it (the
\* order of the stores in usbBuildTxBlock, usbGenericSetInterrupt and usbPoll).
BuffersAreOwned ==
    /\ pc \in {"fill", "arm"} => Idle(txLen)
    /\ pc \in {"copy", "offer"} => Idle(tx1Len)
    /\ pc \in Processing => Busy

\* A packet that has been acknowledged stays as it is until usbPoll has
\* processed it: neither another packet nor anything else replaces it.
PacketIsKept ==
    [][Busy => rx' = rx \/ (pc = "release" /\ rx' = Free)]_vars

\* What goes out on endpoint 0 answers the request in progress, from the place
\* the answer has reached and with the token the host expects, also after the
\* host gave up another transfer half way (the SETUP branch of usbProcessRx).
RepliesAreFresh ==
    [][txLen = "DATA" /\ txLen' # "DATA" /\ pc' = pc =>
          /\ txBuf.req = host.req /\ txBuf.pid = host.toggle
          /\ \/ host.stage = "dataIn" /\ txBuf.off = host.off
             \/ host.stage = "statusIn" /\ txBuf.len = 0]_vars

\* The device answers at the address the host uses: it changes it with the
\* status of SET_ADDRESS and not before, and a request from before a reset of
\* the bus does not bring an address back (usbPoll, and the end of a data
\* packet in the interrupt handler).
AddressesAgree == reset = "none" => usbDeviceAddr = host.addr

\* The report that waits for loop() is the last one that the host sent, whole
\* and with nothing of another (usbFunctionSetup, usbFunctionWrite, read).
ReportIsWhole ==
    hid.received => Readable(hid) = WithoutZeros(hostReport.data)

\* A SETUP is never refused, if the host does not give up transfers: "We must
\* not reply with NAK to a SETUP transaction", as the Changelog says.
SetupIsAccepted == host.stage = "setup" => ~Busy

\* The interrupt endpoint implements the pipe.
Pipe == INSTANCE InterruptPipe WITH written <- offered, taken <- hostLast
PipeIsImplemented == Pipe!Spec

\* Every control transfer comes to an end.
TransferEnds == \A req \in Requests : host.req = req ~> host.req # req

\* HIDSerial::write comes back, once the host has configured the device: the
\* loop in it keeps the driver going, without which the handler would refuse
\* the poll that it waits for.
WriteEnds == toWrite > 0 /\ host.configured ~> toWrite = 0

\* The first packet on endpoint 1 after the host has set the interface carries
\* the token it starts from, "the oposite value" of USB_INITIAL_DATATOKEN.
TogglesAgree == tx1Len = "DATA" /\ host.configured => tx1Pid = hostToggle1
=============================================================================
