------------------------------ MODULE HidSerial ------------------------------
(***************************************************************************)
(* The HID serial port of USBComm.cpp: the callbacks through which the USB *)
(* driver hands over the reports of the host, and read(), through which    *)
(* the sketch takes them.  The file-scope variables are one record `hid';  *)
(* a function is an operator from the record before the call to the record *)
(* after it.  Bytes are numbers and only 0 is special: it is the padding   *)
(* that the callback drops and the terminator that read() looks for.       *)
(***************************************************************************)
EXTENDS Naturals, Sequences, FiniteSetsExt

CONSTANTS
    PacketSize,                 \* the bytes of a data packet, 8 in the code
    HIDSERIAL_INBUFFER_SIZE     \* the bytes of a report, 32 in the code

ASSUME PacketAssumption == PacketSize \in Nat \ {0}
ASSUME InBufferAssumption == HIDSERIAL_INBUFFER_SIZE \in 1..255

USB_NO_MSG == 255

\* inBuffer and the byte that follows it in memory.
Cells == 1..(HIDSERIAL_INBUFFER_SIZE + 1)

\* The variables of USBComm.cpp after begin().
HidInit ==
    [received |-> FALSE, inBuffer |-> [i \in Cells |-> 0],
     reportId |-> 0, bytesRemaining |-> 0, pos |-> 1]

\* usbFunctionSetup: any request of a class or of the vendor sets the report
\* identifier; one that brings a report rewinds the buffer, whether or not
\* the last report has been read.
FunctionSetup(h, req) ==
    LET identified == [h EXCEPT !.reportId = req.value]
    IN IF req.kind = "HID_SET_REPORT"
       THEN [identified EXCEPT
                !.pos = 1,
                !.bytesRemaining =
                    Min({req.length % 256, HIDSERIAL_INBUFFER_SIZE})]
       ELSE identified

\* What usbFunctionSetup returns.
FunctionSetupReturns(req) ==
    IF req.kind \in {"HID_GET_REPORT", "HID_SET_REPORT"} THEN USB_NO_MSG ELSE 0

\* usbFunctionRead has nothing for the host.
FunctionRead == 0

\* The bytes that usbFunctionWrite keeps of the first i of s, and of all of s.
Kept(s) ==
    LET kept[i \in 0..Len(s)] ==
            IF i = 0 THEN <<>>
            ELSE IF s[i] = 0 THEN kept[i - 1] ELSE Append(kept[i - 1], s[i])
    IN kept
WithoutZeros(s) == Kept(s)[Len(s)]

\* The buffer once the bytes s have been stored from position p on.
Stored(buffer, p, s) ==
    [i \in Cells |-> IF i \in p..(p + Len(s) - 1) THEN s[i - p + 1] ELSE buffer[i]]

\* Variants marked "Slip" are plausible programming errors, each next to the
\* definition it would replace; no definition of the model uses them.

\* Slip: the terminator of a complete report is forgotten.
FunctionWriteUnterminated(h, data) ==
    LET len == Min({Len(data), h.bytesRemaining})
        kept == WithoutZeros(SubSeq(data, 1, len))
    IN IF h.reportId # 0 THEN h
       ELSE [h EXCEPT !.bytesRemaining = @ - len,
                      !.inBuffer = Stored(@, h.pos, kept),
                      !.pos = @ + Len(kept),
                      !.received = @ \/ h.bytesRemaining = len]

\* usbFunctionWrite: takes at most the bytes the host announced and drops the
\* zeros; the last byte completes the report, which gets a terminator.
FunctionWrite(h, data) ==
    LET len == Min({Len(data), h.bytesRemaining})
        last == h.bytesRemaining = len
        kept == WithoutZeros(SubSeq(data, 1, len))
                    \o (IF last THEN <<0>> ELSE <<>>)
    IN IF h.reportId # 0 THEN h
       ELSE [h EXCEPT !.bytesRemaining = @ - len,
                      !.inBuffer = Stored(@, h.pos, kept),
                      !.pos = @ + Len(kept),
                      !.received = @ \/ last]

\* Slip: a report that ends with a packet goes on.
FunctionWriteReturnsLate(h, data) ==
    h.reportId # 0 \/ h.bytesRemaining < Len(data)

\* What usbFunctionWrite returns: whether this was the last packet.
FunctionWriteReturns(h, data) ==
    h.reportId # 0 \/ h.bytesRemaining <= Len(data)

\* The bytes read() copies: up to a zero, or all of the buffer.
Readable(h) ==
    LET end == Min({i \in Cells : h.inBuffer[i] = 0 \/ i = HIDSERIAL_INBUFFER_SIZE + 1})
    IN [i \in 1..(end - 1) |-> h.inBuffer[i]]

\* read(), once available() has found a report.
Read(h) == [h EXCEPT !.inBuffer[1] = 0, !.received = FALSE]
=============================================================================
