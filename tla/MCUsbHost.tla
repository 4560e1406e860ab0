------------------------------ MODULE MCUsbHost ------------------------------
(* Small instances of UsbHost: packets of two bytes, reports of four. *)
EXTENDS UsbHost

Request(kind, value, length) ==
    [kind |-> kind, value |-> value, length |-> length, data |-> <<>>]
Report(id, data) ==
    [kind |-> "HID_SET_REPORT", value |-> id, length |-> Len(data), data |-> data]

MCDescriptorLength == [device |-> 3, report |-> 4]
MCFrameSizes == {1}

MCEnumeration == {Request("SET_ADDRESS", 1, 0), Request("SET_CONFIGURATION", 1, 0)}

\* An answer of two packets, a report that fills the buffer and a shorter one.
MCRequests ==
    MCEnumeration \cup
    {Request("GET_DESCRIPTOR", "device", 256), Request("SET_INTERFACE", 0, 0),
     Report(0, <<1, 2, 3, 4>>), Report(0, <<4, 0>>)}

\* Answers that end with a packet, inside one and at once, a report with a
\* zero in it and a report with an identifier.
MCTransfers ==
    MCEnumeration \cup
    {Request("GET_DESCRIPTOR", "device", 2), Request("GET_DESCRIPTOR", "report", 8),
     Request("GET_DESCRIPTOR", "string", 256), Request("GET_STATUS", 0, 2),
     Request("HID_GET_REPORT", 0, 4),
     Report(0, <<1, 0, 2>>), Report(1, <<3>>)}
MCLongFrame == {2}

\* A report of one packet and one of two: the second may arrive on the first.
MCTwoReports == MCEnumeration \cup {Report(0, <<1, 2, 3>>), Report(0, <<4, 5, 6>>)}

MCInterface == MCEnumeration \cup {Request("SET_INTERFACE", 0, 0)}
=============================================================================
