-------------------------- MODULE MCIncidentStore --------------------------
(* Model-checking instances of IncidentStore. *)
EXTENDS IncidentStore

CONSTANTS oom, xhci, usb, dump, hot, plain

Seen(of, at, severity, by, fatal) ==
    [of |-> of, at |-> at, severity |-> severity, by |-> by, fatal |-> fatal]

\* A sensor that runs hot twice, seen by the probe.
HotRecords == {Seen(hot, 3, "Critical", "probe", FALSE),
               Seen(hot, 4, "Warning", "probe", FALSE)}

\* A process crash seen around a reboot.
CrashRecords == {Seen(oom, 1, "Error", "journal", FALSE),
                 Seen(oom, 3, "Critical", "journal", FALSE)}

\* An xHCI failure and its consequences, and a generic warning that names a
\* kernel fault.
UsbRecords == {Seen(xhci, 2, "Critical", "journal", FALSE),
               Seen(usb, 2, "Activity", "journal", FALSE),
               Seen(usb, 3, "Warning", "journal", FALSE),
               Seen(plain, 4, "Warning", "journal", TRUE)}

\* Two dumps, of the first boot and of a later one.
DumpRecords == {Seen(dump, 1, "Critical", "probe", FALSE),
                Seen(dump, 3, "Critical", "probe", FALSE)}

HotAndUsbRecords == UsbRecords \cup HotRecords

FaultAndDumpRecords == CrashRecords \cup HotRecords \cup DumpRecords

Boots == [t \in 1..MaxTime |-> (t + 1) \div 2]
=============================================================================
