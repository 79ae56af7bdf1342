SPECIFICATION Spec
CONSTANTS
    oom = oom
    xhci = xhci
    usb = usb
    dump = dump
    hot = hot
    plain = plain
    NoRecord = NoRecord
    Fingerprint = {oom, hot, dump, xhci}
    Top = {xhci, dump}
    Forensic = {oom, xhci, dump, hot}
    Snapshot = {dump}
    Usb = {usb}
    Xhci = xhci
    Record <- FaultAndDumpRecords
    MaxTime = 5
    BootAt <- Boots
    Retention = 2
    Before = 2
    After = 1
    UsbBefore = 1
    UsbAfter = 0
    DumpSlack = 0
    MaxCrashes = 1
INVARIANTS
    TypeOK
    CasesCoverEvidence
