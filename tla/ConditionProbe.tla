--------------------------- MODULE ConditionProbe ---------------------------
(***************************************************************************)
(* How the collector's main thread turns what it measures into an open or  *)
(* resolved incident: sample_metrics, _metric_anomalies, run_due_scans and *)
(* the scans it calls (app/pcdiag_collector.py).                           *)
(*                                                                         *)
(* Thresholds, cursors and fingerprints are kept per condition and no      *)
(* condition's probe touches another's, so the module follows one          *)
(* condition, of any kind, through measurements, restarts, reboots and the *)
(* user's actions.  world is the machine: 0 when the condition does not    *)
(* hold; for a network counter its value; for crash dumps which files      *)
(* exist.                                                                  *)
(***************************************************************************)
EXTENDS Integers

CONSTANTS
    Kinds,      \* the kinds of condition considered
    MaxNeed,    \* bound: measurements in a row a threshold asks for
    MaxWorld,   \* bound: counter values and crash listings
    MaxDowns,   \* bound: crashes and reboots
    Unknown

\* cpu is read from the second sample on and taken for 0 before; a level
\* (memory, disk) always; a sensor when it answers.
Metrics  == {"cpu", "level", "sensor"}
Crashes  == {"kernel", "storage"}
Scanned  == {"unit", "drive", "inventory"} \cup Crashes
\* Conditions whose evidence is filed under a cursor of the current bucket of
\* 5, 30 or 60 minutes; the others' cursor is the listing itself.
Bucketed == Metrics \cup {"counter", "unit", "drive"}

ASSUME ProbeAssumption ==
    /\ Kinds \subseteq Metrics \cup Scanned \cup {"counter"}
    /\ MaxNeed \in Nat \ {0}
    /\ MaxWorld \in Nat \ {0}
    /\ MaxDowns \in Nat
    /\ Unknown \notin Nat

VARIABLES
    kind, need,  \* the condition
    world,       \* the machine
    status,      \* of the condition's incident
    past,        \* its last_boot_id is not the running boot
    filed,       \* observations whose cursor is in evidence
    scan,        \* status of the newest row of its scan
    running,     \* the collector runs
    count, seen, \* threshold_counts and threshold_seen
    previous,    \* previous_network
    sampled,     \* previous_cpu is set
    observed,    \* what the last step, if a probe's, saw
    downs        \* crashes and reboots so far

process == <<count, seen, previous, sampled>>
vars == <<kind, need, world, status, past, filed, scan, running, process, observed, downs>>

Worlds == IF kind \in Crashes \cup {"counter"} THEN 0..MaxWorld ELSE {0, 1}

TypeOK ==
    /\ kind \in Kinds /\ need \in 1..MaxNeed
    /\ world \in Worlds
    /\ status \in {"none", "open", "resolved", "historical"}
    /\ past \in BOOLEAN
    /\ filed \subseteq Worlds
    /\ scan \in {"none", "ok", "warning", "critical", "error"}
    /\ running \in BOOLEAN
    /\ count \in 0..MaxNeed /\ seen \in BOOLEAN
    /\ previous \in Worlds \cup {Unknown}
    /\ sampled \in BOOLEAN
    /\ observed \in {"none", "clear", "active", "blind"}
    /\ downs \in 0..MaxDowns

NewProcess == count = 0 /\ seen = FALSE /\ previous = Unknown /\ sampled = FALSE

Init ==
    /\ kind \in Kinds
    /\ need \in IF kind \in Metrics THEN 1..MaxNeed ELSE {1}
    /\ world = 0
    /\ status = "none" /\ past = FALSE
    /\ filed = {}
    /\ scan = "none"
    /\ running = FALSE
    /\ NewProcess
    /\ observed = "none"
    /\ downs = 0

-----------------------------------------------------------------------------
(* What a probe does to the incident.                                      *)

\* synthetic_issue: evidence the database already has changes nothing, and
\* evidence older than the newest (a crash listing that has lost its newest
\* file) does not reopen the incident.
Issue(key) ==
    IF key \in filed
    THEN UNCHANGED <<status, past, filed>>
    ELSE /\ filed' = filed \cup {key}
         /\ IF \E newer \in filed : newer > key
            THEN UNCHANGED <<status, past>>
            ELSE status' = "open" /\ past' = FALSE

\* resolve_incident
Resolve ==
    /\ status' = IF status = "open" THEN "resolved" ELSE status
    /\ UNCHANGED <<past, filed>>

Leave == UNCHANGED <<status, past, filed>>

Probing == running /\ UNCHANGED <<kind, need, world, running, downs>>

-----------------------------------------------------------------------------
(* sample_metrics                                                          *)

\* Faulty variant: the first observation of a process is like any other.
ClearedLater(active) == ~active /\ count > 0

\* _count_threshold: the condition has cleared, or is met clear at launch.
Cleared(active) == ~active /\ (count > 0 \/ ~seen)

\* The disk's incident needs one measurement (need = 1), the others more.
Threshold(active) ==
    /\ seen' = TRUE
    /\ count' = IF ~active THEN 0 ELSE IF count < need THEN count + 1 ELSE need
    /\ IF active /\ count' >= need THEN Issue(1)
       ELSE IF Cleared(active) THEN Resolve ELSE Leave

\* A missing CPU reading is taken for 0, a missing sensor is passed over.
SampleMetric ==
    /\ Probing
    /\ kind \in Metrics
    /\ Threshold(world = 1 /\ (kind = "cpu" => sampled))
    /\ sampled' = TRUE
    /\ observed' = IF kind = "cpu" /\ ~sampled THEN "blind"
                   ELSE IF world = 1 THEN "active" ELSE "clear"
    /\ UNCHANGED <<scan, previous>>

\* Faulty variant: what is remembered is the difference.
SampleCounterDifference ==
    /\ Probing
    /\ kind = "counter"
    /\ IF previous # Unknown /\ world > previous THEN Issue(1) ELSE Leave
    /\ previous' = IF previous = Unknown THEN world ELSE world - previous
    /\ observed' = "active"
    /\ UNCHANGED <<scan, count, seen, sampled>>

\* The first value a process reads is only remembered.
SampleCounter ==
    /\ Probing
    /\ kind = "counter"
    /\ IF previous # Unknown /\ world > previous THEN Issue(1)
       ELSE IF previous # Unknown /\ world < previous THEN Resolve ELSE Leave
    /\ previous' = world
    /\ observed' = IF previous # Unknown /\ world > previous THEN "active" ELSE "blind"
    /\ UNCHANGED <<scan, count, seen, sampled>>

\* local_metrics fails, or does not name the sensor or the interface.
NoSample ==
    /\ Probing
    /\ kind \in Metrics \cup {"counter"}
    /\ observed' = "blind"
    /\ UNCHANGED <<status, past, filed, scan, process>>

-----------------------------------------------------------------------------
(* run_due_scans: record_scan, then the incident.                          *)

Scanning == Probing /\ UNCHANGED process

\* record_scan: the window shows the newest row of each scan.
RecordScan(result) == scan' = result

\* Faulty variant: units that are no longer listed stay as they are.
ScanUnitKeepsStale ==
    /\ Scanning
    /\ kind = "unit"
    /\ RecordScan(IF world = 1 THEN "warning" ELSE "ok")
    /\ IF world = 1 THEN Issue(1) ELSE Leave
    /\ observed' = IF world = 1 THEN "active" ELSE "clear"

ScanUnit ==
    /\ Scanning
    /\ kind = "unit"
    /\ RecordScan(IF world = 1 THEN "warning" ELSE "ok")
    /\ IF world = 1 THEN Issue(1) ELSE Resolve
    /\ observed' = IF world = 1 THEN "active" ELSE "clear"

\* systemctl runs and exits with an error: its message lists no unit.
ScanUnitError ==
    /\ Scanning
    /\ kind = "unit"
    /\ RecordScan("ok")
    /\ Resolve
    /\ observed' = "blind"

\* Faulty variant: the scan goes on after systemctl could not run.
ScanOn ==
    /\ Scanning
    /\ kind = "unit"
    /\ RecordScan("error")
    /\ Resolve
    /\ observed' = "blind"

\* systemctl cannot be run or times out.
ScanUnitFails ==
    /\ Scanning
    /\ kind = "unit"
    /\ RecordScan("error")
    /\ Leave
    /\ observed' = "blind"

\* The crash directory's listing: the helper's, or what the collector itself
\* can see of it.
ScanListing(listing) ==
    /\ RecordScan(IF listing # 0 /\ kind = "storage" THEN "warning" ELSE "ok")
    /\ IF listing = 0 THEN Resolve
       ELSE IF kind = "storage" THEN Issue(listing)
       ELSE \* the crash scan sets its kernel incident's status itself
            /\ status' \in {"open", "historical"}
            /\ past' \in IF listing \in filed THEN {past} ELSE {past, FALSE}
            /\ filed' = filed \cup {listing}

ScanCrashes ==
    /\ Scanning
    /\ kind \in Crashes
    /\ ScanListing(world)
    /\ observed' = IF world = 0 THEN "clear" ELSE "active"

ScanCrashesFallback ==
    /\ Scanning
    /\ kind \in Crashes
    /\ \E listing \in IF world = 0 THEN {0} ELSE Worlds : ScanListing(listing)
    /\ observed' = "blind"

\* A healthy drive resolves nothing.
ScanSmart ==
    /\ Scanning
    /\ kind = "drive"
    /\ RecordScan(IF world = 1 THEN "critical" ELSE "ok")
    /\ IF world = 1 THEN Issue(1) ELSE Leave
    /\ observed' = IF world = 1 THEN "active" ELSE "clear"

\* Hardware, network, sysstat and updates: the row is all they leave.  One of
\* its commands may fail, or packages be out of date (world = 1).
ScanInventory ==
    /\ Scanning
    /\ kind = "inventory"
    /\ RecordScan(IF world = 1 THEN "warning" ELSE "ok") \/ RecordScan("error")
    /\ Leave
    /\ observed' = "blind"

\* The drive is unavailable, or the scan raises an exception.
ScanFails ==
    /\ Scanning
    /\ kind \in Scanned
    /\ RecordScan("error")
    /\ Leave
    /\ observed' = "blind"

-----------------------------------------------------------------------------
(* The machine, the process and the user.                                  *)

Others == observed' = "none" /\ UNCHANGED <<kind, need>>

Change ==
    /\ Others
    /\ world' \in Worlds \ {world}
    /\ UNCHANGED <<status, past, filed, scan, running, process, downs>>

\* Faulty variant: the observation's cursor does not name its bucket.
RollNothing == Others /\ kind \in Bucketed /\ UNCHANGED vars

\* A new bucket begins.
Roll ==
    /\ Others
    /\ kind \in Bucketed
    /\ filed' = {}
    /\ UNCHANGED <<world, status, past, scan, running, process, downs>>

\* initialize: what was open in an earlier boot is historical.
Launch ==
    /\ Others
    /\ ~running
    /\ running' = TRUE
    /\ status' = IF status = "open" /\ past THEN "historical" ELSE status
    /\ UNCHANGED <<world, past, filed, scan, process, downs>>

\* The collector, or with it the machine, goes down.
Down(reboot) ==
    /\ Others
    /\ downs < MaxDowns
    /\ downs' = downs + 1
    /\ running' = FALSE
    /\ count' = 0 /\ seen' = FALSE /\ previous' = Unknown /\ sampled' = FALSE
    /\ past' = (past \/ reboot)
    /\ world' = IF reboot /\ kind = "counter" THEN 0 ELSE world
    /\ UNCHANGED <<status, filed, scan>>

UserResolves ==
    /\ Others
    /\ status = "open"
    /\ status' = "resolved"
    /\ UNCHANGED <<world, past, filed, scan, running, process, downs>>

ClearHistory ==
    /\ Others
    /\ status' = "none" /\ past' = FALSE /\ filed' = {}
    /\ UNCHANGED <<world, scan, running, process, downs>>

Observe == SampleMetric \/ SampleCounter \/ ScanUnit \/ ScanCrashes \/ ScanSmart

Next ==
    \/ Observe \/ NoSample \/ ScanUnitError \/ ScanUnitFails
    \/ ScanCrashesFallback \/ ScanInventory \/ ScanFails
    \/ Change \/ Roll \/ Launch \/ UserResolves \/ ClearHistory
    \/ \E reboot \in BOOLEAN : Down(reboot)

Spec == Init /\ [][Next]_vars

\* systemd starts the collector again, its loop comes round, commands work
\* now and then, and time passes.
FairSpec == Spec /\ WF_vars(Launch) /\ WF_vars(Observe) /\ WF_vars(Roll)

-----------------------------------------------------------------------------
(* Properties.                                                             *)

\* A successful observation that the condition does not hold leaves no open
\* incident behind, not even one that an earlier process opened; counters and
\* drives have no such observation.
ClearedIsClosed ==
    observed = "clear" /\ kind # "drive" => status # "open"

\* A condition that persists is shown as open again and again, whatever
\* resolved its incident before: the user, a relapse within one bucket, a
\* restart, a failed observation.
PersistentIsOpen ==
    <>[](world = 1 /\ kind \in Bucketed \ {"counter"}) => []<>(status = "open")

\* A condition that is gone for good does not stay open.
GoneIsClosed ==
    <>[](world = 0 /\ kind \in Metrics \cup Crashes \cup {"unit"}) => <>[](status # "open")

\* A scan that is recorded as failed resolves nothing.
FailedScanResolvesNothing ==
    [][observed' = "blind" /\ scan' = "error" => status' = status]_vars

\* collector.py: never resolve a real failure after an unsuccessful
\* observation (of the failed units).
NeverResolvedBlindly ==
    [][kind = "unit" /\ observed' = "blind" => status' = status]_vars
=============================================================================
