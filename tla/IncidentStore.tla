--------------------------- MODULE IncidentStore ---------------------------
(***************************************************************************)
(* The incident tables of the database and everyone who writes them: the   *)
(* collector's launch sequence, its probes (main thread), its journal      *)
(* follower, the hourly pruning and the user's actions in the window       *)
(* (app/pcdiag_engine.py, app/pcdiag_collector.py).                        *)
(*                                                                         *)
(* An incident is a fingerprint; evidence is a record (its cursor), stored *)
(* with the incident and the boot it was filed under; a forensic case is   *)
(* the set of instants its window covers, per incident and boot.  A step   *)
(* is one committed transaction.  The collector's main thread performs     *)
(* the steps of its launch and of a probe in order, and everything else    *)
(* may happen between two of them.                                         *)
(***************************************************************************)
EXTENDS Integers, Functions

CONSTANTS
    Fingerprint,  \* incidents' fingerprints
    Top,          \* those whose rule is in TOP_CRITICAL_RULE_IDS or Hardware
    Forensic,     \* those whose rule is in FORENSIC_RULE_IDS
    Snapshot,     \* kernel-crash-artifact: the crash scan overrides its status
    Usb,          \* usb-disconnect and usb-protocol
    Xhci,         \* xhci-resume
    Record,       \* the observations that may be filed as evidence:
                  \*   [of, at, severity, by: journal or probe, fatal: the
                  \*    message alone matches a top-critical rule]
    NoRecord,
    MaxTime,      \* bound: the last instant
    BootAt,       \* the boot that runs at each instant
    Retention,    \* FORENSIC_RETENTION_DAYS
    Before, After,         \* a case's 30 minutes before, 10 minutes after
    UsbBefore, UsbAfter,   \* the 30 s and 5 s around an xHCI failure
    DumpSlack,    \* 5 minutes before boot within which a dump is not historical
    MaxCrashes    \* bound: collector crashes

Instant  == 0..(MaxTime + After)
Severity == {"Activity", "Notice", "Warning", "Error", "Critical"}
Rank     == [Activity |-> 0, Notice |-> 1, Warning |-> 2, Error |-> 3, Critical |-> 4]

ASSUME StoreAssumption ==
    /\ Xhci \in Fingerprint
    /\ NoRecord \notin Record
    /\ Record \subseteq [of: Fingerprint, at: 1..MaxTime, severity: Severity,
                         by: {"journal", "probe"}, fatal: BOOLEAN]
    /\ MaxTime \in Nat \ {0}
    /\ BootAt \in [1..MaxTime -> Nat]
    /\ \A s, t \in 1..MaxTime : s <= t => BootAt[s] <= BootAt[t]
    /\ \A k \in {Retention, Before, After, UsbBefore, UsbAfter, DumpSlack, MaxCrashes} :
            k \in Nat

VARIABLES
    now,        \* the wall clock
    incidents,  \* fingerprint -> row of incidents
    evidence,   \* record -> the incident and the boot it is filed under
    cases,      \* <<fingerprint, boot>> -> instants the case's window covers
    main,       \* where the collector's main thread is
    current,    \* the record its probe is handling
    crashes     \* collector crashes so far

tables == <<incidents, evidence, cases>>
vars   == <<now, tables, main, current, crashes>>

Boot == BootAt[now]

Launching == {"promote", "reconcile", "history", "prune", "backfill"}
Probing   == {"case", "override"}

Row == [severity: Severity, first: 1..MaxTime, last: 1..MaxTime, boot: Nat, sample: Record,
        status: {"open", "resolved", "historical"}, acknowledged: BOOLEAN, promoted: BOOLEAN]

TypeOK ==
    /\ now \in 1..MaxTime
    /\ DOMAIN incidents \subseteq Fingerprint
    /\ incidents \in [DOMAIN incidents -> Row]
    /\ DOMAIN evidence \subseteq Record
    /\ evidence \in [DOMAIN evidence -> [of: Fingerprint, boot: Nat]]
    /\ DOMAIN cases \subseteq Fingerprint \X Nat
    /\ cases \in [DOMAIN cases -> SUBSET Instant]
    /\ main \in {"down", "running"} \cup Launching \cup Probing
    /\ current \in Record \cup {NoRecord}
    /\ crashes \in Nat

Init ==
    /\ now = 1
    /\ incidents = <<>>
    /\ evidence = <<>>
    /\ cases = <<>>
    /\ main = "down"
    /\ current = NoRecord
    /\ crashes = 0

-----------------------------------------------------------------------------
(* Filing a record: record_incident and record_forensic_case.              *)

\* Function f with v at k (an UPSERT or an INSERT of a keyed row).
With(f, k, v) == [x \in DOMAIN f \cup {k} |-> IF x = k THEN v ELSE f[x]]

Earlier(a, b) == IF a <= b THEN a ELSE b
Later(a, b)   == IF a >= b THEN a ELSE b

\* The severity record_incident stores for the record.
SeverityOf(r, f) == IF f \in Top THEN "Critical" ELSE r.severity

\* Faulty variant: the newest evidence sets the severity.
LatestSeverity(old, new) == new

\* The severity of an incident after more evidence: the CASE of the UPSERT.
MergedSeverity(old, new) ==
    IF \/ new = "Critical"
       \/ new = "Error" /\ old # "Critical"
       \/ new = "Warning" /\ old \in {"Activity", "Notice"}
    THEN new
    ELSE old

NewRow(r, f, boot) ==
    [severity |-> SeverityOf(r, f), first |-> r.at, last |-> r.at, boot |-> boot,
     sample |-> r, status |-> "open", acknowledged |-> FALSE, promoted |-> FALSE]

\* Faulty variant: any evidence reopens the incident.
ReopenedRow(row, r, f, boot) ==
    LET newer == r.at >= row.last
    IN  [row EXCEPT !.severity = MergedSeverity(@, SeverityOf(r, f)),
                    !.first = Earlier(@, r.at), !.last = Later(@, r.at),
                    !.boot = IF newer THEN boot ELSE @, !.sample = IF newer THEN r ELSE @,
                    !.status = "open", !.acknowledged = FALSE]

\* The row of a known incident after more evidence: only evidence at least as
\* new as the newest reopens it and clears its acknowledgement.
UpdatedRow(row, r, f, boot) ==
    LET merged == [row EXCEPT !.severity = MergedSeverity(@, SeverityOf(r, f)),
                              !.first = Earlier(@, r.at),
                              !.last = Later(@, r.at)]
    IN  IF r.at >= row.last
        THEN [merged EXCEPT !.boot = boot, !.sample = r,
                            !.status = "open", !.acknowledged = FALSE]
        ELSE merged

FileIncident(r, f, boot) ==
    /\ incidents' = With(incidents, f, IF f \in DOMAIN incidents
                                      THEN UpdatedRow(incidents[f], r, f, boot)
                                      ELSE NewRow(r, f, boot))
    /\ evidence' = With(evidence, r, [of |-> f, boot |-> boot])

IsForensic(f) == f \in Forensic \/ (f \in DOMAIN incidents /\ incidents[f].promoted)

Window(at) == Later(0, at - Before)..(at + After)

\* The one interval that spans a set of instants (window_start_us is the
\* least, window_end_us the greatest of the windows merged so far).
Hull(S) == {t \in Instant : \E a, b \in S : a <= t /\ t <= b}

CaseWindow(key) == IF key \in DOMAIN cases THEN cases[key] ELSE {}

\* Faulty variant: the window's start is not kept at zero or later.
FileUnclampedCase(f, boot, at) ==
    cases' = IF IsForensic(f)
             THEN With(cases, <<f, boot>>,
                       CaseWindow(<<f, boot>>) \cup (at - Before)..(at + After))
             ELSE cases

\* Faulty variant: the newest window replaces the earlier ones.
FileLatestCase(f, boot, at) ==
    cases' = IF IsForensic(f) THEN With(cases, <<f, boot>>, Window(at)) ELSE cases

FileCase(f, boot, at) ==
    cases' = IF IsForensic(f)
             THEN With(cases, <<f, boot>>, Hull(CaseWindow(<<f, boot>>) \cup Window(at)))
             ELSE cases

-----------------------------------------------------------------------------
(* The clock.  A reboot ends the collector.                                *)

Tick ==
    /\ now < MaxTime
    /\ now' = now + 1
    /\ IF BootAt[now + 1] = Boot
       THEN UNCHANGED <<main, current>>
       ELSE main' = "down" /\ current' = NoRecord
    /\ UNCHANGED <<tables, crashes>>

Crash ==
    /\ main # "down"
    /\ crashes < MaxCrashes
    /\ crashes' = crashes + 1
    /\ main' = "down"
    /\ current' = NoRecord
    /\ UNCHANGED <<now, tables>>

-----------------------------------------------------------------------------
(* Collector.initialize: one committed step after the other.               *)

MainStep(from, to) == main = from /\ main' = to /\ UNCHANGED <<now, current, crashes>>

Launch == MainStep("down", "promote") /\ UNCHANGED tables

\* promote_top_critical_incidents: rows of a top rule become Critical, rows
\* whose sample message alone matches one change rule as well.
PromoteTop ==
    /\ MainStep("promote", "reconcile")
    /\ incidents' = [f \in DOMAIN incidents |->
            IF f \in Top \/ incidents[f].promoted \/ incidents[f].sample.fatal
            THEN [incidents[f] EXCEPT !.severity = "Critical",
                                      !.promoted = @ \/ (f \notin Top /\ incidents[f].sample.fatal)]
            ELSE incidents[f]]
    /\ UNCHANGED <<evidence, cases>>

\* Evidence reconcile_forensic_cases finds for a case.
ForensicEvidence(f, boot) ==
    {r \in DOMAIN evidence : evidence[r] = [of |-> f, boot |-> boot] /\ IsForensic(f)}

CaseKeys == DOMAIN cases \cup
            {<<evidence[r].of, evidence[r].boot>> :
                r \in {e \in DOMAIN evidence : IsForensic(evidence[e].of)}}

\* Faulty variant: only evidence without a case gets one.
ReconcileMissing ==
    /\ MainStep("reconcile", "history")
    /\ cases' = [key \in CaseKeys |->
            IF key \in DOMAIN cases THEN cases[key]
            ELSE Hull(UNION {Window(r.at) : r \in ForensicEvidence(key[1], key[2])})]
    /\ UNCHANGED <<incidents, evidence>>

Reconcile ==
    /\ MainStep("reconcile", "history")
    /\ cases' = [key \in CaseKeys |->
            Hull(CaseWindow(key) \cup
                 UNION {Window(r.at) : r \in ForensicEvidence(key[1], key[2])})]
    /\ UNCHANGED <<incidents, evidence>>

\* Faulty variant: a launch marks every open incident historical.
MarkAllHistorical ==
    /\ MainStep("history", "prune")
    /\ incidents' = [f \in DOMAIN incidents |->
            IF incidents[f].status = "open"
            THEN [incidents[f] EXCEPT !.status = "historical"]
            ELSE incidents[f]]
    /\ UNCHANGED <<evidence, cases>>

MarkHistorical ==
    /\ MainStep("history", "prune")
    /\ incidents' = [f \in DOMAIN incidents |->
            IF incidents[f].status = "open" /\ incidents[f].boot # Boot
            THEN [incidents[f] EXCEPT !.status = "historical"]
            ELSE incidents[f]]
    /\ UNCHANGED <<evidence, cases>>

\* Faulty variant: evidence is dropped one instant earlier than incidents.
PruneInclusive ==
    LET cutoff == now - Retention
        keep   == {f \in DOMAIN incidents : incidents[f].last >= cutoff}
    IN  /\ incidents' = Restrict(incidents, keep)
        /\ evidence' = Restrict(evidence, {r \in DOMAIN evidence :
                                            r.at > cutoff /\ evidence[r].of \in keep})
        /\ cases' = Restrict(cases, {key \in DOMAIN cases : key[1] \in keep})

\* prune_v2.  Deleting an incident deletes its evidence and its cases.
Prune ==
    LET cutoff == now - Retention
        keep   == {f \in DOMAIN incidents : incidents[f].last >= cutoff}
    IN  /\ incidents' = Restrict(incidents, keep)
        /\ evidence' = Restrict(evidence, {r \in DOMAIN evidence :
                                            r.at >= cutoff /\ evidence[r].of \in keep})
        /\ cases' = Restrict(cases, {key \in DOMAIN cases : key[1] \in keep})

PruneAtLaunch == MainStep("prune", "backfill") /\ Prune

BackfillDone == MainStep("backfill", "running") /\ UNCHANGED tables

HourlyPrune == MainStep("running", "running") /\ Prune

-----------------------------------------------------------------------------
(* Journal evidence: filed by the backfill, then by the follower thread,   *)
(* an incident and its case in one transaction.  Rotation and replays make *)
(* any order of arrival possible.                                          *)

\* A USB consequence close to an xHCI failure of its boot joins that incident.
NearXhci(r) ==
    /\ Xhci \in DOMAIN incidents
    /\ incidents[Xhci].boot = BootAt[r.at]
    /\ incidents[Xhci].last \in (r.at - UsbBefore)..(r.at + UsbAfter)

FingerprintOf(r) == IF r.of \in Usb /\ NearXhci(r) THEN Xhci ELSE r.of

Ingest(r) ==
    /\ main \in {"backfill", "running"} \cup Probing
    /\ r.by = "journal"
    /\ r.at <= now
    /\ r \notin DOMAIN evidence
    /\ FileIncident(r, FingerprintOf(r), BootAt[r.at])
    /\ FileCase(FingerprintOf(r), BootAt[r.at], r.at)
    /\ UNCHANGED <<now, main, current, crashes>>

-----------------------------------------------------------------------------
(* A probe's observation (synthetic_issue): its incident is committed      *)
(* first, its case in a transaction of its own, and the crash scan then    *)
(* sets the status of its snapshot incident.                               *)

\* The crash scan's dump predates this boot, with some slack.
IsHistorical(r) == \A t \in 1..MaxTime : BootAt[t] = Boot => r.at + DumpSlack < t

AfterCase(r) == IF r.of \in Snapshot THEN "override" ELSE "running"

Probe(r) ==
    /\ main = "running"
    /\ r.by = "probe"
    /\ IF r.of \in Snapshot THEN r.at <= now ELSE r.at = now
    /\ IF r \in DOMAIN evidence
       THEN UNCHANGED <<incidents, evidence>>
       ELSE FileIncident(r, r.of, Boot)
    /\ main' = IF r \in DOMAIN evidence \/ (r.of \in Snapshot /\ IsHistorical(r))
               THEN AfterCase(r)
               ELSE "case"
    /\ current' = IF main' = "running" THEN NoRecord ELSE r
    /\ UNCHANGED <<now, cases, crashes>>

\* A cleanup may have deleted the incident in between: then there is no case.
RecordCase ==
    /\ main = "case"
    /\ IF current \in DOMAIN evidence
       THEN FileCase(current.of, Boot, current.at)
       ELSE UNCHANGED cases
    /\ main' = AfterCase(current)
    /\ current' = IF main' = "running" THEN NoRecord ELSE current
    /\ UNCHANGED <<now, incidents, evidence, crashes>>

OverrideStatus ==
    /\ main = "override"
    /\ incidents' = [f \in DOMAIN incidents |->
            IF f = current.of
            THEN [incidents[f] EXCEPT !.status =
                    IF IsHistorical(current) THEN "historical" ELSE "open"]
            ELSE incidents[f]]
    /\ main' = "running"
    /\ current' = NoRecord
    /\ UNCHANGED <<now, evidence, cases, crashes>>

-----------------------------------------------------------------------------
(* Status changes that bring no evidence.                                  *)

UpdateOpen(f, row) ==
    /\ f \in DOMAIN incidents
    /\ incidents[f].status = "open"
    /\ incidents' = [incidents EXCEPT ![f] = row]
    /\ UNCHANGED <<now, evidence, cases, main, current, crashes>>

\* resolve_incident: the probe's measured condition has cleared.
MeasuredCleared(f) ==
    /\ main = "running"
    /\ \E r \in Record : r.by = "probe" /\ r.of = f
    /\ UpdateOpen(f, [incidents[f] EXCEPT !.status = "resolved"])

\* acknowledge_incident and resolve_incident_id, from the window.
Acknowledge(f, acknowledged) ==
    UpdateOpen(f, [incidents[f] EXCEPT !.acknowledged = acknowledged])

ResolveIncident(f) ==
    UpdateOpen(f, [incidents[f] EXCEPT !.status = "resolved", !.acknowledged = FALSE])

\* clear_retained_data with "incidents"; deleted incidents take their cases
\* with them.
ClearHistory ==
    /\ incidents' = <<>>
    /\ evidence' = <<>>
    /\ cases' = <<>>
    /\ UNCHANGED <<now, main, current, crashes>>

-----------------------------------------------------------------------------
CollectorNext ==
    \/ Launch \/ PromoteTop \/ Reconcile \/ MarkHistorical \/ PruneAtLaunch
    \/ BackfillDone \/ HourlyPrune \/ RecordCase \/ OverrideStatus
    \/ \E r \in Record : Ingest(r) \/ Probe(r)
    \/ \E f \in Fingerprint : MeasuredCleared(f)

UserNext ==
    \/ \E f \in Fingerprint :
            ResolveIncident(f) \/ \E b \in BOOLEAN : Acknowledge(f, b)
    \/ ClearHistory

Next == Tick \/ Crash \/ CollectorNext \/ UserNext

Spec == Init /\ [][Next]_vars

\* systemd restarts the collector, its main thread runs its launch sequence
\* to the end and finishes the probe it has begun.
Fairness ==
    WF_vars(Launch \/ PromoteTop \/ Reconcile \/ MarkHistorical
            \/ PruneAtLaunch \/ BackfillDone \/ RecordCase \/ OverrideStatus)

FairSpec == Spec /\ Fairness

-----------------------------------------------------------------------------
(* Properties.                                                             *)

\* The aggregates of an incident agree with its evidence, whatever order the
\* evidence arrived in and whatever was pruned since: all of it lies between
\* first_us and last_us, and the row shows the time, the boot and the message
\* of a record that is still retained and is the newest one.
EvidenceAccounted ==
    /\ \A r \in DOMAIN evidence :
        /\ evidence[r].of \in DOMAIN incidents
        /\ incidents[evidence[r].of].first <= r.at
        /\ r.at <= incidents[evidence[r].of].last
    /\ \A f \in DOMAIN incidents :
        LET row == incidents[f] IN
        /\ row.sample \in DOMAIN evidence
        /\ evidence[row.sample] = [of |-> f, boot |-> row.boot]
        /\ row.sample.at = row.last

\* An incident is at least as severe as the worst warning, error or critical
\* evidence retained for it, in every order of arrival and after promotion.
SeverityCovers ==
    \A r \in DOMAIN evidence :
        LET f == evidence[r].of IN
        Rank[SeverityOf(r, f)] >= Rank["Warning"]
            => Rank[incidents[f].severity] >= Rank[SeverityOf(r, f)]

\* An incident the launch marked historical has no evidence of the running
\* boot (the crash scan sets the status of its snapshot incident itself).
HistoricalIsPast ==
    \A f \in DOMAIN incidents \ Snapshot :
        incidents[f].status = "historical" => incidents[f].boot < Boot

Covered(r) ==
    LET key == <<evidence[r].of, evidence[r].boot>> IN
    key \in DOMAIN cases /\ Window(r.at) \subseteq cases[key]

\* Once a launch has reconciled, every retained record of a forensic incident
\* lies in the window of a case of its incident and boot, whatever a crash or
\* a promotion left behind; the exceptions are the record whose probe is
\* between its two transactions, and dumps the crash scan called historical.
\* The journal's forensic records have their case at all times.
CasesCoverEvidence ==
    \A r \in DOMAIN evidence :
        /\ r.by = "journal" /\ evidence[r].of \in Forensic => Covered(r)
        /\ /\ main \notin {"down", "promote", "reconcile"}
           /\ IsForensic(evidence[r].of)
           => Covered(r) \/ (main = "case" /\ r = current) \/ r.of \in Snapshot

NewEvidence(f) == {r \in DOMAIN evidence' \ DOMAIN evidence : evidence'[r].of = f}

\* Whether a step treats f as ARCHITECTURE.md says: evidence at least as new
\* as the newest reopens the incident and clears its acknowledgement, older
\* evidence changes neither, and nothing else reopens an incident.
EvidenceDecides(f) ==
    LET old == incidents[f]
        new == incidents'[f]
    IN  /\ \A r \in NewEvidence(f) :
            IF r.at >= old.last
            THEN new.status = "open" /\ ~new.acknowledged
            ELSE new.status = old.status /\ new.acknowledged = old.acknowledged
        /\ NewEvidence(f) = {} /\ new.status = "open" => old.status = "open"

\* A late replay of old evidence never reopens what the user has settled, and
\* new evidence always does; for every incident but the crash scan's snapshot.
NewestEvidenceDecides ==
    [][\A f \in (DOMAIN incidents \cap DOMAIN incidents') \ Snapshot : EvidenceDecides(f)]_vars

\* A retained record of a forensic incident eventually has a case, even when
\* the collector crashes between the record and the case; except for the crash
\* scan's snapshot, whose old dumps get one only from a later launch.
FaultsGetCases ==
    \A r \in Record :
        (r \in DOMAIN evidence /\ evidence[r].of \in Forensic \ Snapshot)
            ~> (r \in DOMAIN evidence => Covered(r))
=============================================================================
