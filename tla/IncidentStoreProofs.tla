------------------------ MODULE IncidentStoreProofs ------------------------
(***************************************************************************)
(* Proofs about IncidentStore: its types, the agreement of incidents with  *)
(* their evidence and the windows of the forensic cases, for every set of  *)
(* records, every sequence of boots and every retention period.            *)
(***************************************************************************)
EXTENDS IncidentStore, TLAPS

-----------------------------------------------------------------------------
(* Operators.                                                              *)

\* The parts of the assumption the proofs use.
LEMMA Constants ==
    /\ MaxTime \in Nat \ {0}
    /\ Before \in Nat /\ After \in Nat /\ Retention \in Nat
    /\ UsbBefore \in Nat /\ UsbAfter \in Nat
    /\ Xhci \in Fingerprint
    /\ NoRecord \notin Record
    /\ \A t \in 1..MaxTime : BootAt[t] \in Nat
    /\ \A s, t \in 1..MaxTime : s <= t => BootAt[s] <= BootAt[t]
BY StoreAssumption

\* What a record is.
LEMMA RecordFields ==
    ASSUME NEW r \in Record
    PROVE  /\ r.of \in Fingerprint
           /\ r.at \in 1..MaxTime
           /\ r.severity \in Severity
           /\ r.by \in {"journal", "probe"}
BY StoreAssumption

\* An UPSERT touches one key.
LEMMA WithEffect ==
    ASSUME NEW f, NEW k, NEW v
    PROVE  /\ DOMAIN With(f, k, v) = DOMAIN f \cup {k}
           /\ With(f, k, v)[k] = v
           /\ \A x \in DOMAIN f : x # k => With(f, k, v)[x] = f[x]
BY DEF With

\* An UPSERT of a well-typed row keeps the table well typed.
LEMMA WithType ==
    ASSUME NEW T, NEW f, f \in [DOMAIN f -> T], NEW k, NEW v \in T
    PROVE  With(f, k, v) \in [DOMAIN With(f, k, v) -> T]
BY DEF With

\* Deleting rows keeps the others.
LEMMA RestrictEffect ==
    ASSUME NEW f, NEW S
    PROVE  /\ DOMAIN Restrict(f, S) = S
           /\ \A x \in S : Restrict(f, S)[x] = f[x]
BY DEF Restrict

\* A table from which rows were deleted is well typed.
LEMMA RestrictType ==
    ASSUME NEW T, NEW f, f \in [DOMAIN f -> T], NEW S \in SUBSET DOMAIN f
    PROVE  Restrict(f, S) \in [DOMAIN Restrict(f, S) -> T]
BY DEF Restrict

\* The window around a record is a set of instants.
LEMMA WindowType ==
    ASSUME NEW at \in 1..MaxTime
    PROVE  Window(at) \subseteq Instant
BY Constants DEF Window, Instant, Later

\* A merged window covers what it merges.
LEMMA HullCovers ==
    ASSUME NEW S \in SUBSET Instant
    PROVE  /\ S \subseteq Hull(S)
           /\ Hull(S) \in SUBSET Instant
<1>1. \A t \in S : t \in Instant /\ t <= t
  BY Constants DEF Instant
<1> QED
  BY <1>1 DEF Hull

\* What is known of an incident's first row.
IsNewRow(new, r, f, boot) ==
    /\ new \in Row
    /\ new.severity = SeverityOf(r, f)
    /\ new.first = r.at /\ new.last = r.at
    /\ new.boot = boot /\ new.sample = r
    /\ new.status = "open" /\ new.promoted = FALSE

\* The fields of an incident's first row.
LEMMA NewRowFields ==
    ASSUME NEW r \in Record, NEW f \in Fingerprint, NEW boot \in Nat
    PROVE  IsNewRow(NewRow(r, f, boot), r, f, boot)
<1>1. SeverityOf(r, f) \in Severity
  BY RecordFields DEF SeverityOf, Severity
<1> QED
  BY <1>1, RecordFields DEF NewRow, Row, IsNewRow

\* A merged severity is a severity, no lower than the old one and, from
\* warnings upwards, than the new one.
LEMMA MergedSeverityBounds ==
    ASSUME NEW old \in Severity, NEW new \in Severity
    PROVE  /\ MergedSeverity(old, new) \in Severity
           /\ Rank[MergedSeverity(old, new)] >= Rank[old]
           /\ Rank[new] >= Rank["Warning"] => Rank[MergedSeverity(old, new)] >= Rank[new]
BY DEF MergedSeverity, Severity, Rank

\* What is known of an incident's row after more evidence.
IsUpdatedRow(new, row, r, f, boot) ==
    /\ new \in Row
    /\ new.severity = MergedSeverity(row.severity, SeverityOf(r, f))
    /\ new.first <= row.first /\ new.first <= r.at
    /\ row.last <= new.last /\ r.at <= new.last
    /\ new.promoted = row.promoted
    /\ r.at >= row.last =>
        /\ new.last = r.at /\ new.boot = boot /\ new.sample = r
        /\ new.status = "open" /\ new.acknowledged = FALSE
    /\ ~(r.at >= row.last) =>
        /\ new.last = row.last /\ new.boot = row.boot /\ new.sample = row.sample
        /\ new.status = row.status /\ new.acknowledged = row.acknowledged

\* The fields of an incident's row after more evidence.
LEMMA UpdatedRowFields ==
    ASSUME NEW row \in Row, NEW r \in Record, NEW f \in Fingerprint, NEW boot \in Nat
    PROVE  IsUpdatedRow(UpdatedRow(row, r, f, boot), row, r, f, boot)
<1> DEFINE sev == MergedSeverity(row.severity, SeverityOf(r, f))
           merged == [row EXCEPT !.severity = sev,
                                 !.first = Earlier(row.first, r.at),
                                 !.last = Later(row.last, r.at)]
<1>1. SeverityOf(r, f) \in Severity
  BY RecordFields DEF SeverityOf, Severity
<1>2. sev \in Severity
  BY <1>1, MergedSeverityBounds DEF Row
<1>3. /\ r.at \in 1..MaxTime /\ row.first \in 1..MaxTime /\ row.last \in 1..MaxTime
      /\ 1..MaxTime \subseteq Int
  BY RecordFields, Constants DEF Row
<1>4. /\ Earlier(row.first, r.at) \in 1..MaxTime
      /\ Earlier(row.first, r.at) <= row.first
      /\ Earlier(row.first, r.at) <= r.at
  BY <1>3 DEF Earlier
<1>5. /\ Later(row.last, r.at) \in 1..MaxTime
      /\ row.last <= Later(row.last, r.at)
      /\ r.at <= Later(row.last, r.at)
      /\ r.at >= row.last => Later(row.last, r.at) = r.at
      /\ ~(r.at >= row.last) => Later(row.last, r.at) = row.last
  BY <1>3 DEF Later
<1> DEFINE new == UpdatedRow(row, r, f, boot)
<1>6. new =
        IF r.at >= row.last
        THEN [merged EXCEPT !.boot = boot, !.sample = r,
                            !.status = "open", !.acknowledged = FALSE]
        ELSE merged
  BY DEF UpdatedRow
<1> HIDE DEF sev, new
<1>7. CASE r.at >= row.last
  BY <1>2, <1>4, <1>5, <1>6, <1>7 DEF Row, sev, new, IsUpdatedRow
<1>8. CASE ~(r.at >= row.last)
  BY <1>2, <1>4, <1>5, <1>6, <1>8 DEF Row, sev, new, IsUpdatedRow
<1> QED
  BY <1>7, <1>8

-----------------------------------------------------------------------------
(* Types.                                                                  *)

\* What filing a record does: it adds or updates one incident and one piece of
\* evidence.
Filed(r, f, boot) ==
    /\ DOMAIN incidents' = DOMAIN incidents \cup {f}
    /\ incidents'[f] = IF f \in DOMAIN incidents
                       THEN UpdatedRow(incidents[f], r, f, boot)
                       ELSE NewRow(r, f, boot)
    /\ incidents'[f] \in Row
    /\ \A g \in DOMAIN incidents : g # f => incidents'[g] = incidents[g]
    /\ incidents' \in [DOMAIN incidents' -> Row]
    /\ DOMAIN evidence' = DOMAIN evidence \cup {r}
    /\ evidence'[r] = [of |-> f, boot |-> boot]
    /\ \A e \in DOMAIN evidence : e # r => evidence'[e] = evidence[e]
    /\ evidence' \in [DOMAIN evidence' -> [of: Fingerprint, boot: Nat]]

\* Filing a record does that.
LEMMA FileIncidentEffect ==
    ASSUME TypeOK, NEW r \in Record, NEW f \in Fingerprint, NEW boot \in Nat,
           FileIncident(r, f, boot)
    PROVE  Filed(r, f, boot)
<1> DEFINE row == IF f \in DOMAIN incidents
                  THEN UpdatedRow(incidents[f], r, f, boot)
                  ELSE NewRow(r, f, boot)
<1>1. row \in Row
  <2>1. CASE f \in DOMAIN incidents
    <3>1. incidents[f] \in Row
      BY <2>1 DEF TypeOK
    <3> QED
      BY <2>1, <3>1, UpdatedRowFields DEF IsUpdatedRow
  <2>2. CASE f \notin DOMAIN incidents
    BY <2>2, NewRowFields DEF IsNewRow
  <2> QED
    BY <2>1, <2>2
<1>2. incidents' = With(incidents, f, row)
  BY DEF FileIncident
<1>3. evidence' = With(evidence, r, [of |-> f, boot |-> boot])
  BY DEF FileIncident
<1>4. [of |-> f, boot |-> boot] \in [of: Fingerprint, boot: Nat]
  OBVIOUS
<1> HIDE DEF row
<1>5. /\ DOMAIN incidents' = DOMAIN incidents \cup {f}
      /\ incidents'[f] = row
      /\ \A g \in DOMAIN incidents : g # f => incidents'[g] = incidents[g]
  BY <1>2 DEF With
<1>6. incidents' \in [DOMAIN incidents' -> Row]
  BY <1>1, <1>2, WithType DEF TypeOK
<1>7. /\ DOMAIN evidence' = DOMAIN evidence \cup {r}
      /\ evidence'[r] = [of |-> f, boot |-> boot]
      /\ \A e \in DOMAIN evidence : e # r => evidence'[e] = evidence[e]
  BY <1>3 DEF With
<1>8. evidence' \in [DOMAIN evidence' -> [of: Fingerprint, boot: Nat]]
  BY <1>3, <1>4, WithType DEF TypeOK
<1> QED
  BY <1>1, <1>5, <1>6, <1>7, <1>8 DEF row, Filed

\* Filing a case changes at most the window of one case, which then covers
\* what it covered before and the window of the record.
LEMMA FileCaseEffect ==
    ASSUME TypeOK, NEW f \in Fingerprint, NEW boot \in Nat, NEW at \in 1..MaxTime,
           FileCase(f, boot, at)
    PROVE  /\ DOMAIN cases' \subseteq Fingerprint \X Nat
           /\ cases' \in [DOMAIN cases' -> SUBSET Instant]
           /\ DOMAIN cases \subseteq DOMAIN cases'
           /\ \A key \in DOMAIN cases : cases[key] \subseteq cases'[key]
           /\ IsForensic(f) => /\ <<f, boot>> \in DOMAIN cases'
                               /\ Window(at) \subseteq cases'[<<f, boot>>]
<1>1. CASE ~IsForensic(f)
  BY <1>1 DEF FileCase, TypeOK
<1>2. CASE IsForensic(f)
  <2> DEFINE key == <<f, boot>>
             merged == CaseWindow(key) \cup Window(at)
  <2>1. key \in Fingerprint \X Nat
    OBVIOUS
  <2>2. merged \in SUBSET Instant
    BY WindowType DEF TypeOK, CaseWindow
  <2>3. Hull(merged) \in SUBSET Instant /\ merged \subseteq Hull(merged)
    BY <2>2, HullCovers
  <2>4. cases' = With(cases, key, Hull(merged))
    BY <1>2 DEF FileCase
  <2>5. key \in DOMAIN cases => cases[key] \subseteq merged
    BY DEF CaseWindow
  <2> HIDE DEF merged
  <2>6. cases' \in [DOMAIN cases' -> SUBSET Instant]
    BY <2>3, <2>4, WithType DEF TypeOK
  <2>7. /\ DOMAIN cases' = DOMAIN cases \cup {key}
        /\ cases'[key] = Hull(merged)
        /\ \A k \in DOMAIN cases : k # key => cases'[k] = cases[k]
    BY <2>4 DEF With
  <2>8. Window(at) \subseteq merged
    BY DEF merged
  <2> HIDE DEF key
  <2>9. \A k \in DOMAIN cases : cases[k] \subseteq cases'[k]
    BY <2>3, <2>5, <2>7
  <2> QED
    BY <2>1, <2>3, <2>6, <2>7, <2>8, <2>9 DEF TypeOK, key
<1> QED
  BY <1>1, <1>2

\* Pruning deletes incidents, and with them their evidence and their cases.
LEMMA PruneEffect ==
    ASSUME TypeOK, Prune
    PROVE  /\ DOMAIN incidents' \subseteq DOMAIN incidents
           /\ \A f \in DOMAIN incidents :
                f \in DOMAIN incidents' <=> incidents[f].last >= now - Retention
           /\ \A f \in DOMAIN incidents' : incidents'[f] = incidents[f]
           /\ incidents' \in [DOMAIN incidents' -> Row]
           /\ DOMAIN evidence' \subseteq DOMAIN evidence
           /\ \A r \in DOMAIN evidence :
                r \in DOMAIN evidence' <=> /\ r.at >= now - Retention
                                           /\ evidence[r].of \in DOMAIN incidents'
           /\ \A r \in DOMAIN evidence' : evidence'[r] = evidence[r]
           /\ evidence' \in [DOMAIN evidence' -> [of: Fingerprint, boot: Nat]]
           /\ DOMAIN cases' \subseteq DOMAIN cases
           /\ \A key \in DOMAIN cases :
                key \in DOMAIN cases' <=> key[1] \in DOMAIN incidents'
           /\ \A key \in DOMAIN cases' : cases'[key] = cases[key]
           /\ cases' \in [DOMAIN cases' -> SUBSET Instant]
<1> DEFINE cutoff == now - Retention
           keep == {f \in DOMAIN incidents : incidents[f].last >= cutoff}
           rows == {r \in DOMAIN evidence : r.at >= cutoff /\ evidence[r].of \in keep}
           keys == {key \in DOMAIN cases : key[1] \in keep}
<1>1. /\ incidents' = Restrict(incidents, keep)
      /\ evidence' = Restrict(evidence, rows)
      /\ cases' = Restrict(cases, keys)
  BY DEF Prune
<1>2. /\ DOMAIN incidents' = keep /\ DOMAIN evidence' = rows /\ DOMAIN cases' = keys
      /\ \A f \in keep : incidents'[f] = incidents[f]
      /\ \A r \in rows : evidence'[r] = evidence[r]
      /\ \A key \in keys : cases'[key] = cases[key]
  BY <1>1, RestrictEffect
<1>3. incidents' \in [DOMAIN incidents' -> Row]
  BY <1>2 DEF TypeOK, Prune, Restrict
<1>4. evidence' \in [DOMAIN evidence' -> [of: Fingerprint, boot: Nat]]
  BY <1>2 DEF TypeOK, Prune, Restrict
<1>5. cases' \in [DOMAIN cases' -> SUBSET Instant]
  BY <1>2 DEF TypeOK, Prune, Restrict
<1> QED
  BY <1>2, <1>3, <1>4, <1>5

\* The boot a known instant belongs to is a number.
LEMMA BootType == ASSUME TypeOK PROVE Boot \in Nat
BY Constants DEF TypeOK, Boot

\* The fingerprint a journal record is filed under.
LEMMA FingerprintType == ASSUME NEW r \in Record PROVE FingerprintOf(r) \in Fingerprint
BY RecordFields, Constants DEF FingerprintOf

\* The probe's steps carry the record it handles from one to the next: a
\* snapshot to the override of its status, and a filed record, unless a
\* cleanup deleted it, to its case.
ProbeInv ==
    /\ main \in Probing => current \in Record /\ current.by = "probe"
    /\ main = "override" => current.of \in Snapshot
    /\ main = "case" /\ current \in DOMAIN evidence =>
            evidence[current] = [of |-> current.of, boot |-> Boot]

TypedInv == TypeOK /\ ProbeInv

\* Every step preserves the types and what the probe's steps rely on.
LEMMA TypeStep == TypedInv /\ [Next]_vars => TypedInv'
<1> SUFFICES ASSUME TypedInv, [Next]_vars PROVE TypedInv'
  OBVIOUS
<1> USE DEF TypedInv
<1>t. TypeOK /\ ProbeInv
  OBVIOUS
<1>b. Boot \in Nat
  BY BootType
<1>1. CASE UNCHANGED vars
  BY <1>1 DEF vars, tables, TypeOK, ProbeInv, Boot
<1>2. CASE Tick
  <2>1. now' \in 1..MaxTime
    BY <1>2, Constants DEF Tick, TypeOK
  <2>2. CASE BootAt[now + 1] = Boot
    <3>1. Boot' = Boot /\ UNCHANGED <<tables, main, current>>
      BY <1>2, <2>2 DEF Tick, Boot
    <3> QED
      BY <1>2, <2>1, <3>1 DEF Tick, tables, TypeOK, ProbeInv
  <2>3. CASE BootAt[now + 1] # Boot
    BY <1>2, <2>1, <2>3 DEF Tick, tables, TypeOK, ProbeInv, Probing
  <2> QED
    BY <2>2, <2>3
<1>3. CASE Crash
  BY <1>3 DEF Crash, tables, TypeOK, ProbeInv, Probing
<1>4. CASE Launch \/ BackfillDone
  BY <1>4 DEF Launch, BackfillDone, MainStep, tables, TypeOK, ProbeInv, Probing, Launching
<1>5. CASE PromoteTop
  <2>1. /\ DOMAIN incidents' = DOMAIN incidents
        /\ UNCHANGED <<now, evidence, cases, current, crashes>>
        /\ main' = "reconcile"
    BY <1>5 DEF PromoteTop, MainStep
  <2>2. incidents' \in [DOMAIN incidents' -> Row]
    <3> SUFFICES ASSUME NEW f \in DOMAIN incidents
                 PROVE  incidents'[f] \in Row
      BY <1>5, <2>1 DEF PromoteTop
    <3>1. /\ incidents[f] \in Row /\ "Critical" \in Severity
          /\ (incidents[f].promoted \/ (f \notin Top /\ incidents[f].sample.fatal)) \in BOOLEAN
      BY DEF TypeOK, Severity, Row
    <3>2. incidents'[f] =
            IF f \in Top \/ incidents[f].promoted \/ incidents[f].sample.fatal
            THEN [incidents[f] EXCEPT !.severity = "Critical",
                    !.promoted = incidents[f].promoted
                                    \/ (f \notin Top /\ incidents[f].sample.fatal)]
            ELSE incidents[f]
      BY <1>5 DEF PromoteTop
    <3> QED
      BY <3>1, <3>2 DEF Row
  <2> QED
    BY <2>1, <2>2 DEF TypeOK, ProbeInv, Probing, Launching
<1>6. CASE Reconcile
  <2>1. /\ DOMAIN cases' = CaseKeys
        /\ UNCHANGED <<now, incidents, evidence, current, crashes>>
        /\ main' = "history"
    BY <1>6 DEF Reconcile, MainStep
  <2>2. CaseKeys \subseteq Fingerprint \X Nat
    BY DEF CaseKeys, TypeOK
  <2>3. \A key \in CaseKeys : cases'[key] \in SUBSET Instant
    BY <1>6 DEF Reconcile, Hull
  <2>4. cases' \in [DOMAIN cases' -> SUBSET Instant]
    BY <1>6, <2>1, <2>3 DEF Reconcile
  <2> QED
    BY <2>1, <2>2, <2>4 DEF TypeOK, ProbeInv, Probing, Launching
<1>7. CASE MarkHistorical
  <2>1. /\ DOMAIN incidents' = DOMAIN incidents
        /\ UNCHANGED <<now, evidence, cases, current, crashes>>
        /\ main' = "prune"
    BY <1>7 DEF MarkHistorical, MainStep
  <2>2. incidents' \in [DOMAIN incidents' -> Row]
    BY <1>7 DEF MarkHistorical, TypeOK, Row
  <2> QED
    BY <2>1, <2>2 DEF TypeOK, ProbeInv, Probing, Launching
<1>8. CASE PruneAtLaunch \/ HourlyPrune
  <2>1. /\ Prune
        /\ UNCHANGED <<now, current, crashes>>
        /\ main' \in {"backfill", "running"}
    BY <1>8 DEF PruneAtLaunch, HourlyPrune, MainStep
  <2> QED
    BY <2>1, PruneEffect DEF TypeOK, ProbeInv, Probing, Launching
<1>9. ASSUME NEW r \in Record, Ingest(r) PROVE TypedInv'
  <2> DEFINE f == FingerprintOf(r)
  <2>1. f \in Fingerprint /\ BootAt[r.at] \in Nat /\ r.at \in 1..MaxTime
    BY FingerprintType, RecordFields, Constants
  <2>2. /\ FileIncident(r, f, BootAt[r.at])
        /\ FileCase(f, BootAt[r.at], r.at)
        /\ UNCHANGED <<now, main, current, crashes>>
        /\ r.by = "journal" /\ r \notin DOMAIN evidence
    BY <1>9 DEF Ingest
  <2> HIDE DEF f
  <2>3. TypeOK'
    <3>1. /\ DOMAIN incidents' \subseteq Fingerprint
          /\ incidents' \in [DOMAIN incidents' -> Row]
          /\ DOMAIN evidence' \subseteq Record
          /\ evidence' \in [DOMAIN evidence' -> [of: Fingerprint, boot: Nat]]
      <4>1. /\ DOMAIN incidents' = DOMAIN incidents \cup {f}
            /\ incidents' \in [DOMAIN incidents' -> Row]
            /\ DOMAIN evidence' = DOMAIN evidence \cup {r}
            /\ evidence' \in [DOMAIN evidence' -> [of: Fingerprint, boot: Nat]]
        <5>1. Filed(r, f, BootAt[r.at])
          BY <2>1, <2>2, FileIncidentEffect
        <5> QED
          BY <5>1 DEF Filed
      <4> QED
        BY <2>1, <4>1 DEF TypeOK
    <3>2. /\ DOMAIN cases' \subseteq Fingerprint \X Nat
          /\ cases' \in [DOMAIN cases' -> SUBSET Instant]
      BY <2>1, <2>2, FileCaseEffect
    <3> QED
      BY <2>2, <3>1, <3>2 DEF TypeOK
  <2>4. main \in Probing => current # r
    BY <2>2 DEF ProbeInv
  <2>5. /\ DOMAIN evidence' = DOMAIN evidence \cup {r}
        /\ \A e \in DOMAIN evidence : e # r => evidence'[e] = evidence[e]
    <3>1. Filed(r, f, BootAt[r.at])
      BY <2>1, <2>2, FileIncidentEffect
    <3> QED
      BY <3>1 DEF Filed
  <2>6. ProbeInv'
    BY <2>2, <2>4, <2>5 DEF ProbeInv, Probing, Boot
  <2> QED
    BY <2>3, <2>6
<1>10. ASSUME NEW r \in Record, Probe(r) PROVE TypedInv'
  <2>1. /\ UNCHANGED <<now, cases, crashes>>
        /\ r.by = "probe" /\ r.of \in Fingerprint
        /\ main' \in {"running", "case", "override"}
        /\ current' = IF main' = "running" THEN NoRecord ELSE r
        /\ main' = "override" => r.of \in Snapshot
        /\ main' = "case" => r \notin DOMAIN evidence
    BY <1>10, RecordFields DEF Probe, AfterCase
  <2>2. CASE r \in DOMAIN evidence
    <3>1. UNCHANGED <<incidents, evidence>>
      BY <1>10, <2>2 DEF Probe
    <3> QED
      BY <2>1, <2>2, <3>1 DEF TypeOK, ProbeInv, Probing, Boot
  <2>3. CASE r \notin DOMAIN evidence
    <3>1. FileIncident(r, r.of, Boot)
      BY <1>10, <2>3 DEF Probe
    <3>2. TypeOK'
      <4>1. /\ DOMAIN incidents' \subseteq Fingerprint
            /\ incidents' \in [DOMAIN incidents' -> Row]
            /\ DOMAIN evidence' \subseteq Record
            /\ evidence' \in [DOMAIN evidence' -> [of: Fingerprint, boot: Nat]]
        <5>1. /\ DOMAIN incidents' = DOMAIN incidents \cup {r.of}
              /\ incidents' \in [DOMAIN incidents' -> Row]
              /\ DOMAIN evidence' = DOMAIN evidence \cup {r}
              /\ evidence' \in [DOMAIN evidence' -> [of: Fingerprint, boot: Nat]]
          <6>1. Filed(r, r.of, Boot)
            BY <1>b, <2>1, <3>1, FileIncidentEffect
          <6> QED
            BY <6>1 DEF Filed
        <5> QED
          BY <2>1, <5>1 DEF TypeOK
      <4> QED
        BY <2>1, <4>1 DEF TypeOK, Probing
    <3>3. evidence'[r] = [of |-> r.of, boot |-> Boot]
      <4>1. Filed(r, r.of, Boot)
        BY <1>b, <2>1, <3>1, FileIncidentEffect
      <4> QED
        BY <4>1 DEF Filed
    <3>4. ProbeInv'
      BY <2>1, <3>3 DEF ProbeInv, Probing, Boot
    <3> QED
      BY <3>2, <3>4
  <2> QED
    BY <2>2, <2>3
<1>11. CASE RecordCase
  <2>1. /\ UNCHANGED <<now, incidents, evidence, crashes>>
        /\ main' = AfterCase(current)
        /\ current' = IF main' = "running" THEN NoRecord ELSE current
        /\ current \in Record
    BY <1>11 DEF RecordCase, ProbeInv, Probing
  <2>2. /\ DOMAIN cases' \subseteq Fingerprint \X Nat
        /\ cases' \in [DOMAIN cases' -> SUBSET Instant]
    <3>1. CASE current \in DOMAIN evidence
      <4>1. FileCase(current.of, Boot, current.at)
        BY <1>11, <3>1 DEF RecordCase
      <4> QED
        BY <1>b, <2>1, <4>1, RecordFields, FileCaseEffect
    <3>2. CASE current \notin DOMAIN evidence
      BY <1>11, <3>2 DEF RecordCase, TypeOK
    <3> QED
      BY <3>1, <3>2
  <2>3. current.by = "probe"
    BY <1>11 DEF RecordCase, ProbeInv, Probing
  <2> QED
    BY <2>1, <2>2, <2>3 DEF TypeOK, ProbeInv, Probing, AfterCase
<1>12. CASE OverrideStatus
  <2>1. /\ DOMAIN incidents' = DOMAIN incidents
        /\ UNCHANGED <<now, evidence, cases, crashes>>
        /\ main' = "running" /\ current' = NoRecord
    BY <1>12 DEF OverrideStatus
  <2>2. incidents' \in [DOMAIN incidents' -> Row]
    BY <1>12 DEF OverrideStatus, TypeOK, Row
  <2> QED
    BY <2>1, <2>2 DEF TypeOK, ProbeInv, Probing
<1>13. ASSUME NEW f \in Fingerprint, NEW row \in Row, UpdateOpen(f, row) PROVE TypedInv'
  BY <1>13 DEF UpdateOpen, TypeOK, ProbeInv, Boot
<1>14. ASSUME NEW f \in Fingerprint, MeasuredCleared(f) PROVE TypedInv'
  <2>1. f \in DOMAIN incidents /\ UpdateOpen(f, [incidents[f] EXCEPT !.status = "resolved"])
    BY <1>14 DEF MeasuredCleared, UpdateOpen
  <2>2. [incidents[f] EXCEPT !.status = "resolved"] \in Row
    BY <2>1 DEF TypeOK, Row
  <2> QED
    BY <1>13, <2>1, <2>2
<1>15. ASSUME NEW f \in Fingerprint, NEW b \in BOOLEAN, Acknowledge(f, b) PROVE TypedInv'
  <2>1. f \in DOMAIN incidents /\ UpdateOpen(f, [incidents[f] EXCEPT !.acknowledged = b])
    BY <1>15 DEF Acknowledge, UpdateOpen
  <2>2. [incidents[f] EXCEPT !.acknowledged = b] \in Row
    BY <2>1 DEF TypeOK, Row
  <2> QED
    BY <1>13, <2>1, <2>2
<1>16. ASSUME NEW f \in Fingerprint, ResolveIncident(f) PROVE TypedInv'
  <2> DEFINE row == [incidents[f] EXCEPT !.status = "resolved", !.acknowledged = FALSE]
  <2>1. f \in DOMAIN incidents /\ UpdateOpen(f, row)
    BY <1>16 DEF ResolveIncident, UpdateOpen
  <2>2. incidents[f] \in Row
    BY <2>1 DEF TypeOK
  <2>3. row \in Row
    BY <2>2 DEF Row
  <2> QED
    BY <1>13, <2>1, <2>3
<1>17. CASE ClearHistory
  <2>1. DOMAIN <<>> = {}
    OBVIOUS
  <2> QED
    BY <1>17, <2>1 DEF ClearHistory, TypeOK, ProbeInv, Boot
<1> QED
  BY <1>1, <1>2, <1>3, <1>4, <1>5, <1>6, <1>7, <1>8, <1>9, <1>10, <1>11, <1>12,
     <1>14, <1>15, <1>16, <1>17 DEF Next, CollectorNext, UserNext

\* The incident tables stay well formed in every behaviour: severities and
\* statuses are legal, first and last times and boots are known ones, and
\* case windows never start before time zero.
THEOREM TypeCorrect == Spec => []TypeOK
<1>1. Init => TypedInv
  BY Constants DEF Init, TypedInv, TypeOK, ProbeInv, Probing
<1>2. TypedInv => TypeOK
  BY DEF TypedInv
<1> QED
  BY <1>1, <1>2, TypeStep, PTL DEF Spec

-----------------------------------------------------------------------------
(* Incidents and their evidence.  Every step either files one record,      *)
(* changes rows without evidence, prunes or clears.                        *)

\* What such a step may change in a row.
SettlesRow(f, old, new) ==
    /\ new.first = old.first /\ new.last = old.last
    /\ new.boot = old.boot /\ new.sample = old.sample
    /\ Rank[new.severity] >= Rank[old.severity]
    /\ f \notin Snapshot =>
        /\ new.status = "open" => old.status = "open"
        /\ new.status = "historical" => old.status = "historical" \/ old.boot # Boot

\* A step that changes at most the severity, upwards, the status and the
\* acknowledgement of incidents.
Settles ==
    /\ evidence' = evidence
    /\ DOMAIN incidents' = DOMAIN incidents
    /\ \A f \in DOMAIN incidents : SettlesRow(f, incidents[f], incidents'[f])

\* A step that files a record nobody has filed before, of this boot or an
\* earlier one.
Files(r, f, boot) ==
    /\ r \notin DOMAIN evidence
    /\ FileIncident(r, f, boot)
    /\ boot <= Boot
    /\ UNCHANGED now

\* The ranks of severities are ordered numbers.
LEMMA RankFacts ==
    /\ \A s \in Severity : Rank[s] \in 0..4 /\ Rank[s] >= Rank[s]
    /\ \A s \in Severity : Rank["Critical"] >= Rank[s]
BY DEF Rank, Severity

\* A step that leaves the incidents and the evidence alone settles nothing.
LEMMA UntouchedSettles ==
    ASSUME TypeOK, UNCHANGED <<incidents, evidence>>
    PROVE  Settles
<1>1. ASSUME NEW f \in DOMAIN incidents
      PROVE  SettlesRow(f, incidents[f], incidents'[f])
  <2>1. incidents'[f] = incidents[f] /\ incidents[f].severity \in Severity
    BY DEF TypeOK, Row
  <2> QED
    BY <2>1, RankFacts DEF SettlesRow
<1> QED
  BY <1>1 DEF Settles

\* The kinds of steps there are; and the boot never goes back.
LEMMA StepKinds ==
    ASSUME TypedInv, [Next]_vars
    PROVE  /\ Boot \in Nat /\ Boot' \in Nat /\ Boot <= Boot'
           /\ \/ Settles
              \/ \E r \in Record, f \in Fingerprint, boot \in Nat : Files(r, f, boot)
              \/ Prune /\ UNCHANGED now
              \/ ClearHistory
<1> DEFINE SomeFiles == \E r \in Record, f \in Fingerprint, boot \in Nat : Files(r, f, boot)
           Kind == Settles \/ SomeFiles \/ (Prune /\ UNCHANGED now) \/ ClearHistory
<1>t. TypeOK /\ ProbeInv
  BY DEF TypedInv
<1>a. TypeOK'
  BY TypeStep DEF TypedInv
<1>n. now \in 1..MaxTime /\ now' \in 1..MaxTime
  BY <1>t, <1>a DEF TypeOK
<1>b. Boot \in Nat /\ Boot' \in Nat
  BY <1>n, Constants DEF Boot
<1>c. now' \in {now, now + 1}
  BY DEF vars, Next, CollectorNext, UserNext, Tick, Crash, Launch, PromoteTop, Reconcile,
         MarkHistorical, PruneAtLaunch, BackfillDone, HourlyPrune, RecordCase,
         OverrideStatus, Ingest, Probe, MeasuredCleared, ResolveIncident, Acknowledge,
         UpdateOpen, ClearHistory, MainStep
<1>d. Boot <= Boot'
  <2>1. now <= now'
    BY <1>n, <1>c, Constants
  <2> QED
    BY <1>n, <2>1, Constants DEF Boot
<1> SUFFICES Kind
  BY <1>b, <1>d
<1>1. CASE UNCHANGED vars
  <2>1. UNCHANGED <<incidents, evidence>>
    BY <1>1 DEF vars, tables
  <2> QED
    BY <1>t, <2>1, UntouchedSettles
<1>2. CASE Tick \/ Crash \/ Launch \/ BackfillDone \/ Reconcile \/ RecordCase
  <2>1. UNCHANGED <<incidents, evidence>>
    BY <1>2 DEF Tick, Crash, Launch, BackfillDone, Reconcile, RecordCase, MainStep, tables
  <2> QED
    BY <1>t, <2>1, UntouchedSettles
<1>3. CASE PromoteTop
  <2>1. UNCHANGED evidence /\ DOMAIN incidents' = DOMAIN incidents
    BY <1>3 DEF PromoteTop
  <2>2. ASSUME NEW f \in DOMAIN incidents
        PROVE  SettlesRow(f, incidents[f], incidents'[f])
    <3>1. incidents[f] \in Row
      BY <1>t DEF TypeOK
    <3>2. /\ incidents'[f].first = incidents[f].first
          /\ incidents'[f].last = incidents[f].last
          /\ incidents'[f].boot = incidents[f].boot
          /\ incidents'[f].sample = incidents[f].sample
          /\ incidents'[f].status = incidents[f].status
          /\ incidents'[f].severity \in {"Critical", incidents[f].severity}
      BY <1>3, <3>1 DEF PromoteTop, Row
    <3>3. Rank[incidents'[f].severity] >= Rank[incidents[f].severity]
      BY <3>1, <3>2, RankFacts DEF Row
    <3> QED
      BY <3>2, <3>3 DEF SettlesRow
  <2> QED
    BY <2>1, <2>2 DEF Settles
<1>4. CASE MarkHistorical
  <2>1. UNCHANGED evidence /\ DOMAIN incidents' = DOMAIN incidents
    BY <1>4 DEF MarkHistorical
  <2>2. ASSUME NEW f \in DOMAIN incidents
        PROVE  SettlesRow(f, incidents[f], incidents'[f])
    <3>1. incidents[f] \in Row
      BY <1>t DEF TypeOK
    <3>2. /\ incidents'[f].first = incidents[f].first
          /\ incidents'[f].last = incidents[f].last
          /\ incidents'[f].boot = incidents[f].boot
          /\ incidents'[f].sample = incidents[f].sample
          /\ incidents'[f].severity = incidents[f].severity
          /\ \/ incidents'[f].status = incidents[f].status
             \/ incidents'[f].status = "historical" /\ incidents[f].boot # Boot
      BY <1>4, <3>1 DEF MarkHistorical, Row
    <3>3. Rank[incidents'[f].severity] >= Rank[incidents[f].severity]
      BY <3>1, <3>2, RankFacts DEF Row
    <3> QED
      BY <3>2, <3>3 DEF SettlesRow
  <2> QED
    BY <2>1, <2>2 DEF Settles
<1>5. CASE PruneAtLaunch \/ HourlyPrune
  BY <1>5 DEF PruneAtLaunch, HourlyPrune, MainStep
<1>6. ASSUME NEW r \in Record, Ingest(r) PROVE Kind
  <2>1. FingerprintOf(r) \in Fingerprint /\ BootAt[r.at] \in Nat
    BY FingerprintType, RecordFields, Constants
  <2>2. BootAt[r.at] <= Boot
    BY <1>6, <1>t, RecordFields, Constants DEF Ingest, Boot, TypeOK
  <2>3. Files(r, FingerprintOf(r), BootAt[r.at])
    BY <1>6, <2>2 DEF Ingest, Files
  <2> QED
    BY <2>1, <2>3
<1>7. ASSUME NEW r \in Record, Probe(r) PROVE Kind
  <2>1. CASE r \in DOMAIN evidence
    <3>1. UNCHANGED <<incidents, evidence>>
      BY <1>7, <2>1 DEF Probe
    <3> QED
      BY <1>t, <3>1, UntouchedSettles
  <2>2. CASE r \notin DOMAIN evidence
    <3>1. Files(r, r.of, Boot)
      BY <1>7, <1>b, <2>2 DEF Probe, Files
    <3> QED
      BY <1>b, <3>1, RecordFields
  <2> QED
    BY <2>1, <2>2
<1>8. CASE OverrideStatus
  <2>1. /\ UNCHANGED evidence /\ DOMAIN incidents' = DOMAIN incidents
        /\ current.of \in Snapshot
    BY <1>8, <1>t DEF OverrideStatus, ProbeInv
  <2>2. ASSUME NEW f \in DOMAIN incidents
        PROVE  SettlesRow(f, incidents[f], incidents'[f])
    <3>1. incidents[f] \in Row
      BY <1>t DEF TypeOK
    <3>2. /\ incidents'[f].first = incidents[f].first
          /\ incidents'[f].last = incidents[f].last
          /\ incidents'[f].boot = incidents[f].boot
          /\ incidents'[f].sample = incidents[f].sample
          /\ incidents'[f].severity = incidents[f].severity
          /\ f # current.of => incidents'[f].status = incidents[f].status
      BY <1>8, <3>1 DEF OverrideStatus, Row
    <3>3. Rank[incidents'[f].severity] >= Rank[incidents[f].severity]
      BY <3>1, <3>2, RankFacts DEF Row
    <3> QED
      BY <2>1, <3>2, <3>3 DEF SettlesRow
  <2> QED
    BY <2>1, <2>2 DEF Settles
<1>9. ASSUME NEW f \in Fingerprint,
             NEW s \in {"open", "resolved"}, NEW b \in BOOLEAN,
             UpdateOpen(f, [incidents[f] EXCEPT !.status = s, !.acknowledged = b])
      PROVE  Settles
  <2>1. /\ UNCHANGED evidence /\ DOMAIN incidents' = DOMAIN incidents
        /\ f \in DOMAIN incidents /\ incidents[f].status = "open"
    BY <1>9 DEF UpdateOpen
  <2>2. ASSUME NEW g \in DOMAIN incidents
        PROVE  SettlesRow(g, incidents[g], incidents'[g])
    <3>1. incidents[g] \in Row
      BY <1>t DEF TypeOK
    <3>2. /\ incidents'[g].first = incidents[g].first
          /\ incidents'[g].last = incidents[g].last
          /\ incidents'[g].boot = incidents[g].boot
          /\ incidents'[g].sample = incidents[g].sample
          /\ incidents'[g].severity = incidents[g].severity
          /\ g # f => incidents'[g].status = incidents[g].status
          /\ g = f => incidents'[g].status = s
      BY <1>9, <3>1 DEF UpdateOpen, Row
    <3>3. Rank[incidents'[g].severity] >= Rank[incidents[g].severity]
      BY <3>1, <3>2, RankFacts DEF Row
    <3> QED
      BY <2>1, <3>2, <3>3 DEF SettlesRow
  <2> QED
    BY <2>1, <2>2 DEF Settles
<1>10. ASSUME NEW f \in Fingerprint,
              \/ MeasuredCleared(f)
              \/ ResolveIncident(f)
              \/ \E b \in BOOLEAN : Acknowledge(f, b)
       PROVE  Settles
  <2> DEFINE old == incidents[f]
  <2>1. f \in DOMAIN incidents /\ old \in Row /\ old.status = "open"
    BY <1>10, <1>t DEF MeasuredCleared, ResolveIncident, Acknowledge, UpdateOpen, TypeOK
  <2>2. CASE MeasuredCleared(f)
    <3>1. [old EXCEPT !.status = "resolved"] =
            [old EXCEPT !.status = "resolved", !.acknowledged = old.acknowledged]
      BY <2>1 DEF Row
    <3>2. UpdateOpen(f, [old EXCEPT !.status = "resolved", !.acknowledged = old.acknowledged])
      BY <2>2, <3>1 DEF MeasuredCleared
    <3> QED
      BY <1>9, <2>1, <3>2 DEF Row
  <2>3. CASE ResolveIncident(f)
    BY <1>9, <2>3 DEF ResolveIncident
  <2>4. ASSUME NEW b \in BOOLEAN, Acknowledge(f, b) PROVE Settles
    <3>1. [old EXCEPT !.acknowledged = b] =
            [old EXCEPT !.status = "open", !.acknowledged = b]
      BY <2>1 DEF Row
    <3>2. UpdateOpen(f, [old EXCEPT !.status = "open", !.acknowledged = b])
      BY <2>4, <3>1 DEF Acknowledge
    <3> QED
      BY <1>9, <3>2
  <2> QED
    BY <1>10, <2>2, <2>3, <2>4
<1> QED
  BY <1>1, <1>2, <1>3, <1>4, <1>5, <1>6, <1>7, <1>8, <1>10
     DEF Next, CollectorNext, UserNext

\* Evidence stays accounted for by its incident in every step.
LEMMA AccountedStep ==
    ASSUME TypedInv, EvidenceAccounted, [Next]_vars
    PROVE  EvidenceAccounted'
<1>t. TypeOK
  BY DEF TypedInv
<1>1. CASE Settles
  BY <1>1 DEF Settles, SettlesRow, EvidenceAccounted
<1>2. ASSUME NEW r \in Record, NEW f \in Fingerprint, NEW boot \in Nat, Files(r, f, boot)
      PROVE  EvidenceAccounted'
  <2>1. FileIncident(r, f, boot) /\ r \notin DOMAIN evidence
    BY <1>2 DEF Files
  <2>2. /\ DOMAIN incidents' = DOMAIN incidents \cup {f}
        /\ incidents'[f] = IF f \in DOMAIN incidents
                           THEN UpdatedRow(incidents[f], r, f, boot)
                           ELSE NewRow(r, f, boot)
        /\ \A g \in DOMAIN incidents : g # f => incidents'[g] = incidents[g]
        /\ DOMAIN evidence' = DOMAIN evidence \cup {r}
        /\ evidence'[r] = [of |-> f, boot |-> boot]
        /\ \A e \in DOMAIN evidence : e # r => evidence'[e] = evidence[e]
    <3>1. Filed(r, f, boot)
      BY <1>t, <2>1, FileIncidentEffect
    <3> QED
      BY <3>1 DEF Filed
  <2>3. r.at \in Int
    BY RecordFields, Constants
  <2>4. /\ incidents'[f].first <= r.at /\ r.at <= incidents'[f].last
        /\ incidents'[f].sample \in DOMAIN evidence'
        /\ evidence'[incidents'[f].sample] = [of |-> f, boot |-> incidents'[f].boot]
        /\ incidents'[f].sample.at = incidents'[f].last
        /\ f \in DOMAIN incidents => /\ incidents'[f].first <= incidents[f].first
                                     /\ incidents[f].last <= incidents'[f].last
                                     /\ incidents[f] \in Row
    <3>1. CASE f \in DOMAIN incidents
      <4>1. incidents[f] \in Row
        BY <1>t, <3>1 DEF TypeOK
      <4>2. incidents'[f] = UpdatedRow(incidents[f], r, f, boot)
        BY <2>2, <3>1
      <4>0. IsUpdatedRow(incidents'[f], incidents[f], r, f, boot)
        BY <4>1, <4>2, UpdatedRowFields
      <4>3. /\ incidents[f].sample \in DOMAIN evidence
            /\ evidence[incidents[f].sample] = [of |-> f, boot |-> incidents[f].boot]
            /\ incidents[f].sample.at = incidents[f].last
        BY <3>1 DEF EvidenceAccounted
      <4>4. CASE r.at >= incidents[f].last
        <5>1. /\ incidents'[f].first <= r.at /\ r.at <= incidents'[f].last
              /\ incidents'[f].first <= incidents[f].first
              /\ incidents[f].last <= incidents'[f].last
              /\ incidents'[f].last = r.at /\ incidents'[f].boot = boot
              /\ incidents'[f].sample = r
          BY <4>0, <4>4 DEF IsUpdatedRow
        <5> QED
          BY <2>2, <4>1, <5>1
      <4>5. CASE ~(r.at >= incidents[f].last)
        <5>1. /\ incidents'[f].first <= r.at /\ r.at <= incidents'[f].last
              /\ incidents'[f].first <= incidents[f].first
              /\ incidents[f].last <= incidents'[f].last
              /\ incidents'[f].last = incidents[f].last
              /\ incidents'[f].boot = incidents[f].boot
              /\ incidents'[f].sample = incidents[f].sample
          BY <4>0, <4>5 DEF IsUpdatedRow
        <5> QED
          BY <2>1, <2>2, <4>1, <4>3, <5>1
      <4> QED
        BY <4>4, <4>5
    <3>2. CASE f \notin DOMAIN incidents
      <4>1. /\ incidents'[f].first = r.at /\ incidents'[f].last = r.at
            /\ incidents'[f].sample = r /\ incidents'[f].boot = boot
        <5>1. incidents'[f] = NewRow(r, f, boot)
          BY <2>2, <3>2
        <5>2. IsNewRow(incidents'[f], r, f, boot)
          BY <5>1, NewRowFields
        <5> QED
          BY <5>2 DEF IsNewRow
      <4> QED
        BY <2>2, <2>3, <3>2, <4>1
    <3> QED
      BY <3>1, <3>2
  <2>5. ASSUME NEW e \in DOMAIN evidence'
        PROVE  /\ evidence'[e].of \in DOMAIN incidents'
               /\ incidents'[evidence'[e].of].first <= e.at
               /\ e.at <= incidents'[evidence'[e].of].last
    <3>1. CASE e = r
      BY <2>2, <2>4, <3>1
    <3>2. CASE e # r
      <4>1. /\ e \in DOMAIN evidence /\ evidence'[e] = evidence[e]
            /\ e.at \in Int
        BY <2>2, <3>2, <1>t, RecordFields, Constants DEF TypeOK
      <4>2. /\ evidence[e].of \in DOMAIN incidents
            /\ incidents[evidence[e].of].first <= e.at
            /\ e.at <= incidents[evidence[e].of].last
        BY <4>1 DEF EvidenceAccounted
      <4>3. CASE evidence[e].of # f
        BY <2>2, <4>1, <4>2, <4>3
      <4>4. CASE evidence[e].of = f
        <5>1. /\ f \in DOMAIN incidents
              /\ incidents[f].first \in Int /\ incidents[f].last \in Int
          BY <1>t, <4>2, <4>4, Constants DEF TypeOK, Row
        <5>2. incidents'[f] \in Row
          <6>1. Filed(r, f, boot)
            BY <1>t, <2>1, FileIncidentEffect
          <6> QED
            BY <6>1 DEF Filed
        <5>3. incidents'[f].first \in Int /\ incidents'[f].last \in Int
          BY <5>2, Constants DEF Row
        <5> QED
          BY <2>2, <2>4, <4>1, <4>2, <4>4, <5>1, <5>3
      <4> QED
        BY <4>3, <4>4
    <3> QED
      BY <3>1, <3>2
  <2>6. ASSUME NEW g \in DOMAIN incidents'
        PROVE  /\ incidents'[g].sample \in DOMAIN evidence'
               /\ evidence'[incidents'[g].sample] = [of |-> g, boot |-> incidents'[g].boot]
               /\ incidents'[g].sample.at = incidents'[g].last
    <3>1. CASE g = f
      BY <2>4, <3>1
    <3>2. CASE g # f
      <4>1. /\ g \in DOMAIN incidents /\ incidents'[g] = incidents[g]
            /\ incidents[g].sample \in DOMAIN evidence /\ incidents[g].sample # r
        BY <2>1, <2>2, <3>2 DEF EvidenceAccounted
      <4>2. evidence'[incidents[g].sample] = evidence[incidents[g].sample]
        BY <2>2, <4>1
      <4> QED
        BY <2>2, <4>1, <4>2 DEF EvidenceAccounted
    <3> QED
      BY <3>1, <3>2
  <2> QED
    BY <2>5, <2>6 DEF EvidenceAccounted
<1>3. CASE Prune /\ UNCHANGED now
  BY <1>t, <1>3, PruneEffect DEF EvidenceAccounted
<1>4. CASE ClearHistory
  <2>1. DOMAIN <<>> = {}
    OBVIOUS
  <2> QED
    BY <1>4, <2>1 DEF ClearHistory, EvidenceAccounted
<1> QED
  BY <1>1, <1>2, <1>3, <1>4, StepKinds

\* The aggregates of an incident agree with its evidence in every reachable
\* state: pruning, cleanups and late replays included.
THEOREM EvidenceIsAccounted == Spec => []EvidenceAccounted
<1>1. Init => TypedInv /\ EvidenceAccounted
  <2>1. DOMAIN <<>> = {}
    OBVIOUS
  <2> QED
    BY <2>1, Constants
       DEF Init, TypedInv, TypeOK, ProbeInv, Probing, EvidenceAccounted
<1>2. TypedInv /\ EvidenceAccounted /\ [Next]_vars => (TypedInv /\ EvidenceAccounted)'
  BY TypeStep, AccountedStep
<1> QED
  BY <1>1, <1>2, PTL DEF Spec

-----------------------------------------------------------------------------
(* Severities.                                                             *)

\* A piece of evidence has a severity.
LEMMA SeverityType ==
    ASSUME NEW r \in Record, NEW f
    PROVE  SeverityOf(r, f) \in Severity
BY RecordFields DEF SeverityOf, Severity

\* No step leaves an incident below its worst evidence.
LEMMA SeverityStep ==
    ASSUME TypedInv, EvidenceAccounted, SeverityCovers, [Next]_vars
    PROVE  SeverityCovers'
<1>o. TypeOK
  BY DEF TypedInv
<1>t. TypeOK /\ TypeOK'
  BY TypeStep DEF TypedInv
<1>r. \A s \in Severity : Rank[s] \in Int
  BY RankFacts
<1>s. ASSUME NEW f \in DOMAIN incidents PROVE incidents[f].severity \in Severity
  BY <1>t DEF TypeOK, Row
<1>1. CASE Settles
  <2> SUFFICES ASSUME NEW r \in DOMAIN evidence,
                      Rank[SeverityOf(r, evidence[r].of)] >= Rank["Warning"]
               PROVE  Rank[incidents'[evidence[r].of].severity]
                        >= Rank[SeverityOf(r, evidence[r].of)]
    BY <1>1 DEF Settles, SeverityCovers
  <2> DEFINE f == evidence[r].of
  <2>1. f \in DOMAIN incidents
    BY DEF EvidenceAccounted
  <2>2. Rank[incidents'[f].severity] >= Rank[incidents[f].severity]
    BY <1>1, <2>1 DEF Settles, SettlesRow
  <2>3. Rank[incidents[f].severity] >= Rank[SeverityOf(r, f)]
    BY DEF SeverityCovers
  <2>4. /\ incidents[f].severity \in Severity
        /\ incidents'[f].severity \in Severity
        /\ SeverityOf(r, f) \in Severity
    BY <1>1, <1>s, <1>t, <2>1, SeverityType DEF TypeOK, Row, Settles
  <2> QED
    BY <1>r, <2>2, <2>3, <2>4
<1>2. ASSUME NEW r \in Record, NEW f \in Fingerprint, NEW boot \in Nat, Files(r, f, boot)
      PROVE  SeverityCovers'
  <2>1. FileIncident(r, f, boot) /\ r \notin DOMAIN evidence
    BY <1>2 DEF Files
  <2>2. /\ DOMAIN incidents' = DOMAIN incidents \cup {f}
        /\ incidents'[f] = IF f \in DOMAIN incidents
                           THEN UpdatedRow(incidents[f], r, f, boot)
                           ELSE NewRow(r, f, boot)
        /\ \A g \in DOMAIN incidents : g # f => incidents'[g] = incidents[g]
        /\ DOMAIN evidence' = DOMAIN evidence \cup {r}
        /\ evidence'[r] = [of |-> f, boot |-> boot]
        /\ \A e \in DOMAIN evidence : e # r => evidence'[e] = evidence[e]
    <3>1. Filed(r, f, boot)
      BY <1>o, <2>1, FileIncidentEffect
    <3> QED
      BY <3>1 DEF Filed
  <2>3. SeverityOf(r, f) \in Severity
    BY SeverityType
  <2>4. /\ Rank[SeverityOf(r, f)] >= Rank["Warning"]
             => Rank[incidents'[f].severity] >= Rank[SeverityOf(r, f)]
        /\ f \in DOMAIN incidents
             => Rank[incidents'[f].severity] >= Rank[incidents[f].severity]
        /\ incidents'[f].severity \in Severity
    <3>1. CASE f \in DOMAIN incidents
      <4>1. incidents[f] \in Row
        BY <1>t, <3>1 DEF TypeOK
      <4>2. incidents'[f] = UpdatedRow(incidents[f], r, f, boot)
        BY <2>2, <3>1
      <4>3. IsUpdatedRow(incidents'[f], incidents[f], r, f, boot)
        BY <4>1, <4>2, UpdatedRowFields
      <4>4. incidents'[f].severity = MergedSeverity(incidents[f].severity, SeverityOf(r, f))
        BY <4>3 DEF IsUpdatedRow
      <4>5. incidents[f].severity \in Severity
        BY <4>1 DEF Row
      <4> QED
        BY <2>3, <4>4, <4>5, MergedSeverityBounds
    <3>2. CASE f \notin DOMAIN incidents
      <4>1. incidents'[f] = NewRow(r, f, boot)
        BY <2>2, <3>2
      <4>2. IsNewRow(incidents'[f], r, f, boot)
        BY <4>1, NewRowFields
      <4>3. incidents'[f].severity = SeverityOf(r, f)
        BY <4>2 DEF IsNewRow
      <4> QED
        BY <2>3, <3>2, <4>3, RankFacts
    <3> QED
      BY <3>1, <3>2
  <2> SUFFICES ASSUME NEW e \in DOMAIN evidence',
                      Rank[SeverityOf(e, evidence'[e].of)] >= Rank["Warning"]
               PROVE  Rank[incidents'[evidence'[e].of].severity]
                        >= Rank[SeverityOf(e, evidence'[e].of)]
    BY DEF SeverityCovers
  <2>5. CASE e = r
    BY <2>2, <2>4, <2>5
  <2>6. CASE e # r
    <3>1. /\ e \in DOMAIN evidence /\ evidence'[e] = evidence[e]
          /\ e \in Record
      BY <1>t, <2>2, <2>6 DEF TypeOK
    <3>2. evidence[e].of \in DOMAIN incidents
      BY <3>1 DEF EvidenceAccounted
    <3>3. Rank[incidents[evidence[e].of].severity] >= Rank[SeverityOf(e, evidence[e].of)]
      BY <3>1 DEF SeverityCovers
    <3>4. CASE evidence[e].of # f
      BY <2>2, <3>1, <3>2, <3>3, <3>4
    <3>5. CASE evidence[e].of = f
      <4>1. /\ Rank[incidents'[f].severity] >= Rank[incidents[f].severity]
            /\ Rank[incidents[f].severity] >= Rank[SeverityOf(e, f)]
        BY <2>4, <3>2, <3>3, <3>5
      <4>2. /\ Rank[incidents'[f].severity] \in Int /\ Rank[incidents[f].severity] \in Int
            /\ Rank[SeverityOf(e, f)] \in Int
        BY <1>r, <1>s, <2>4, <3>1, <3>2, <3>5, SeverityType
      <4> QED
        BY <3>1, <3>5, <4>1, <4>2
    <3> QED
      BY <3>4, <3>5
  <2> QED
    BY <2>5, <2>6
<1>3. CASE Prune /\ UNCHANGED now
  <2>1. \A r \in DOMAIN evidence' :
            /\ r \in DOMAIN evidence /\ evidence'[r] = evidence[r]
            /\ evidence[r].of \in DOMAIN incidents'
            /\ incidents'[evidence[r].of] = incidents[evidence[r].of]
    BY <1>t, <1>3, PruneEffect
  <2> QED
    BY <2>1 DEF SeverityCovers
<1>4. CASE ClearHistory
  <2>1. DOMAIN <<>> = {}
    OBVIOUS
  <2> QED
    BY <1>4, <2>1 DEF ClearHistory, SeverityCovers
<1> QED
  BY <1>1, <1>2, <1>3, <1>4, StepKinds

\* Whatever order warnings, errors and critical evidence arrive in, and
\* whatever a launch promotes, an incident's severity covers all of it.
THEOREM SeverityIsCovering == Spec => []SeverityCovers
<1> DEFINE IInv == TypedInv /\ EvidenceAccounted /\ SeverityCovers
<1>1. Init => IInv
  <2>1. DOMAIN <<>> = {}
    OBVIOUS
  <2> QED
    BY <2>1, Constants
       DEF Init, TypedInv, TypeOK, ProbeInv, Probing, EvidenceAccounted, SeverityCovers
<1>2. IInv /\ [Next]_vars => IInv'
  BY TypeStep, AccountedStep, SeverityStep
<1>3. IInv => SeverityCovers
  OBVIOUS
<1> QED
  BY <1>1, <1>2, <1>3, PTL DEF Spec

-----------------------------------------------------------------------------
(* Statuses.                                                               *)

\* No incident is of a boot still to come.
BootsPast == \A f \in DOMAIN incidents : incidents[f].boot <= Boot

\* A historical incident stays one of an earlier boot.
LEMMA HistoricalStep ==
    ASSUME TypedInv, BootsPast, HistoricalIsPast, [Next]_vars
    PROVE  BootsPast' /\ HistoricalIsPast'
<1>o. TypeOK
  BY DEF TypedInv
<1>t. TypeOK /\ TypeOK'
  BY TypeStep DEF TypedInv
<1>b. Boot \in Nat /\ Boot' \in Nat /\ Boot <= Boot'
  BY StepKinds
<1>n. ASSUME NEW f \in DOMAIN incidents PROVE incidents[f].boot \in Int
  BY <1>t DEF TypeOK, Row
<1>1. CASE Settles
  <2> SUFFICES ASSUME NEW f \in DOMAIN incidents
               PROVE  /\ incidents'[f].boot <= Boot'
                      /\ f \notin Snapshot /\ incidents'[f].status = "historical"
                            => incidents'[f].boot < Boot'
    BY <1>1 DEF Settles, BootsPast, HistoricalIsPast
  <2>1. SettlesRow(f, incidents[f], incidents'[f])
    BY <1>1 DEF Settles
  <2>2. incidents'[f].boot = incidents[f].boot /\ incidents[f].boot <= Boot
    BY <2>1 DEF SettlesRow, BootsPast
  <2>3. ASSUME f \notin Snapshot, incidents'[f].status = "historical"
        PROVE  incidents[f].boot < Boot
    <3>1. incidents[f].status = "historical" \/ incidents[f].boot # Boot
      BY <2>1, <2>3 DEF SettlesRow
    <3>2. CASE incidents[f].status = "historical"
      BY <2>3, <3>2 DEF HistoricalIsPast
    <3>3. CASE incidents[f].boot # Boot
      BY <1>b, <1>n, <2>2, <3>3
    <3> QED
      BY <3>1, <3>2, <3>3
  <2> QED
    BY <1>b, <1>n, <2>2, <2>3
<1>2. ASSUME NEW r \in Record, NEW f \in Fingerprint, NEW boot \in Nat, Files(r, f, boot)
      PROVE  BootsPast' /\ HistoricalIsPast'
  <2>1. FileIncident(r, f, boot) /\ boot <= Boot /\ Boot' = Boot
    BY <1>2 DEF Files, Boot
  <2>2. /\ DOMAIN incidents' = DOMAIN incidents \cup {f}
        /\ incidents'[f] = IF f \in DOMAIN incidents
                           THEN UpdatedRow(incidents[f], r, f, boot)
                           ELSE NewRow(r, f, boot)
        /\ \A g \in DOMAIN incidents : g # f => incidents'[g] = incidents[g]
    <3>1. Filed(r, f, boot)
      BY <1>o, <2>1, FileIncidentEffect
    <3> QED
      BY <3>1 DEF Filed
  <2>3. /\ incidents'[f].boot <= Boot
        /\ f \notin Snapshot /\ incidents'[f].status = "historical"
              => incidents'[f].boot < Boot
    <3>1. CASE f \in DOMAIN incidents
      <4>1. incidents[f] \in Row
        BY <1>t, <3>1 DEF TypeOK
      <4>2. incidents'[f] = UpdatedRow(incidents[f], r, f, boot)
        BY <2>2, <3>1
      <4>3. IsUpdatedRow(incidents'[f], incidents[f], r, f, boot)
        BY <4>1, <4>2, UpdatedRowFields
      <4>4. CASE r.at >= incidents[f].last
        BY <2>1, <4>3, <4>4 DEF IsUpdatedRow
      <4>5. CASE ~(r.at >= incidents[f].last)
        BY <3>1, <4>3, <4>5 DEF IsUpdatedRow, BootsPast, HistoricalIsPast
      <4> QED
        BY <4>4, <4>5
    <3>2. CASE f \notin DOMAIN incidents
      <4>1. incidents'[f] = NewRow(r, f, boot)
        BY <2>2, <3>2
      <4>2. IsNewRow(incidents'[f], r, f, boot)
        BY <4>1, NewRowFields
      <4> QED
        BY <2>1, <4>2 DEF IsNewRow
    <3> QED
      BY <3>1, <3>2
  <2>4. ASSUME NEW g \in DOMAIN incidents'
        PROVE  /\ incidents'[g].boot <= Boot
               /\ g \notin Snapshot /\ incidents'[g].status = "historical"
                     => incidents'[g].boot < Boot
    BY <2>2, <2>3 DEF BootsPast, HistoricalIsPast
  <2> QED
    BY <2>1, <2>4 DEF BootsPast, HistoricalIsPast
<1>3. CASE Prune /\ UNCHANGED now
  <2>1. /\ Boot' = Boot
        /\ \A f \in DOMAIN incidents' :
                f \in DOMAIN incidents /\ incidents'[f] = incidents[f]
    BY <1>t, <1>3, PruneEffect DEF Boot
  <2> QED
    BY <2>1 DEF BootsPast, HistoricalIsPast
<1>4. CASE ClearHistory
  <2>1. DOMAIN <<>> = {}
    OBVIOUS
  <2> QED
    BY <1>4, <2>1 DEF ClearHistory, BootsPast, HistoricalIsPast
<1> QED
  BY <1>1, <1>2, <1>3, <1>4, StepKinds

\* An incident marked historical has no evidence of the running boot, however
\* often the machine reboots and the backfill reopens incidents.
THEOREM HistoricalIsOver == Spec => []HistoricalIsPast
<1> DEFINE IInv == TypedInv /\ BootsPast /\ HistoricalIsPast
<1>1. Init => IInv
  <2>1. DOMAIN <<>> = {}
    OBVIOUS
  <2> QED
    BY <2>1, Constants
       DEF Init, TypedInv, TypeOK, ProbeInv, Probing, BootsPast, HistoricalIsPast
<1>2. IInv /\ [Next]_vars => IInv'
  BY TypeStep, HistoricalStep
<1>3. IInv => HistoricalIsPast
  OBVIOUS
<1> QED
  BY <1>1, <1>2, <1>3, PTL DEF Spec

\* Only evidence at least as new as the newest reopens an incident, and it
\* always does; a late replay leaves a settled incident settled.
THEOREM NewestEvidenceWins == Spec => NewestEvidenceDecides
<1> DEFINE Decides == \A f \in (DOMAIN incidents \cap DOMAIN incidents') \ Snapshot :
                            EvidenceDecides(f)
<1>1. TypedInv /\ [Next]_vars => Decides
  <2> SUFFICES ASSUME TypedInv, [Next]_vars PROVE Decides
    OBVIOUS
  <2>t. TypeOK
    BY DEF TypedInv
  <2>1. CASE Settles
    <3> SUFFICES ASSUME NEW f \in DOMAIN incidents, f \notin Snapshot
                 PROVE  EvidenceDecides(f)
      OBVIOUS
    <3>1. NewEvidence(f) = {}
      BY <2>1 DEF Settles, NewEvidence
    <3>2. SettlesRow(f, incidents[f], incidents'[f])
      BY <2>1 DEF Settles
    <3> QED
      BY <3>1, <3>2 DEF EvidenceDecides, SettlesRow
  <2>2. ASSUME NEW r \in Record, NEW f \in Fingerprint, NEW boot \in Nat, Files(r, f, boot)
        PROVE  Decides
    <3>1. FileIncident(r, f, boot) /\ r \notin DOMAIN evidence
      BY <2>2 DEF Files
    <3>2. /\ DOMAIN incidents' = DOMAIN incidents \cup {f}
          /\ incidents'[f] = IF f \in DOMAIN incidents
                             THEN UpdatedRow(incidents[f], r, f, boot)
                             ELSE NewRow(r, f, boot)
          /\ \A g \in DOMAIN incidents : g # f => incidents'[g] = incidents[g]
          /\ DOMAIN evidence' = DOMAIN evidence \cup {r}
          /\ evidence'[r] = [of |-> f, boot |-> boot]
          /\ \A e \in DOMAIN evidence : e # r => evidence'[e] = evidence[e]
      <4>1. Filed(r, f, boot)
        BY <2>t, <3>1, FileIncidentEffect
      <4> QED
        BY <4>1 DEF Filed
    <3> SUFFICES ASSUME NEW g \in DOMAIN incidents, g \notin Snapshot
                 PROVE  EvidenceDecides(g)
      OBVIOUS
    <3>3. CASE g # f
      <4>1. NewEvidence(g) = {}
        BY <3>2, <3>3 DEF NewEvidence
      <4> QED
        BY <3>2, <3>3, <4>1 DEF EvidenceDecides
    <3>4. CASE g = f
      <4>1. NewEvidence(g) = {r}
        BY <3>1, <3>2, <3>4 DEF NewEvidence
      <4>2. incidents[f] \in Row
        BY <2>t, <3>4 DEF TypeOK
      <4>3. IsUpdatedRow(incidents'[f], incidents[f], r, f, boot)
        BY <3>2, <3>4, <4>2, UpdatedRowFields
      <4> QED
        BY <3>4, <4>1, <4>3 DEF EvidenceDecides, IsUpdatedRow
    <3> QED
      BY <3>3, <3>4
  <2>3. CASE Prune /\ UNCHANGED now
    <3>1. /\ DOMAIN evidence' \subseteq DOMAIN evidence
          /\ \A f \in DOMAIN incidents' : incidents'[f] = incidents[f]
      BY <2>t, <2>3, PruneEffect
    <3>2. \A f : NewEvidence(f) = {}
      BY <3>1 DEF NewEvidence
    <3> QED
      BY <3>1, <3>2 DEF EvidenceDecides
  <2>4. CASE ClearHistory
    <3>1. DOMAIN <<>> = {}
      OBVIOUS
    <3> QED
      BY <2>4, <3>1 DEF ClearHistory
  <2> QED
    BY <2>1, <2>2, <2>3, <2>4, StepKinds
<1>2. Spec => []TypedInv
  <2>1. Init => TypedInv
    BY Constants DEF Init, TypedInv, TypeOK, ProbeInv, Probing
  <2> QED
    BY <2>1, TypeStep, PTL DEF Spec
<1> QED
  BY <1>1, <1>2, PTL DEF Spec, NewestEvidenceDecides

-----------------------------------------------------------------------------
(* Forensic cases.                                                         *)

Unreconciled == {"down", "promote", "reconcile"}

\* What IsForensic is after the step.
ForensicNext(f) == f \in Forensic \/ (f \in DOMAIN incidents' /\ incidents'[f].promoted)

\* After the step, the window of the case of record e covers it.
CoveredNext(e) ==
    /\ <<evidence'[e].of, evidence'[e].boot>> \in DOMAIN cases'
    /\ Window(e.at) \subseteq cases'[<<evidence'[e].of, evidence'[e].boot>>]

\* A step that files nothing, uncovers nothing and promotes nothing keeps the
\* cases complete.
LEMMA CasesKept ==
    ASSUME CasesCoverEvidence,
           \A e \in DOMAIN evidence' :
                /\ e \in DOMAIN evidence
                /\ evidence'[e] = evidence[e]
                /\ Covered(e) => CoveredNext(e),
           \/ main' \in Unreconciled
           \/ /\ main \notin Unreconciled
              /\ main = "case" => main' = "case" /\ current' = current
              /\ \A e \in DOMAIN evidence' :
                    ForensicNext(evidence[e].of) => IsForensic(evidence[e].of)
    PROVE  CasesCoverEvidence'
<1> SUFFICES ASSUME NEW e \in DOMAIN evidence'
             PROVE  /\ e.by = "journal" /\ evidence'[e].of \in Forensic => CoveredNext(e)
                    /\ main' \notin Unreconciled /\ ForensicNext(evidence'[e].of)
                       => \/ CoveredNext(e)
                          \/ main' = "case" /\ e = current'
                          \/ e.of \in Snapshot
  BY DEF CasesCoverEvidence, CoveredNext, Covered, ForensicNext, IsForensic, Unreconciled
<1>1. e.by = "journal" /\ evidence'[e].of \in Forensic => CoveredNext(e)
  BY DEF CasesCoverEvidence
<1>2. ASSUME main' \notin Unreconciled, ForensicNext(evidence'[e].of)
      PROVE  \/ CoveredNext(e)
             \/ main' = "case" /\ e = current'
             \/ e.of \in Snapshot
  <2>1. main \notin Unreconciled /\ IsForensic(evidence[e].of)
    BY <1>2
  <2>2. Covered(e) \/ (main = "case" /\ e = current) \/ e.of \in Snapshot
    BY <2>1 DEF CasesCoverEvidence, Unreconciled
  <2> QED
    BY <1>2, <2>2
<1> QED
  BY <1>1, <1>2

\* No step leaves forensic evidence without a case, beyond the exceptions.
LEMMA CasesStep ==
    ASSUME TypedInv, EvidenceAccounted, CasesCoverEvidence, [Next]_vars
    PROVE  CasesCoverEvidence'
<1>t. TypeOK /\ ProbeInv
  BY DEF TypedInv
<1>o. TypeOK
  BY DEF TypedInv
<1>b. Boot \in Nat
  BY <1>o, BootType
\* Steps that leave evidence and cases alone.
<1>u. ASSUME UNCHANGED <<evidence, cases>>,
             \/ main' \in Unreconciled
             \/ /\ main \notin Unreconciled
                /\ main = "case" => main' = "case" /\ current' = current
                /\ \A f \in DOMAIN incidents' :
                        f \in DOMAIN incidents /\ incidents'[f].promoted = incidents[f].promoted
      PROVE  CasesCoverEvidence'
  <2>1. \A e \in DOMAIN evidence' :
            /\ e \in DOMAIN evidence
            /\ evidence'[e] = evidence[e]
            /\ Covered(e) => CoveredNext(e)
    BY <1>u DEF Covered, CoveredNext
  <2>2. \/ main' \in Unreconciled
        \/ /\ main \notin Unreconciled
           /\ main = "case" => main' = "case" /\ current' = current
           /\ \A e \in DOMAIN evidence' :
                ForensicNext(evidence[e].of) => IsForensic(evidence[e].of)
    BY <1>u DEF ForensicNext, IsForensic
  <2> QED
    BY <2>1, <2>2, CasesKept
<1>1. CASE UNCHANGED vars
  BY <1>1 DEF vars, tables, CasesCoverEvidence, Covered, IsForensic
<1>2. CASE Tick
  <2>1. /\ UNCHANGED tables
        /\ main' = "down" \/ UNCHANGED <<main, current>>
    BY <1>2 DEF Tick
  <2>2. CASE main' = "down"
    BY <1>u, <2>1, <2>2 DEF tables, Unreconciled
  <2>3. CASE UNCHANGED <<main, current>>
    BY <2>1, <2>3 DEF tables, CasesCoverEvidence, Covered, IsForensic
  <2> QED
    BY <2>1, <2>2, <2>3
<1>3. CASE Crash \/ Launch \/ PromoteTop
  BY <1>3, <1>u DEF Crash, Launch, PromoteTop, MainStep, tables, Unreconciled
<1>4. CASE Reconcile
  <2>1. /\ UNCHANGED <<incidents, evidence, current>> /\ main' = "history"
        /\ DOMAIN cases' = CaseKeys
        /\ \A key \in CaseKeys :
            cases'[key] = Hull(CaseWindow(key) \cup
                               UNION {Window(r.at) : r \in ForensicEvidence(key[1], key[2])})
    BY <1>4 DEF Reconcile, MainStep
  <2>2. ASSUME NEW e \in DOMAIN evidence, IsForensic(evidence[e].of)
        PROVE  Covered(e)'
    <3> DEFINE key == <<evidence[e].of, evidence[e].boot>>
               windows == UNION {Window(r.at) : r \in ForensicEvidence(key[1], key[2])}
               merged == CaseWindow(key) \cup windows
    <3>1. key \in CaseKeys
      BY <2>2 DEF CaseKeys
    <3>2. evidence[e] \in [of: Fingerprint, boot: Nat]
      BY <1>o DEF TypeOK
    <3>3. evidence[e] = [of |-> key[1], boot |-> key[2]]
      BY <3>2
    <3>4. e \in ForensicEvidence(key[1], key[2])
      BY <2>2, <3>3 DEF ForensicEvidence
    <3>5. Window(e.at) \subseteq windows
      BY <3>4
    <3>6. windows \subseteq Instant
      <4>1. \A r \in ForensicEvidence(key[1], key[2]) : r.at \in 1..MaxTime
        BY <1>o, RecordFields DEF ForensicEvidence, TypeOK
      <4> QED
        BY <4>1, WindowType
    <3>7. CaseWindow(key) \subseteq Instant
      BY <1>o DEF CaseWindow, TypeOK
    <3>8. cases'[key] = Hull(merged)
      BY <2>1, <3>1
    <3> HIDE DEF windows
    <3>9. merged \subseteq Hull(merged)
      BY <3>6, <3>7, HullCovers
    <3> QED
      BY <2>1, <3>1, <3>5, <3>8, <3>9 DEF Covered
  <2> QED
    BY <2>1, <2>2 DEF CasesCoverEvidence, IsForensic
<1>5. CASE MarkHistorical
  <2>1. ASSUME NEW f \in DOMAIN incidents
        PROVE  incidents'[f].promoted = incidents[f].promoted
    <3>1. incidents[f] \in Row
      BY <1>o DEF TypeOK
    <3> QED
      BY <1>5, <3>1 DEF MarkHistorical, Row
  <2> QED
    BY <1>5, <1>u, <2>1 DEF MarkHistorical, MainStep, Unreconciled
<1>6. CASE BackfillDone
  BY <1>6, <1>u DEF BackfillDone, MainStep, tables, Unreconciled
<1>7. CASE PruneAtLaunch \/ HourlyPrune
  <2>1. /\ Prune /\ UNCHANGED current
        /\ main \in {"prune", "running"} /\ main' \in {"backfill", "running"}
    BY <1>7 DEF PruneAtLaunch, HourlyPrune, MainStep
  <2>2. /\ \A f \in DOMAIN incidents' : f \in DOMAIN incidents /\ incidents'[f] = incidents[f]
        /\ \A e \in DOMAIN evidence' : /\ e \in DOMAIN evidence
                                       /\ evidence'[e] = evidence[e]
                                       /\ evidence[e].of \in DOMAIN incidents'
        /\ \A key \in DOMAIN cases :
                key[1] \in DOMAIN incidents' => /\ key \in DOMAIN cases'
                                                /\ cases'[key] = cases[key]
    BY <1>o, <2>1, PruneEffect
  <2>3. \A e \in DOMAIN evidence' : Covered(e) => CoveredNext(e)
    BY <2>2 DEF Covered, CoveredNext
  <2>4. \A e \in DOMAIN evidence' :
            ForensicNext(evidence[e].of) => IsForensic(evidence[e].of)
    BY <2>2 DEF ForensicNext, IsForensic
  <2>5. main \notin Unreconciled /\ main # "case"
    BY <2>1 DEF Unreconciled
  <2> QED
    BY <2>2, <2>3, <2>4, <2>5, CasesKept
\* Filing r for f promotes no incident that has evidence.
<1>f. ASSUME NEW r \in Record, NEW f \in Fingerprint, NEW boot \in Nat,
             FileIncident(r, f, boot)
      PROVE  \A e \in DOMAIN evidence :
                ForensicNext(evidence[e].of) => IsForensic(evidence[e].of)
  <2>1. Filed(r, f, boot)
    BY <1>f, <1>o, FileIncidentEffect
  <2>2. f \in DOMAIN incidents => incidents'[f].promoted = incidents[f].promoted
    <3> SUFFICES ASSUME f \in DOMAIN incidents
                 PROVE  incidents'[f].promoted = incidents[f].promoted
      OBVIOUS
    <3>1. incidents[f] \in Row /\ incidents'[f] = UpdatedRow(incidents[f], r, f, boot)
      BY <1>o, <2>1 DEF TypeOK, Filed
    <3>2. IsUpdatedRow(incidents'[f], incidents[f], r, f, boot)
      BY <3>1, UpdatedRowFields
    <3> QED
      BY <3>2 DEF IsUpdatedRow
  <2>3. ASSUME NEW g \in DOMAIN incidents, ForensicNext(g) PROVE IsForensic(g)
    BY <2>1, <2>2, <2>3 DEF Filed, ForensicNext, IsForensic
  <2> QED
    BY <2>3 DEF EvidenceAccounted
<1>8. ASSUME NEW r \in Record, Ingest(r) PROVE CasesCoverEvidence'
  <2> DEFINE f == FingerprintOf(r)
             boot == BootAt[r.at]
  <2>1. f \in Fingerprint /\ boot \in Nat /\ r.at \in 1..MaxTime
    BY FingerprintType, RecordFields, Constants
  <2>2. /\ FileIncident(r, f, boot)
        /\ FileCase(f, boot, r.at)
        /\ UNCHANGED <<main, current>>
        /\ main \notin Unreconciled
        /\ r \notin DOMAIN evidence
    BY <1>8 DEF Ingest, Unreconciled, Probing
  <2> HIDE DEF f, boot
  <2>3. Filed(r, f, boot)
    BY <1>o, <2>1, <2>2, FileIncidentEffect
  <2>4. /\ \A key \in DOMAIN cases : key \in DOMAIN cases' /\ cases[key] \subseteq cases'[key]
        /\ IsForensic(f) => /\ <<f, boot>> \in DOMAIN cases'
                            /\ Window(r.at) \subseteq cases'[<<f, boot>>]
    BY <1>o, <2>1, <2>2, FileCaseEffect
  <2>5. ForensicNext(f) => IsForensic(f)
    <3>1. CASE f \in DOMAIN incidents
      <4>1. incidents[f] \in Row /\ incidents'[f] = UpdatedRow(incidents[f], r, f, boot)
        BY <1>o, <2>3, <3>1 DEF TypeOK, Filed
      <4>2. IsUpdatedRow(incidents'[f], incidents[f], r, f, boot)
        BY <2>1, <4>1, UpdatedRowFields
      <4> QED
        BY <3>1, <4>2 DEF IsUpdatedRow, ForensicNext, IsForensic
    <3>2. CASE f \notin DOMAIN incidents
      <4>1. incidents'[f] = NewRow(r, f, boot)
        BY <2>3, <3>2 DEF Filed
      <4>2. IsNewRow(incidents'[f], r, f, boot)
        BY <2>1, <4>1, NewRowFields
      <4> QED
        BY <4>2 DEF IsNewRow, ForensicNext, IsForensic
    <3> QED
      BY <3>1, <3>2
  <2>6. ASSUME NEW e \in DOMAIN evidence
        PROVE  /\ Covered(e) => CoveredNext(e)
               /\ ForensicNext(evidence'[e].of) => IsForensic(evidence[e].of)
               /\ evidence'[e] = evidence[e]
    <3>1. evidence'[e] = evidence[e]
      BY <2>2, <2>3 DEF Filed
    <3>2. Covered(e) => CoveredNext(e)
      BY <2>4, <3>1 DEF Covered, CoveredNext
    <3>3. ForensicNext(evidence[e].of) => IsForensic(evidence[e].of)
      BY <1>f, <2>1, <2>2
    <3> QED
      BY <3>1, <3>2, <3>3
  <2>7. /\ evidence'[r] = [of |-> f, boot |-> boot]
        /\ DOMAIN evidence' = DOMAIN evidence \cup {r}
        /\ ForensicNext(f) => CoveredNext(r)
    BY <2>3, <2>4, <2>5 DEF Filed, CoveredNext
  <2> SUFFICES ASSUME NEW e \in DOMAIN evidence'
               PROVE  /\ e.by = "journal" /\ evidence'[e].of \in Forensic => CoveredNext(e)
                      /\ ForensicNext(evidence'[e].of)
                         => \/ CoveredNext(e)
                            \/ main = "case" /\ e = current
                            \/ e.of \in Snapshot
    BY <2>2 DEF CasesCoverEvidence, CoveredNext, Covered, ForensicNext, IsForensic
  <2>8. CASE e = r
    BY <2>7, <2>8 DEF ForensicNext
  <2>9. CASE e # r
    <3>1. e \in DOMAIN evidence
      BY <2>7, <2>9
    <3>2. /\ e.by = "journal" /\ evidence[e].of \in Forensic => Covered(e)
          /\ IsForensic(evidence[e].of)
             => Covered(e) \/ (main = "case" /\ e = current) \/ e.of \in Snapshot
      BY <2>2, <3>1 DEF CasesCoverEvidence, Unreconciled
    <3> QED
      BY <2>6, <3>1, <3>2
  <2> QED
    BY <2>8, <2>9
<1>9. ASSUME NEW r \in Record, Probe(r) PROVE CasesCoverEvidence'
  <2>1. /\ UNCHANGED cases /\ main = "running" /\ r.by = "probe"
        /\ r \notin DOMAIN evidence => \/ main' = "case" /\ current' = r
                                       \/ r.of \in Snapshot
        /\ main \notin Unreconciled
    BY <1>9 DEF Probe, Unreconciled
  <2>2. CASE r \in DOMAIN evidence
    <3>1. UNCHANGED <<incidents, evidence>>
      BY <1>9, <2>2 DEF Probe
    <3> QED
      BY <1>u, <2>1, <3>1
  <2>3. CASE r \notin DOMAIN evidence
    <3>1. FileIncident(r, r.of, Boot) /\ r.of \in Fingerprint
      BY <1>9, <2>3, RecordFields DEF Probe
    <3>2. Filed(r, r.of, Boot)
      BY <1>b, <1>o, <3>1, FileIncidentEffect
    <3>3. \A e \in DOMAIN evidence :
                ForensicNext(evidence[e].of) => IsForensic(evidence[e].of)
      BY <1>b, <1>f, <3>1
    <3>4. \A e \in DOMAIN evidence : /\ evidence'[e] = evidence[e]
                                     /\ Covered(e) => CoveredNext(e)
      BY <2>1, <2>3, <3>2 DEF Filed, Covered, CoveredNext
    <3> SUFFICES ASSUME NEW e \in DOMAIN evidence'
                 PROVE  /\ e.by = "journal" /\ evidence'[e].of \in Forensic => CoveredNext(e)
                        /\ ForensicNext(evidence'[e].of)
                           => \/ CoveredNext(e)
                              \/ main' = "case" /\ e = current'
                              \/ e.of \in Snapshot
      BY DEF CasesCoverEvidence, CoveredNext, Covered, ForensicNext, IsForensic
    <3>5. CASE e = r
      BY <2>1, <2>3, <3>5
    <3>6. CASE e # r
      <4>1. e \in DOMAIN evidence
        BY <3>2, <3>6 DEF Filed
      <4>2. /\ e.by = "journal" /\ evidence[e].of \in Forensic => Covered(e)
            /\ IsForensic(evidence[e].of) => Covered(e) \/ e.of \in Snapshot
        BY <2>1, <4>1 DEF CasesCoverEvidence, Unreconciled
      <4> QED
        BY <3>3, <3>4, <4>1, <4>2
    <3> QED
      BY <3>5, <3>6
  <2> QED
    BY <2>2, <2>3
<1>10. CASE RecordCase
  <2>1. /\ UNCHANGED <<incidents, evidence>> /\ main = "case"
        /\ current \in Record /\ current.of \in Fingerprint /\ current.at \in 1..MaxTime
        /\ main' \in {"running", "override"}
        /\ current \in DOMAIN evidence =>
                /\ evidence[current] = [of |-> current.of, boot |-> Boot]
                /\ FileCase(current.of, Boot, current.at)
        /\ current \notin DOMAIN evidence => UNCHANGED cases
    BY <1>10, <1>t, RecordFields DEF RecordCase, ProbeInv, Probing, AfterCase
  <2>2. /\ \A key \in DOMAIN cases : key \in DOMAIN cases' /\ cases[key] \subseteq cases'[key]
        /\ current \in DOMAIN evidence /\ IsForensic(current.of)
             => /\ <<current.of, Boot>> \in DOMAIN cases'
                /\ Window(current.at) \subseteq cases'[<<current.of, Boot>>]
    <3>1. CASE current \in DOMAIN evidence
      BY <1>b, <1>o, <2>1, <3>1, FileCaseEffect
    <3>2. CASE current \notin DOMAIN evidence
      BY <2>1, <3>2
    <3> QED
      BY <3>1, <3>2
  <2>5. main \notin Unreconciled
    BY <2>1 DEF Unreconciled
  <2> SUFFICES ASSUME NEW e \in DOMAIN evidence
               PROVE  /\ e.by = "journal" /\ evidence[e].of \in Forensic => CoveredNext(e)
                      /\ IsForensic(evidence[e].of) => CoveredNext(e) \/ e.of \in Snapshot
    BY <2>1 DEF CasesCoverEvidence, CoveredNext, Covered, IsForensic
  <2>6. Covered(e) => CoveredNext(e)
    BY <2>1, <2>2 DEF Covered, CoveredNext
  <2>7. e = current /\ IsForensic(evidence[e].of) => CoveredNext(e)
    BY <2>1, <2>2 DEF CoveredNext
  <2>8. /\ e.by = "journal" /\ evidence[e].of \in Forensic => Covered(e)
        /\ IsForensic(evidence[e].of) => Covered(e) \/ e = current \/ e.of \in Snapshot
    BY <2>5 DEF CasesCoverEvidence, Unreconciled
  <2> QED
    BY <2>6, <2>7, <2>8
<1>11. CASE OverrideStatus
  <2>1. ASSUME NEW f \in DOMAIN incidents
        PROVE  incidents'[f].promoted = incidents[f].promoted
    <3>1. incidents[f] \in Row
      BY <1>o DEF TypeOK
    <3> QED
      BY <1>11, <3>1 DEF OverrideStatus, Row
  <2> QED
    BY <1>11, <1>u, <2>1 DEF OverrideStatus, Unreconciled
<1>12. ASSUME NEW f \in Fingerprint, NEW row \in Row,
              UpdateOpen(f, row), row.promoted = incidents[f].promoted
       PROVE  CasesCoverEvidence'
  <2>1. /\ DOMAIN incidents' = DOMAIN incidents
        /\ \A g \in DOMAIN incidents : incidents'[g].promoted = incidents[g].promoted
        /\ UNCHANGED <<evidence, cases, main, current>>
    BY <1>12 DEF UpdateOpen
  <2> QED
    BY <2>1 DEF CasesCoverEvidence, Covered, IsForensic
<1>13. ASSUME NEW f \in Fingerprint,
              \/ MeasuredCleared(f)
              \/ ResolveIncident(f)
              \/ \E b \in BOOLEAN : Acknowledge(f, b)
       PROVE  CasesCoverEvidence'
  <2> DEFINE old == incidents[f]
  <2>1. old \in Row
    BY <1>13, <1>o DEF MeasuredCleared, ResolveIncident, Acknowledge, UpdateOpen, TypeOK
  <2>2. ASSUME NEW s \in {"open", "resolved"}, NEW b \in BOOLEAN
        PROVE  /\ [old EXCEPT !.status = "resolved"] \in Row
               /\ [old EXCEPT !.status = "resolved"].promoted = old.promoted
               /\ [old EXCEPT !.acknowledged = b] \in Row
               /\ [old EXCEPT !.acknowledged = b].promoted = old.promoted
               /\ [old EXCEPT !.status = "resolved", !.acknowledged = FALSE] \in Row
               /\ [old EXCEPT !.status = "resolved", !.acknowledged = FALSE].promoted
                    = old.promoted
    BY <2>1 DEF Row
  <2>3. CASE MeasuredCleared(f)
    BY <1>12, <2>2, <2>3 DEF MeasuredCleared
  <2>4. CASE ResolveIncident(f)
    BY <1>12, <2>2, <2>4 DEF ResolveIncident
  <2>5. ASSUME NEW b \in BOOLEAN, Acknowledge(f, b) PROVE CasesCoverEvidence'
    BY <1>12, <2>2, <2>5 DEF Acknowledge
  <2> QED
    BY <1>13, <2>3, <2>4, <2>5
<1>14. CASE ClearHistory
  <2>1. DOMAIN <<>> = {}
    OBVIOUS
  <2> QED
    BY <1>14, <2>1 DEF ClearHistory, CasesCoverEvidence
<1> QED
  BY <1>1, <1>2, <1>3, <1>4, <1>5, <1>6, <1>7, <1>8, <1>9, <1>10, <1>11, <1>13, <1>14
     DEF Next, CollectorNext, UserNext

\* After a launch has reconciled, every retained record of a forensic incident
\* lies in the window of a case, whatever crashed, arrived late or was
\* promoted; the exceptions are those the invariant names.
THEOREM CasesAreComplete == Spec => []CasesCoverEvidence
<1> DEFINE IInv == TypedInv /\ EvidenceAccounted /\ CasesCoverEvidence
<1>1. Init => IInv
  <2>1. DOMAIN <<>> = {}
    OBVIOUS
  <2> QED
    BY <2>1, Constants
       DEF Init, TypedInv, TypeOK, ProbeInv, Probing, EvidenceAccounted, CasesCoverEvidence
<1>2. IInv /\ [Next]_vars => IInv'
  BY TypeStep, AccountedStep, CasesStep
<1>3. IInv => CasesCoverEvidence
  OBVIOUS
<1> QED
  BY <1>1, <1>2, <1>3, PTL DEF Spec
=============================================================================
