------------------------ MODULE ConditionProbeProofs ------------------------
(***************************************************************************)
(* Type correctness of ConditionProbe, that a condition seen clear is not  *)
(* left open, and that a failed scan resolves nothing, for any thresholds, *)
(* counter values, crash listings, crashes and reboots.                    *)
(***************************************************************************)
EXTENDS ConditionProbe, TLAPS

\* A process that has measured a metric clear since it last measured it active
\* has resolved its incident.
SeenClear == kind \in Metrics /\ seen /\ count = 0 => status # "open"

\* Only scans record the result of a scan.
ScannedOnly == kind \notin Scanned => scan = "none"

\* The inductive invariant behind both.
IInv == TypeOK /\ ClearedIsClosed /\ SeenClear /\ ScannedOnly

-----------------------------------------------------------------------------

\* What ProbeAssumption says of the constants.
LEMMA Constants ==
    /\ MaxNeed \in Nat /\ MaxNeed >= 1
    /\ MaxWorld \in Nat /\ MaxWorld >= 1
    /\ MaxDowns \in Nat
    /\ Unknown \notin Nat
  BY ProbeAssumption

\* 0 and 1 are states of the machine for every kind of condition.
LEMMA WorldFacts == 0 \in Worlds /\ 1 \in Worlds /\ Worlds \subseteq Nat
  BY Constants DEF Worlds

\* The states of the machine are those of the kind of condition.
LEMMA SameWorlds == ASSUME UNCHANGED kind PROVE Worlds' = Worlds
  BY DEF Worlds

\* A condition not yet observed satisfies IInv.
LEMMA InitIInv == Init => IInv
<1> SUFFICES ASSUME Init PROVE IInv
  OBVIOUS
<1>1. need \in 1..MaxNeed /\ count \in 0..MaxNeed
  <2>1. CASE kind \in Metrics
    BY <2>1, Constants DEF Init, NewProcess
  <2>2. CASE kind \notin Metrics
    BY <2>2, Constants DEF Init, NewProcess
  <2> QED BY <2>1, <2>2
<1>2. TypeOK
  <2>1. downs \in 0..MaxDowns /\ previous \in Worlds \cup {Unknown} /\ world \in Worlds
    BY Constants, WorldFacts DEF Init, NewProcess
  <2> QED BY <1>1, <2>1 DEF Init, TypeOK, NewProcess
<1> QED BY <1>2 DEF Init, IInv, ClearedIsClosed, SeenClear, ScannedOnly, NewProcess

\* What filing an observation of the machine does to the incident.
LEMMA IssueTypes ==
    ASSUME TypeOK, NEW key \in Worlds, Issue(key)
    PROVE  /\ status' \in {"none", "open", "resolved", "historical"}
           /\ past' \in BOOLEAN
           /\ filed' \subseteq Worlds
  BY DEF TypeOK, Issue

\* Resolving or leaving an incident keeps the types, and what is resolved is
\* not open.
LEMMA ResolveTypes ==
    ASSUME TypeOK, Resolve \/ Leave
    PROVE  /\ status' \in {"none", "open", "resolved", "historical"}
           /\ past' = past /\ filed' = filed
           /\ Resolve => status' # "open"
           /\ Leave => status' = status
  BY DEF TypeOK, Resolve, Leave

\* A threshold counts within its bound, and an inactive measurement leaves a
\* count of 0 and no open incident.
LEMMA ThresholdEffect ==
    ASSUME IInv, kind \in Metrics, NEW active \in BOOLEAN, Threshold(active)
    PROVE  /\ seen' = TRUE
           /\ count' \in 0..MaxNeed
           /\ status' \in {"none", "open", "resolved", "historical"}
           /\ past' \in BOOLEAN
           /\ filed' \subseteq Worlds
           /\ active => count' # 0
           /\ ~active => count' = 0 /\ status' # "open"
<1> USE DEF IInv
<1>1. count \in 0..MaxNeed /\ need \in 1..MaxNeed /\ need >= 1
  BY Constants DEF TypeOK
<1>2. /\ seen' = TRUE
      /\ count' = IF ~active THEN 0 ELSE IF count < need THEN count + 1 ELSE need
  BY DEF Threshold
<1>3. count' \in 0..MaxNeed /\ (active => count' # 0) /\ (~active => count' = 0)
  BY <1>1, <1>2, Constants
<1>4. Issue(1) \/ Resolve \/ Leave
  BY DEF Threshold
<1>5. /\ status' \in {"none", "open", "resolved", "historical"}
      /\ past' \in BOOLEAN
      /\ filed' \subseteq Worlds
  BY <1>4, WorldFacts, IssueTypes, ResolveTypes DEF TypeOK
<1>6. ASSUME ~active PROVE status' # "open"
  <2>1. CASE Cleared(active)
    BY <1>6, <2>1, ResolveTypes DEF Threshold
  <2>2. CASE ~Cleared(active)
    <3>1. seen /\ count = 0
      BY <1>1, <1>6, <2>2 DEF Cleared, TypeOK
    <3>2. Leave
      BY <1>6, <2>2 DEF Threshold
    <3> QED BY <3>1, <3>2 DEF SeenClear, Leave
  <2> QED BY <2>1, <2>2
<1> QED BY <1>2, <1>3, <1>5, <1>6

-----------------------------------------------------------------------------
(* Every step preserves IInv.                                              *)

\* Measurements preserve the invariant.
LEMMA MeasureStep ==
    ASSUME IInv, SampleMetric \/ SampleCounter \/ NoSample
    PROVE  IInv'
<1> USE Constants, WorldFacts DEF Probing, process
<1>0. TypeOK /\ SeenClear /\ ScannedOnly /\ ClearedIsClosed
  BY DEF IInv
<1>1. CASE SampleMetric
  <2> DEFINE active == world = 1 /\ (kind = "cpu" => sampled)
  <2>1. /\ kind \in Metrics /\ active \in BOOLEAN /\ Threshold(active)
        /\ UNCHANGED <<kind, need, world, running, downs, scan, previous>>
        /\ sampled' = TRUE
        /\ observed' = IF kind = "cpu" /\ ~sampled THEN "blind"
                       ELSE IF world = 1 THEN "active" ELSE "clear"
    BY <1>1 DEF SampleMetric
  <2> HIDE DEF active
  <2>2. /\ seen' = TRUE
        /\ count' \in 0..MaxNeed
        /\ status' \in {"none", "open", "resolved", "historical"}
        /\ past' \in BOOLEAN
        /\ filed' \subseteq Worlds
        /\ active => count' # 0
        /\ ~active => count' = 0 /\ status' # "open"
    BY <2>1, ThresholdEffect
  <2>3. TypeOK'
    BY <1>0, <2>1, <2>2, SameWorlds DEF TypeOK
  <2>4. ClearedIsClosed'
    <3>1. observed' = "clear" => ~active
      BY <2>1 DEF active
    <3> QED BY <2>2, <3>1 DEF ClearedIsClosed
  <2>5. SeenClear' /\ ScannedOnly'
    BY <1>0, <2>1, <2>2 DEF SeenClear, ScannedOnly
  <2> QED BY <2>3, <2>4, <2>5 DEF IInv
<1>2. CASE SampleCounter
  <2>1. Issue(1) \/ Resolve \/ Leave
    BY <1>2 DEF SampleCounter
  <2>2. /\ status' \in {"none", "open", "resolved", "historical"}
        /\ past' \in BOOLEAN
        /\ filed' \subseteq Worlds
    BY <1>0, <2>1, IssueTypes, ResolveTypes DEF TypeOK
  <2>3. TypeOK'
    BY <1>0, <1>2, <2>2, SameWorlds DEF SampleCounter, TypeOK
  <2> QED BY <1>0, <1>2, <2>3
          DEF SampleCounter, IInv, ClearedIsClosed, SeenClear, ScannedOnly, Metrics
<1>3. CASE NoSample
  BY <1>0, <1>3, SameWorlds
     DEF NoSample, IInv, TypeOK, ClearedIsClosed, SeenClear, ScannedOnly
<1> QED BY <1>1, <1>2, <1>3

\* A scan keeps the process, is of a condition that is scanned, and is sure of
\* what it sees only when it closes what it does not see.
LEMMA ScanEffect ==
    ASSUME IInv, Scanning, kind \in Scanned,
           scan' \in {"ok", "warning", "critical", "error"},
           status' \in {"none", "open", "resolved", "historical"},
           past' \in BOOLEAN, filed' \subseteq Worlds,
           observed' \in {"clear", "active", "blind"},
           observed' = "clear" /\ kind # "drive" => status' # "open"
    PROVE  IInv'
<1> USE DEF IInv, Scanning, Probing, process
<1>1. TypeOK'
  BY SameWorlds DEF TypeOK
<1> QED BY <1>1 DEF ClearedIsClosed, SeenClear, ScannedOnly, Scanned, Metrics, Crashes

\* What the listing of the crash directory does.
LEMMA ListingEffect ==
    ASSUME TypeOK, NEW listing \in Worlds, ScanListing(listing)
    PROVE  /\ scan' \in {"ok", "warning"}
           /\ status' \in {"none", "open", "resolved", "historical"}
           /\ past' \in BOOLEAN /\ filed' \subseteq Worlds
           /\ listing = 0 => status' # "open"
<1>1. scan' \in {"ok", "warning"}
  BY DEF ScanListing, RecordScan
<1>2. CASE listing = 0
  BY <1>1, <1>2, ResolveTypes DEF ScanListing, TypeOK
<1>3. CASE listing # 0 /\ kind = "storage"
  BY <1>1, <1>3, IssueTypes DEF ScanListing
<1>4. CASE listing # 0 /\ kind # "storage"
  BY <1>1, <1>4 DEF ScanListing, TypeOK
<1> QED BY <1>2, <1>3, <1>4

\* Scans preserve the invariant.
LEMMA ScanStep ==
    ASSUME IInv,
           \/ ScanUnit \/ ScanUnitError \/ ScanUnitFails
           \/ ScanCrashes \/ ScanCrashesFallback
           \/ ScanSmart \/ ScanInventory \/ ScanFails
    PROVE  IInv'
<1> USE WorldFacts DEF RecordScan
<1>0. TypeOK
  BY DEF IInv
<1>1. CASE ScanUnit
  <2>1. Issue(1) \/ Resolve
    BY <1>1 DEF ScanUnit
  <2>2. world = 1 \/ Resolve
    BY <1>1 DEF ScanUnit
  <2> QED BY <1>0, <1>1, <2>1, <2>2, IssueTypes, ResolveTypes, ScanEffect
          DEF ScanUnit, Scanned, TypeOK
<1>2. CASE ScanUnitError \/ ScanUnitFails \/ ScanInventory \/ ScanFails
  BY <1>0, <1>2, ResolveTypes, ScanEffect
     DEF ScanUnitError, ScanUnitFails, ScanInventory, ScanFails, Scanned, TypeOK
<1>3. CASE ScanCrashes
  <2>1. ScanListing(world) /\ world \in Worlds
    BY <1>0, <1>3 DEF ScanCrashes, TypeOK
  <2> QED BY <1>0, <1>3, <2>1, ListingEffect, ScanEffect DEF ScanCrashes, Scanned
<1>4. CASE ScanCrashesFallback
  <2>1. PICK listing \in Worlds : ScanListing(listing)
    BY <1>4 DEF ScanCrashesFallback
  <2> QED BY <1>0, <1>4, <2>1, ListingEffect, ScanEffect DEF ScanCrashesFallback, Scanned
<1>5. CASE ScanSmart
  <2>1. Issue(1) \/ Leave
    BY <1>5 DEF ScanSmart
  <2> QED BY <1>0, <1>5, <2>1, IssueTypes, ResolveTypes, ScanEffect
          DEF ScanSmart, Scanned, TypeOK
<1> QED BY <1>1, <1>2, <1>3, <1>4, <1>5

\* A crash or a reboot keeps the types.
LEMMA DownTypes ==
    ASSUME TypeOK, NEW reboot \in BOOLEAN, Down(reboot)
    PROVE  TypeOK'
<1>1. UNCHANGED <<kind, need, status, filed, scan>>
  BY DEF Down, Others
<1>2. /\ running' = FALSE /\ observed' = "none"
      /\ count' = 0 /\ seen' = FALSE /\ previous' = Unknown /\ sampled' = FALSE
  BY DEF Down, Others
<1>3. downs' \in 0..MaxDowns
  BY Constants DEF Down, TypeOK
<1>4. world' \in {0, world}
  BY DEF Down
<1>5. past \in BOOLEAN /\ past' = (past \/ reboot)
  BY DEF Down, TypeOK
<1>6. past' \in BOOLEAN
  BY <1>5, Zenon
<1>7. Worlds' = Worlds
  BY <1>1, SameWorlds
<1>8. world' \in Worlds' /\ filed' \subseteq Worlds' /\ count' \in 0..MaxNeed
  BY <1>1, <1>2, <1>4, <1>7, WorldFacts, Constants DEF TypeOK
<1> HIDE DEF Worlds
<1> QED BY <1>1, <1>2, <1>3, <1>6, <1>8 DEF TypeOK

\* What the machine, the process and the user do preserves the invariant.
LEMMA OtherStep ==
    ASSUME IInv,
           \/ Change \/ Roll \/ Launch \/ UserResolves \/ ClearHistory
           \/ \E reboot \in BOOLEAN : Down(reboot)
    PROVE  IInv'
<1> USE Constants, WorldFacts, SameWorlds
    DEF Others, process, IInv, TypeOK, ClearedIsClosed, SeenClear, ScannedOnly
<1>1. CASE Change
  BY <1>1 DEF Change
<1>2. CASE Roll
  BY <1>2 DEF Roll
<1>3. CASE Launch
  BY <1>3 DEF Launch
<1>4. CASE UserResolves
  BY <1>4 DEF UserResolves
<1>5. CASE ClearHistory
  BY <1>5 DEF ClearHistory
<1>6. CASE \E reboot \in BOOLEAN : Down(reboot)
  <2>1. PICK reboot \in BOOLEAN : Down(reboot)
    BY <1>6
  <2>2. UNCHANGED <<kind, status, scan>> /\ observed' = "none" /\ seen' = FALSE
    BY <2>1 DEF Down
  <2> QED BY <2>1, <2>2, DownTypes
<1> HIDE DEF Others, process, IInv, TypeOK, ClearedIsClosed, SeenClear, ScannedOnly
<1> QED BY <1>1, <1>2, <1>3, <1>4, <1>5, <1>6

\* IInv is inductive.
LEMMA Inductive == IInv /\ [Next]_vars => IInv'
<1> SUFFICES ASSUME IInv, [Next]_vars PROVE IInv'
  OBVIOUS
<1>1. CASE Next
  BY <1>1, MeasureStep, ScanStep, OtherStep DEF Next, Observe
<1>2. CASE UNCHANGED vars
  BY <1>2, SameWorlds
     DEF vars, process, IInv, TypeOK, ClearedIsClosed, SeenClear, ScannedOnly
<1> QED BY <1>1, <1>2

\* The inductive invariant holds throughout.
LEMMA Invariance == Spec => []IInv
  BY InitIInv, Inductive, PTL DEF Spec

-----------------------------------------------------------------------------

\* The probes are type correct for any thresholds, counters and listings.
THEOREM TypeCorrect == Spec => []TypeOK
<1>1. IInv => TypeOK
  BY DEF IInv
<1> QED BY <1>1, Invariance, PTL

\* Whatever thresholds, restarts and earlier processes there were, a condition
\* that a probe has just seen clear has no open incident.
THEOREM ClearIsClosed == Spec => []ClearedIsClosed
<1>1. IInv => ClearedIsClosed
  BY DEF IInv
<1> QED BY <1>1, Invariance, PTL

\* No scan that is recorded as failed resolves an incident.
THEOREM FailureResolvesNothing == Spec => FailedScanResolvesNothing
<1>1. IInv /\ [Next]_vars => [observed' = "blind" /\ scan' = "error" => status' = status]_vars
  <2> SUFFICES ASSUME IInv, Next, observed' = "blind", scan' = "error"
               PROVE  status' = status
    OBVIOUS
  <2>1. CASE SampleMetric \/ SampleCounter \/ NoSample
    BY <2>1 DEF SampleMetric, SampleCounter, NoSample, Probing, IInv, ScannedOnly,
                Scanned, Crashes, Metrics
  <2>2. CASE ScanUnit \/ ScanUnitError \/ ScanCrashes \/ ScanSmart
    BY <2>2 DEF ScanUnit, ScanUnitError, ScanCrashes, ScanSmart, RecordScan
  <2>3. CASE ScanCrashesFallback
    BY <2>3 DEF ScanCrashesFallback, ScanListing, RecordScan
  <2>4. CASE ScanUnitFails \/ ScanInventory \/ ScanFails
    BY <2>4 DEF ScanUnitFails, ScanInventory, ScanFails, Leave
  <2>5. CASE Change \/ Roll \/ Launch \/ UserResolves \/ ClearHistory
    BY <2>5 DEF Change, Roll, Launch, UserResolves, ClearHistory, Others
  <2>6. CASE \E reboot \in BOOLEAN : Down(reboot)
    BY <2>6 DEF Down, Others
  <2> QED BY <2>1, <2>2, <2>3, <2>4, <2>5, <2>6 DEF Next, Observe
<1> QED BY <1>1, Invariance, PTL DEF Spec, FailedScanResolvesNothing
=============================================================================
