------------------------ MODULE NotificationsProofs ------------------------
(***************************************************************************)
(* Proofs about Notifications: however the two threads interleave, fail    *)
(* and crash, the rate limit is overshot by one ordinary alert at most, an *)
(* alert is repeated only when it has become more severe, and one is held  *)
(* back only after displays, for any incidents, cooldown and limit.        *)
(***************************************************************************)
EXTENDS Notifications, SequenceTheorems, FunctionTheorems, FiniteSetTheorems, TLAPS

-----------------------------------------------------------------------------
(* The inductive invariant.                                                *)

\* A call is about an incident its thread files, and a delivery lasts over one
\* tick at most.
CallsOK ==
    \A t \in Thread : task[t] # NoTask =>
        /\ task[t].of \in Files(t)
        /\ task[t].step \in {"sending", "sent"} =>
              task[t] \in Sending /\ task[t].at <= now /\ now <= task[t].at + 1

\* Displays are in the order of their times, which are past, and a delivery is
\* of the newest.
InTime ==
    /\ \A f \in Incident : \A i \in DOMAIN shown[f] : shown[f][i].at <= now
    /\ \A f \in Incident : \A i, j \in DOMAIN shown[f] :
          i < j => shown[f][i].at <= shown[f][j].at
    /\ \A t \in Underway : \A i \in DOMAIN shown[task[t].of] :
          shown[task[t].of][i].at <= task[t].at

\* What is yet to be recorded is the incident's last display.
SentIsLast ==
    \A t \in Thread : task[t] # NoTask /\ task[t].step = "sent" =>
        LET displays == shown[task[t].of] IN
        /\ displays # <<>>
        /\ displays[Len(displays)] =
              [at |-> task[t].at, severity |-> task[t].severity,
               ordinary |-> task[t].ordinary, recorded |-> FALSE]

\* The table knows every recorded display within the cooldown.
TableKnows ==
    \A f \in Incident : \A i \in DOMAIN shown[f] :
        LET d == shown[f][i] IN
        d.recorded /\ now - d.at < Cooldown =>
            /\ f \in DOMAIN told
            /\ told[f].last >= d.at
            /\ Rank[told[f].severity] >= Rank[d.severity]

\* Nothing is in the table, within the cooldown, that was not displayed.
TableIsTrue ==
    \A f \in DOMAIN told : now - told[f].last < Cooldown =>
        \E i \in DOMAIN shown[f] : /\ shown[f][i].at = told[f].last
                                   /\ shown[f][i].severity = told[f].severity

\* An alert at time at repeats no recorded display unless it is worse, and
\* then it is no ordinary one.
Worse(at, severe, ordinary, d) ==
    d.recorded /\ at - d.at < Cooldown => Rank[severe] > Rank[d.severity] /\ ~ordinary

RepeatsAreWorse ==
    \A f \in Incident : \A i, j \in DOMAIN shown[f] : i < j =>
        Worse(shown[f][j].at, shown[f][j].severity, shown[f][j].ordinary, shown[f][i])

DeliveryIsWorse ==
    \A t \in Thread : task[t] # NoTask /\ task[t].step = "sending" =>
        \A i \in DOMAIN shown[task[t].of] :
            Worse(task[t].at, task[t].severity, task[t].ordinary, shown[task[t].of][i])

\* The incidents with an ordinary alert in the ten minutes up to t, displayed
\* and recorded or underway.
Alerted(t) ==
    {f \in Incident : \E i \in DOMAIN shown[f] :
        LET d == shown[f][i] IN d.ordinary /\ d.recorded /\ d.at \in (t - Recent)..t}
Pending(t) ==
    {f \in Incident : \E u \in Underway :
        task[u].of = f /\ task[u].ordinary /\ task[u].at \in (t - Recent)..t}

FewAlerted == \A t \in 0..now : Cardinality(Alerted(t) \cup Pending(t)) <= Limit + 1

IInv ==
    /\ TypeOK /\ CallsOK /\ InTime /\ SentIsLast
    /\ TableKnows /\ TableIsTrue /\ RepeatsAreWorse /\ DeliveryIsWorse /\ FewAlerted

-----------------------------------------------------------------------------
(* Lemmas about ranks, tables and histories.                               *)

\* Ranks are numbers, and an alert's severity is one.
LEMMA RankNat ==
    /\ \A s \in Severity : Rank[s] \in Nat
    /\ Alertable \subseteq Severity
BY DEF Severity, Rank, Alertable

\* The constants are numbers, and no call is NoTask.
LEMMA Bounds ==
    /\ Cooldown \in Nat /\ Recent \in Nat /\ Limit \in Nat /\ MaxTime \in Nat /\ MaxLosses \in Nat
    /\ 0 < Recent /\ Recent < Cooldown
    /\ Call \cap {NoTask} = {} /\ Sending \cap {NoTask} = {}
BY NotificationsAssumption

\* An UPSERT gives its key the value, and leaves the others.
LEMMA WithFacts ==
    ASSUME NEW f, NEW k, NEW v
    PROVE  /\ DOMAIN With(f, k, v) = DOMAIN f \cup {k}
           /\ With(f, k, v)[k] = v
           /\ \A x \in DOMAIN f \ {k} : With(f, k, v)[x] = f[x]
BY DEF With

\* left is a suffix of displays that has all that is not outdated at time t.
DropsOutdated(displays, t, left) ==
    \E o \in 0..Len(displays) :
        /\ DOMAIN left = 1..Len(displays) - o /\ Len(left) = Len(displays) - o
        /\ \A i \in 1..Len(displays) - o :
              i + o \in DOMAIN displays /\ left[i] = displays[i + o]
        /\ \A i \in DOMAIN displays : t - displays[i].at < Cooldown => i > o

\* Dropping the outdated displays leaves the others.
LEMMA NotOutdatedFacts ==
    ASSUME NEW s \in Seq(Display), NEW t \in Int,
           \A i, j \in DOMAIN s : i < j => s[i].at <= s[j].at
    PROVE  NotOutdated(s, t) \in Seq(Display) /\ DropsOutdated(s, t, NotOutdated(s, t))
<1> DEFINE outdated == {i \in DOMAIN s : t - s[i].at >= Cooldown}
           o == Cardinality(outdated)
<1>1. Len(s) \in Nat /\ DOMAIN s = 1..Len(s) /\ \A i \in DOMAIN s : s[i] \in Display
    BY LenProperties, ElementOfSeq
<1>2. \A i \in DOMAIN s : s[i].at \in Int
    BY <1>1, Bounds DEF Display
<1>4. \A n \in Nat : IsFiniteSet(1..n) /\ Cardinality(1..n) = n
    BY FS_Interval
<1>5. outdated \subseteq 1..Len(s)
    BY <1>1
<1>6. o \in Nat /\ o <= Len(s)
    BY <1>1, <1>4, <1>5, FS_Subset, FS_CardinalityType
<1>7. ASSUME NEW i \in DOMAIN s, t - s[i].at < Cooldown PROVE i > o
    <2>1. ASSUME NEW j \in outdated PROVE j < i
        <3>0. t - s[i].at < Cooldown /\ ~(t - s[i].at >= Cooldown)
            BY <1>2, <1>7, Bounds
        <3>1. j \in Nat /\ i \in Nat /\ j # i
            BY <1>1, <2>1, <3>0
        <3>2. ~(i < j)
            <4>1. i < j => s[i].at <= s[j].at
                BY <2>1
            <4>2. j \in DOMAIN s /\ t - s[j].at >= Cooldown
                BY <2>1
            <4>3. s[i].at \in Int /\ s[j].at \in Int /\ Cooldown \in Int
                BY <1>2, <4>2, Bounds
            <4> QED
                BY <1>7, <4>1, <4>2, <4>3
        <3> QED
            BY <3>1, <3>2
    <2>2. i \in Nat /\ i >= 1
        BY <1>1
    <2>3. outdated \subseteq 1..(i - 1)
        BY <1>1, <2>1, <2>2
    <2>4. i - 1 \in Nat
        BY <2>2
    <2>5. IsFiniteSet(1..(i - 1)) /\ Cardinality(1..(i - 1)) = i - 1
        BY <1>4, <2>4
    <2>6. o <= i - 1
        BY <2>3, <2>5, FS_Subset
    <2> QED
        BY <1>6, <2>2, <2>6
<1> HIDE DEF o
<1>8. NotOutdated(s, t) = [i \in 1..Len(s) - o |-> s[o + i]]
    BY DEF o, NotOutdated
<1>9. Len(s) - o \in Nat /\ \A i \in 1..Len(s) - o : o + i \in DOMAIN s /\ o + i = i + o
    BY <1>1, <1>6
<1>10. PICK r : r = NotOutdated(s, t)
    OBVIOUS
<1>11. r \in [1..Len(s) - o -> Display]
    BY <1>1, <1>8, <1>9, <1>10
<1>12. r \in Seq(Display) /\ Len(r) = Len(s) - o /\ DOMAIN r = 1..Len(s) - o
    <2>1. r \in Seq(Display)
        BY <1>9, <1>11, SeqDef
    <2>2. DOMAIN r = 1..Len(s) - o
        BY <1>11
    <2> QED
        BY <1>9, <2>1, <2>2, LenProperties
<1>13. \A i \in 1..Len(s) - o : r[i] = s[i + o]
    BY <1>8, <1>9, <1>10
<1>14. o \in 0..Len(s) /\ \A i \in 1..Len(s) - o : i + o \in DOMAIN s
    BY <1>1, <1>6
<1>15. DropsOutdated(s, t, r)
    BY <1>7, <1>12, <1>13, <1>14 DEF DropsOutdated
<1> QED
    BY <1>10, <1>12, <1>15

\* The two threads announce different incidents.
LEMMA OwnIncidents ==
    ASSUME CallsOK, NEW t \in Thread, NEW u \in Thread, t # u,
           task[t] # NoTask, task[u] # NoTask
    PROVE  task[t].of # task[u].of
BY NotificationsAssumption DEF CallsOK, Files, Thread

\* Every incident is one of a thread's, and every thread's an incident.
LEMMA FilesIncidents == \A t \in Thread : Files(t) \subseteq Incident
BY DEF Files, Incident

\* A task is one of three kinds.
LEMMA TaskKinds ==
    ASSUME TypeOK, NEW t \in Thread, task[t] # NoTask
    PROVE  /\ task[t].of \in Incident /\ task[t].step \in {"filed", "sending", "sent"}
           /\ task[t].step = "filed" => task[t] \in Call
           /\ task[t].step # "filed" => 
                 /\ task[t] \in Sending /\ task[t].at \in 0..MaxTime
                 /\ task[t].severity \in Alertable /\ task[t].ordinary \in BOOLEAN
<1>1. task[t] \in Call \/ task[t] \in Sending
    BY DEF TypeOK
<1>2. CASE task[t] \in Call
    BY <1>2 DEF Call
<1>3. CASE task[t] \in Sending
    BY <1>3 DEF Sending
<1> QED
    BY <1>1, <1>2, <1>3

-----------------------------------------------------------------------------
(* What each step does to the displays and the calls.                      *)

\* The type invariant's parts.
ClockOK    == now \in 0..MaxTime /\ losses \in 0..MaxLosses
SeverityOK == DOMAIN severity \subseteq Incident /\ severity \in [DOMAIN severity -> Severity]
ToldOK     == /\ DOMAIN told \subseteq Incident
              /\ told \in [DOMAIN told -> [last: 0..MaxTime, severity: Alertable]]
TaskOK     == task \in [Thread -> Call \cup Sending \cup {NoTask}]
ShownOK    == shown \in [Incident -> Seq(Display)]

\* The type of each part is the type of the whole...
LEMMA TypeParts == TypeOK <=> ClockOK /\ SeverityOK /\ ToldOK /\ TaskOK /\ ShownOK
BY DEF TypeOK, ClockOK, SeverityOK, ToldOK, TaskOK, ShownOK

\* ... and of the next state.
LEMMA TypePartsPrimed == TypeOK' <=> ClockOK' /\ SeverityOK' /\ ToldOK' /\ TaskOK' /\ ShownOK'
BY DEF TypeOK, ClockOK, SeverityOK, ToldOK, TaskOK, ShownOK

\* The displays of an incident are in Display.
LEMMA ShownFacts ==
    ASSUME TypeOK, NEW f \in Incident
    PROVE  /\ shown[f] \in Seq(Display) /\ Len(shown[f]) \in Nat
           /\ DOMAIN shown[f] = 1..Len(shown[f])
           /\ \A i \in DOMAIN shown[f] :
                 /\ shown[f][i] \in Display /\ shown[f][i].at \in Nat
                 /\ shown[f][i].severity \in Alertable
                 /\ Rank[shown[f][i].severity] \in Nat
<1>1. shown[f] \in Seq(Display)
    BY DEF TypeOK
<1>2. Len(shown[f]) \in Nat /\ DOMAIN shown[f] = 1..Len(shown[f])
    BY <1>1, LenProperties
<1>3. ASSUME NEW i \in DOMAIN shown[f]
      PROVE  /\ shown[f][i] \in Display /\ shown[f][i].at \in Nat
             /\ shown[f][i].severity \in Alertable
             /\ Rank[shown[f][i].severity] \in Nat
    <2>1. shown[f][i] \in Display
        BY <1>1, <1>2, <1>3, ElementOfSeq
    <2> QED
        BY <2>1, RankNat, Bounds DEF Display
<1> QED
    BY <1>1, <1>2, <1>3

\* Time passes, and the outdated displays are dropped.
LEMMA TickFacts ==
    ASSUME TypeOK, InTime, Tick
    PROVE  /\ now' = now + 1 /\ now \in Nat /\ UNCHANGED <<severity, told, task, losses>>
           /\ ShownOK'
           /\ \A t \in Underway : task[t].at = now
           /\ \A f \in Incident : DropsOutdated(shown[f], now + 1, shown'[f])
<1>1. now' = now + 1 /\ now \in Nat /\ UNCHANGED <<severity, told, task, losses>>
    BY Bounds DEF Tick, TypeOK
<1>2. shown' = [f \in Incident |-> NotOutdated(shown[f], now + 1)]
    BY DEF Tick
<1>3. ASSUME NEW f \in Incident
      PROVE  shown'[f] \in Seq(Display) /\ DropsOutdated(shown[f], now + 1, shown'[f])
    <2>1. shown[f] \in Seq(Display) /\ now + 1 \in Int
        BY <1>1, ShownFacts
    <2>2. \A i, j \in DOMAIN shown[f] : i < j => shown[f][i].at <= shown[f][j].at
        BY DEF InTime
    <2>3. /\ NotOutdated(shown[f], now + 1) \in Seq(Display)
          /\ DropsOutdated(shown[f], now + 1, NotOutdated(shown[f], now + 1))
        BY <2>1, <2>2, NotOutdatedFacts
    <2> QED
        BY <1>2, <2>3
<1>4. ShownOK'
    BY <1>2, <1>3 DEF ShownOK
<1> QED
    BY <1>1, <1>3, <1>4 DEF Tick

\* A decision to send is one about an incident whose alert is due now.
LEMMA DecideFacts ==
    ASSUME TypeOK, CallsOK, NEW t \in Thread, Decide(t)
    PROVE  /\ UNCHANGED <<now, severity, told, shown, losses>>
           /\ task[t] # NoTask /\ task[t].step = "filed" /\ task[t].of \in Files(t)
           /\ \A u \in Thread \ {t} : task'[u] = task[u]
           /\ IF MaySend(task[t].of)
              THEN /\ task'[t] \in Sending /\ task'[t] # NoTask
                   /\ task'[t].of = task[t].of /\ task'[t].step = "sending"
                   /\ task'[t].at = now /\ task'[t].severity = severity[task[t].of]
                   /\ task'[t].ordinary <=> /\ severity[task[t].of] # "Critical"
                                            /\ ~Escalated(task[t].of)
              ELSE task'[t] = NoTask
           /\ TaskOK'
<1> DEFINE f == task[t].of
           record == [of |-> f, step |-> "sending", at |-> now, severity |-> severity[f],
                      ordinary |-> severity[f] # "Critical" /\ ~Escalated(f)]
<1>1. /\ UNCHANGED <<now, severity, told, shown, losses>>
      /\ task[t] # NoTask /\ task[t].step = "filed" /\ f \in Files(t)
      /\ task' = [task EXCEPT ![t] = IF MaySend(f) THEN record ELSE NoTask]
    BY DEF Decide, CallsOK
<1>2. task \in [Thread -> Call \cup Sending \cup {NoTask}]
    BY DEF TypeOK
<1>3. task'[t] = IF MaySend(f) THEN record ELSE NoTask
    BY <1>1, <1>2
<1>4. \A u \in Thread \ {t} : task'[u] = task[u]
    BY <1>1, <1>2
<1>5. f \in Incident /\ now \in 0..MaxTime
    BY <1>1, FilesIncidents DEF TypeOK
<1>6. (severity[f] # "Critical" /\ ~Escalated(f)) \in BOOLEAN
    BY Zenon
<1>7. CASE MaySend(f)
    <2>1. severity[f] \in Alertable
        BY <1>7 DEF MaySend
    <2>2. record \in Sending
        BY <1>5, <1>6, <2>1 DEF Sending
    <2>3. record.ordinary <=> severity[f] # "Critical" /\ ~Escalated(f)
        OBVIOUS
    <2>4. task'[t] = record /\ record # NoTask
        BY <1>3, <1>7, <2>2, Bounds
    <2>5. TaskOK'
        BY <1>1, <1>2, <1>7, <2>2 DEF TaskOK
    <2> QED
        BY <1>1, <1>4, <1>7, <2>2, <2>3, <2>4, <2>5
<1>8. CASE ~MaySend(f)
    <2>1. task'[t] = NoTask
        BY <1>3, <1>8
    <2>2. TaskOK'
        BY <1>1, <1>2, <1>8 DEF TaskOK
    <2> QED
        BY <1>1, <1>4, <1>8, <2>1, <2>2
<1> QED
    BY <1>7, <1>8

\* A delivery adds the alert to the displays of its incident.
LEMMA DeliverFacts ==
    ASSUME TypeOK, NEW t \in Thread, Deliver(t)
    PROVE  LET f == task[t].of
               n == Len(shown[f])
               d == [at |-> task[t].at, severity |-> task[t].severity,
                     ordinary |-> task[t].ordinary, recorded |-> FALSE] IN
           /\ UNCHANGED <<now, severity, told, losses>>
           /\ task[t] # NoTask /\ task[t].step = "sending" /\ f \in Incident
           /\ \A u \in Thread \ {t} : task'[u] = task[u]
           /\ task'[t] # NoTask /\ task'[t].of = f /\ task'[t].step = "sent"
           /\ task'[t].at = task[t].at /\ task'[t].severity = task[t].severity
           /\ task'[t].ordinary = task[t].ordinary /\ task'[t] \in Sending
           /\ TaskOK' /\ ShownOK'
           /\ \A g \in Incident \ {f} : shown'[g] = shown[g]
           /\ n \in Nat /\ DOMAIN shown[f] = 1..n
           /\ Len(shown'[f]) = n + 1 /\ DOMAIN shown'[f] = 1..(n + 1)
           /\ \A i \in 1..n : shown'[f][i] = shown[f][i]
           /\ shown'[f][n + 1] = d
<1> DEFINE f == task[t].of
           n == Len(shown[f])
           d == [at |-> task[t].at, severity |-> task[t].severity,
                 ordinary |-> task[t].ordinary, recorded |-> FALSE]
<1>1. /\ UNCHANGED <<now, severity, told, losses>>
      /\ task[t] # NoTask /\ task[t].step = "sending"
      /\ shown' = [shown EXCEPT ![f] = Append(shown[f], d)]
      /\ task' = [task EXCEPT ![t].step = "sent"]
    BY DEF Deliver, Send
<1>2. task[t] \in Sending /\ f \in Incident
    BY <1>1, TaskKinds
<1>3. [task[t] EXCEPT !.step = "sent"] \in Sending
    BY <1>2 DEF Sending
<1>4. task'[t] = [task[t] EXCEPT !.step = "sent"] /\ TaskOK'
        /\ \A u \in Thread \ {t} : task'[u] = task[u]
    BY <1>1, <1>3 DEF TypeOK, TaskOK
<1>5. /\ task'[t] # NoTask /\ task'[t].of = f /\ task'[t].step = "sent"
      /\ task'[t].at = task[t].at /\ task'[t].severity = task[t].severity
      /\ task'[t].ordinary = task[t].ordinary /\ task'[t] \in Sending
    BY <1>2, <1>3, <1>4, Bounds DEF Sending
<1>6. d \in Display
    <2>1. FALSE \in BOOLEAN
        OBVIOUS
    <2> QED
        BY <1>2, <2>1 DEF Sending, Display
<1>7. shown[f] \in Seq(Display) /\ n \in Nat /\ DOMAIN shown[f] = 1..n
    BY <1>2, ShownFacts
<1> HIDE DEF d
<1>8. /\ Append(shown[f], d) \in Seq(Display) /\ Len(Append(shown[f], d)) = n + 1
      /\ \A i \in 1..n : Append(shown[f], d)[i] = shown[f][i]
      /\ Append(shown[f], d)[n + 1] = d
    BY <1>6, <1>7, AppendProperties
<1>9. shown \in [Incident -> Seq(Display)]
    BY DEF TypeOK
<1>10. shown'[f] = Append(shown[f], d) /\ ShownOK'
        /\ \A g \in Incident \ {f} : shown'[g] = shown[g]
    BY <1>1, <1>2, <1>8, <1>9 DEF ShownOK
<1>11. DOMAIN shown'[f] = 1..(n + 1)
    BY <1>7, <1>8, <1>10, LenProperties
<1> QED
    BY <1>1, <1>2, <1>4, <1>5, <1>7, <1>8, <1>10, <1>11 DEF d

\* A delivery that fails ends the call.
LEMMA FailsFacts ==
    ASSUME TypeOK, NEW t \in Thread, DeliveryFails(t)
    PROVE  /\ UNCHANGED <<now, severity, told, shown, losses>>
           /\ task'[t] = NoTask /\ TaskOK'
           /\ \A u \in Thread \ {t} : task'[u] = task[u]
BY DEF DeliveryFails, TypeOK, TaskOK

\* The record of a delivery: the table has the alert, and its display is the
\* last of its incident.
LEMMA RecordFacts ==
    ASSUME TypeOK, SentIsLast, NEW t \in Thread, Record(t)
    PROVE  LET f == task[t].of
               n == Len(shown[f]) IN
           /\ UNCHANGED <<now, severity, losses>>
           /\ task[t] # NoTask /\ task[t].step = "sent" /\ f \in Incident
           /\ task'[t] = NoTask /\ TaskOK'
           /\ \A u \in Thread \ {t} : task'[u] = task[u]
           /\ ToldOK' /\ DOMAIN told' = DOMAIN told \cup {f}
           /\ told'[f].last = task[t].at /\ told'[f].severity = task[t].severity
           /\ \A g \in DOMAIN told \ {f} : told'[g] = told[g]
           /\ ShownOK'
           /\ \A g \in Incident \ {f} : shown'[g] = shown[g]
           /\ n \in Nat \ {0} /\ n \in 1..n /\ DOMAIN shown[f] = 1..n
           /\ Len(shown'[f]) = n /\ DOMAIN shown'[f] = 1..n
           /\ \A i \in 1..n : i # n => shown'[f][i] = shown[f][i]
           /\ shown[f][n].at = task[t].at /\ shown[f][n].severity = task[t].severity
           /\ shown[f][n].ordinary = task[t].ordinary /\ shown[f][n].recorded = FALSE
           /\ shown'[f][n].at = task[t].at /\ shown'[f][n].severity = task[t].severity
           /\ shown'[f][n].ordinary = task[t].ordinary /\ shown'[f][n].recorded = TRUE
<1> DEFINE f == task[t].of
           n == Len(shown[f])
           entry == [last |-> task[t].at, severity |-> task[t].severity]
<1>1. /\ UNCHANGED <<now, severity, losses>>
      /\ task[t] # NoTask /\ task[t].step = "sent"
      /\ told' = With(told, f, entry)
      /\ shown' = [shown EXCEPT ![f][n].recorded = TRUE]
      /\ task' = [task EXCEPT ![t] = NoTask]
    BY DEF Record
<1>2. /\ task[t] \in Sending /\ f \in Incident /\ task[t].at \in 0..MaxTime
      /\ task[t].severity \in Alertable
    BY <1>1, TaskKinds
<1>3. task'[t] = NoTask /\ TaskOK' /\ \A u \in Thread \ {t} : task'[u] = task[u]
    BY <1>1 DEF TypeOK, TaskOK
<1>4. entry \in [last: 0..MaxTime, severity: Alertable]
    BY <1>2
<1>5. /\ DOMAIN told' = DOMAIN told \cup {f} /\ told'[f] = entry
      /\ \A g \in DOMAIN told \ {f} : told'[g] = told[g]
    <2> HIDE DEF entry
    <2> QED
        BY <1>1 DEF With
<1>6. ToldOK'
    <2>1. told' = [x \in DOMAIN told \cup {f} |-> IF x = f THEN entry ELSE told[x]]
        BY <1>1 DEF With
    <2>2. DOMAIN told \subseteq Incident
            /\ told \in [DOMAIN told -> [last: 0..MaxTime, severity: Alertable]]
        BY DEF TypeOK
    <2> HIDE DEF entry
    <2>3. told' \in [DOMAIN told \cup {f} -> [last: 0..MaxTime, severity: Alertable]]
        BY <1>4, <2>1, <2>2
    <2> QED
        BY <1>2, <1>5, <2>2, <2>3 DEF ToldOK
<1>7. shown[f] \in Seq(Display) /\ n \in Nat /\ DOMAIN shown[f] = 1..n
        /\ shown \in [Incident -> Seq(Display)]
    BY <1>2, ShownFacts DEF TypeOK
<1>8. /\ shown[f] # <<>>
      /\ shown[f][n] = [at |-> task[t].at, severity |-> task[t].severity,
                        ordinary |-> task[t].ordinary, recorded |-> FALSE]
    BY <1>1 DEF SentIsLast
<1>9. n \in Nat \ {0} /\ n \in 1..n
    BY <1>7, <1>8, EmptySeq
<1>10. [shown[f][n] EXCEPT !.recorded = TRUE] \in Display
    <2>1. shown[f][n] \in Display
        BY <1>2, <1>7, <1>9, ShownFacts
    <2> QED
        BY <2>1 DEF Display
<1>11. PICK d \in Display : d = [shown[f][n] EXCEPT !.recorded = TRUE]
    BY <1>10
<1>12. d.at = task[t].at /\ d.severity = task[t].severity
         /\ d.ordinary = task[t].ordinary /\ d.recorded = TRUE
    BY <1>8, <1>11
<1>13. shown' = [shown EXCEPT ![f] = [shown[f] EXCEPT ![n] = d]]
    BY <1>1, <1>11
<1>14. /\ [shown[f] EXCEPT ![n] = d] \in Seq(Display)
       /\ Len([shown[f] EXCEPT ![n] = d]) = n
       /\ \A j \in 1..n : [shown[f] EXCEPT ![n] = d][j] = IF j = n THEN d ELSE shown[f][j]
    BY <1>7, <1>9, <1>11, ExceptSeq
<1>15. shown'[f] = [shown[f] EXCEPT ![n] = d] /\ ShownOK'
        /\ \A g \in Incident \ {f} : shown'[g] = shown[g]
    BY <1>2, <1>7, <1>13, <1>14 DEF ShownOK
<1>16. DOMAIN shown'[f] = 1..n
    BY <1>14, <1>15, LenProperties
<1>17. /\ Len(shown'[f]) = n /\ shown'[f][n] = d
       /\ \A i \in 1..n : i # n => shown'[f][i] = shown[f][i]
    BY <1>9, <1>14, <1>15
<1>18. /\ shown[f][n].at = task[t].at /\ shown[f][n].severity = task[t].severity
       /\ shown[f][n].ordinary = task[t].ordinary /\ shown[f][n].recorded = FALSE
    BY <1>8
<1>19. told'[f].last = task[t].at /\ told'[f].severity = task[t].severity
    BY <1>5
<1> QED
    BY <1>1, <1>2, <1>3, <1>5, <1>6, <1>7, <1>9, <1>12, <1>15, <1>16, <1>17, <1>18, <1>19

\* A cleanup of the history forgets the incidents, the table and what was recorded.
LEMMA ClearFacts ==
    ASSUME TypeOK, ClearHistory
    PROVE  /\ UNCHANGED <<now, task>> /\ losses' = losses + 1 /\ losses < MaxLosses
           /\ severity' = <<>> /\ told' = <<>> /\ ShownOK'
           /\ \A f \in Incident :
                 /\ DOMAIN shown'[f] = DOMAIN shown[f] /\ Len(shown'[f]) = Len(shown[f])
                 /\ shown[f] # <<>> => shown'[f] # <<>>
                 /\ \A i \in DOMAIN shown[f] :
                       /\ shown'[f][i] = [shown[f][i] EXCEPT !.recorded = FALSE]
                       /\ shown'[f][i].at = shown[f][i].at
                       /\ shown'[f][i].severity = shown[f][i].severity
                       /\ shown'[f][i].ordinary = shown[f][i].ordinary
                       /\ shown'[f][i].recorded = FALSE
<1>1. /\ UNCHANGED <<now, task>> /\ losses' = losses + 1 /\ losses < MaxLosses
      /\ severity' = <<>> /\ told' = <<>>
      /\ shown' = [f \in Incident |->
            [i \in DOMAIN shown[f] |-> [shown[f][i] EXCEPT !.recorded = FALSE]]]
    BY DEF ClearHistory
<1>2. ASSUME NEW f \in Incident
      PROVE  /\ shown'[f] \in Seq(Display)
             /\ DOMAIN shown'[f] = DOMAIN shown[f] /\ Len(shown'[f]) = Len(shown[f])
             /\ shown[f] # <<>> => shown'[f] # <<>>
             /\ \A i \in DOMAIN shown[f] :
                   /\ shown'[f][i] = [shown[f][i] EXCEPT !.recorded = FALSE]
                   /\ shown'[f][i].at = shown[f][i].at
                   /\ shown'[f][i].severity = shown[f][i].severity
                   /\ shown'[f][i].ordinary = shown[f][i].ordinary
                   /\ shown'[f][i].recorded = FALSE
    <2>1. shown[f] \in Seq(Display) /\ Len(shown[f]) \in Nat
            /\ DOMAIN shown[f] = 1..Len(shown[f])
            /\ \A i \in DOMAIN shown[f] : shown[f][i] \in Display
        BY ShownFacts
    <2>2. shown'[f] = [i \in DOMAIN shown[f] |-> [shown[f][i] EXCEPT !.recorded = FALSE]]
        BY <1>1
    <2>3. ASSUME NEW i \in DOMAIN shown[f]
          PROVE  /\ shown'[f][i] = [shown[f][i] EXCEPT !.recorded = FALSE]
                 /\ shown'[f][i].at = shown[f][i].at
                 /\ shown'[f][i].severity = shown[f][i].severity
                 /\ shown'[f][i].ordinary = shown[f][i].ordinary
                 /\ shown'[f][i].recorded = FALSE
                 /\ shown'[f][i] \in Display
        <3>1. PICK d \in Display : d = shown[f][i]
            BY <2>1, <2>3
        <3>2. shown'[f][i] = [d EXCEPT !.recorded = FALSE]
            BY <2>2, <2>3, <3>1
        <3>3. /\ [d EXCEPT !.recorded = FALSE] \in Display
              /\ [d EXCEPT !.recorded = FALSE].at = d.at
              /\ [d EXCEPT !.recorded = FALSE].severity = d.severity
              /\ [d EXCEPT !.recorded = FALSE].ordinary = d.ordinary
              /\ [d EXCEPT !.recorded = FALSE].recorded = FALSE
            BY DEF Display
        <3> QED
            BY <3>1, <3>2, <3>3
    <2>4. DOMAIN shown'[f] = 1..Len(shown[f])
        BY <2>1, <2>2
    <2>5. shown'[f] \in [1..Len(shown[f]) -> Display]
        BY <2>1, <2>2, <2>3
    <2>6. shown'[f] \in Seq(Display)
        BY <2>1, <2>5, SeqDef
    <2>7. Len(shown'[f]) = Len(shown[f])
        BY <2>1, <2>4, <2>6, LenProperties
    <2>8. shown[f] # <<>> => shown'[f] # <<>>
        BY <2>1, <2>6, <2>7, EmptySeq
    <2> QED
        BY <2>1, <2>3, <2>4, <2>6, <2>7, <2>8
<1>3. ShownOK'
    BY <1>1, <1>2 DEF ShownOK
<1> QED
    BY <1>1, <1>2, <1>3

-----------------------------------------------------------------------------
(* The steps.                                                              *)

\* There are finitely many incidents.
LEMMA IncidentsFinite == \A S \in SUBSET Incident : IsFiniteSet(S) /\ Cardinality(S) \in Nat
<1>1. IsFiniteSet(Incident)
    BY NotificationsAssumption, FS_Union DEF Incident
<1> QED
    BY <1>1, FS_Subset, FS_CardinalityType

\* Fewer alerts are no more than before.
LEMMA FewerAlerted ==
    ASSUME NEW A \in SUBSET Incident, NEW B \in SUBSET Incident, A \subseteq B,
           Cardinality(B) <= Limit + 1
    PROVE  Cardinality(A) <= Limit + 1
<1>1. IsFiniteSet(B) /\ Cardinality(A) \in Nat /\ Cardinality(B) \in Nat
    BY IncidentsFinite
<1>2. Cardinality(A) <= Cardinality(B)
    BY <1>1, FS_Subset
<1> QED
    BY <1>1, <1>2, Bounds

\* Calls that end, or are yet to be decided, disturb nothing.
LEMMA IdleStep ==
    ASSUME IInv, TypeOK', UNCHANGED <<now, told, shown>>,
           \A u \in Thread : \/ task'[u] = task[u]
                             \/ task'[u] = NoTask
                             \/ task'[u].step = "filed" /\ task'[u].of \in Files(u)
    PROVE  IInv'
<1>1. CallsOK'
    BY DEF IInv, CallsOK
<1>2. \A u \in Underway' : u \in Underway /\ task'[u] = task[u]
    BY DEF Underway
<1>3. InTime'
    BY <1>2 DEF IInv, InTime
<1>4. SentIsLast' /\ DeliveryIsWorse'
    BY DEF IInv, SentIsLast, DeliveryIsWorse
<1>5. TableKnows' /\ TableIsTrue' /\ RepeatsAreWorse'
    BY DEF IInv, TableKnows, TableIsTrue, RepeatsAreWorse
<1>6. FewAlerted'
    <2>1. ASSUME NEW t \in 0..now
          PROVE  /\ Alerted(t)' \cup Pending(t)' \subseteq Alerted(t) \cup Pending(t)
                 /\ Alerted(t) \cup Pending(t) \in SUBSET Incident
                 /\ Alerted(t)' \cup Pending(t)' \in SUBSET Incident
        BY <1>2 DEF Alerted, Pending
    <2>2. ASSUME NEW t \in 0..now
          PROVE  Cardinality(Alerted(t)' \cup Pending(t)') <= Limit + 1
        BY <2>1, FewerAlerted DEF IInv, FewAlerted
    <2> QED
        BY <2>2 DEF FewAlerted
<1> QED
    BY <1>1, <1>3, <1>4, <1>5, <1>6 DEF IInv

\* New evidence.
LEMMA FileStep ==
    ASSUME IInv, NEW t \in Thread, NEW f \in Incident, NEW s \in Seen, File(t, f, s)
    PROVE  IInv'
<1>1. /\ UNCHANGED <<now, told, shown, losses>> /\ f \in Files(t)
      /\ task' = [task EXCEPT ![t] = [of |-> f, step |-> "filed"]]
    BY DEF File
<1>2. /\ DOMAIN severity \subseteq Incident
      /\ severity \in [DOMAIN severity -> Severity] /\ s \in Severity
    BY NotificationsAssumption DEF IInv, TypeOK
<1>3. SeverityOK'
    <2>1. severity' = severity \/ severity' = With(severity, f, s)
        BY DEF File
    <2>2. CASE severity' = severity
        BY <1>2, <2>2 DEF SeverityOK
    <2>3. CASE severity' = With(severity, f, s)
        <3>1. severity' = [x \in DOMAIN severity \cup {f} |-> IF x = f THEN s ELSE severity[x]]
            BY <2>3 DEF With
        <3>2. severity' \in [DOMAIN severity \cup {f} -> Severity]
            BY <1>2, <3>1
        <3> QED
            BY <1>2, <3>2 DEF SeverityOK
    <2> QED
        BY <2>1, <2>2, <2>3
<1>4. [of |-> f, step |-> "filed"] \in Call
    BY DEF Call
<1>5. TaskOK'
    BY <1>1, <1>4 DEF IInv, TypeOK, TaskOK
<1>6. ClockOK' /\ ToldOK' /\ ShownOK'
    BY <1>1 DEF IInv, TypeOK, ClockOK, ToldOK, ShownOK
<1>7. TypeOK'
    BY <1>3, <1>5, <1>6, TypePartsPrimed
<1>8. \A u \in Thread : IF u = t THEN task'[u].step = "filed" /\ task'[u].of = f
                                 ELSE task'[u] = task[u]
    BY <1>1 DEF IInv, TypeOK
<1> QED
    BY <1>1, <1>7, <1>8, IdleStep

\* A step that changes nothing but a call keeps the type invariant.
LEMMA CallType ==
    ASSUME TypeOK, TaskOK', UNCHANGED <<now, severity, told, shown, losses>>
    PROVE  TypeOK'
<1>1. ClockOK' /\ SeverityOK' /\ ToldOK' /\ ShownOK'
    BY DEF TypeOK, ClockOK, SeverityOK, ToldOK, ShownOK
<1> QED
    BY <1>1, TypePartsPrimed

\* An alert is due: the table, which knows the displays, allows it.
LEMMA DecideStep ==
    ASSUME IInv, NEW t \in Thread, Decide(t)
    PROVE  IInv'
<1> DEFINE f == task[t].of
<1>1. /\ UNCHANGED <<now, severity, told, shown, losses>>
      /\ task[t] # NoTask /\ task[t].step = "filed" /\ f \in Files(t)
      /\ \A u \in Thread \ {t} : task'[u] = task[u]
      /\ TaskOK' /\ TypeOK /\ f \in Incident
    BY DecideFacts, FilesIncidents DEF IInv
<1>2. TypeOK'
    BY <1>1, CallType
<1>3. CASE ~MaySend(f)
    <2>1. task'[t] = NoTask
        BY <1>3, DecideFacts DEF IInv
    <2> QED
        BY <1>1, <1>2, <2>1, IdleStep
<1>4. CASE MaySend(f)
    <2>1. /\ task'[t] \in Sending /\ task'[t] # NoTask
          /\ task'[t].of = f /\ task'[t].step = "sending"
          /\ task'[t].at = now /\ task'[t].severity = severity[f]
          /\ task'[t].ordinary <=> severity[f] # "Critical" /\ ~Escalated(f)
        BY <1>4, DecideFacts DEF IInv
    <2>2. now \in Nat
        BY <1>1, Bounds DEF TypeOK
    <2>3. CallsOK'
        BY <1>1, <2>1, <2>2 DEF IInv, CallsOK
    <2>4. Underway' = Underway \cup {t}
        BY <1>1, <2>1 DEF Underway
    <2>5. InTime'
        <3>1. ASSUME NEW u \in Underway', NEW i \in DOMAIN shown'[task'[u].of]
              PROVE  shown'[task'[u].of][i].at <= task'[u].at
            <4>1. CASE u = t
                BY <1>1, <2>1, <3>1, <4>1 DEF IInv, InTime
            <4>2. CASE u # t
                BY <1>1, <2>4, <3>1, <4>2 DEF IInv, InTime, Underway
            <4> QED
                BY <4>1, <4>2
        <3> QED
            BY <1>1, <3>1 DEF IInv, InTime
    <2>6. SentIsLast'
        BY <1>1, <2>1 DEF IInv, SentIsLast
    <2>7. TableKnows' /\ TableIsTrue' /\ RepeatsAreWorse'
        BY <1>1 DEF IInv, TableKnows, TableIsTrue, RepeatsAreWorse
    <2>8. ASSUME NEW i \in DOMAIN shown[f]
          PROVE  Worse(now, severity[f], task'[t].ordinary, shown[f][i])
        <3> DEFINE d == shown[f][i]
        <3>1. SUFFICES ASSUME d.recorded, now - d.at < Cooldown
                       PROVE  Rank[severity[f]] > Rank[d.severity] /\ ~task'[t].ordinary
            BY DEF Worse
        <3>2. /\ f \in DOMAIN told /\ told[f].last >= d.at
              /\ Rank[told[f].severity] >= Rank[d.severity]
            BY <1>1, <2>8, <3>1 DEF IInv, TableKnows
        <3>3. d.at \in Nat /\ Rank[d.severity] \in Nat
            BY <1>1, <2>8, ShownFacts
        <3>4. told[f].last \in Nat /\ Rank[told[f].severity] \in Nat
            BY <1>1, <3>2, RankNat, Bounds DEF TypeOK
        <3>5. severity[f] \in Alertable /\ Rank[severity[f]] \in Nat
            BY <1>4, RankNat DEF MaySend
        <3>6. now - told[f].last < Cooldown
            BY <2>2, <3>1, <3>2, <3>3, <3>4, Bounds
        <3>7. Escalated(f)
            BY <1>4, <3>2, <3>6 DEF MaySend, CoolingDown
        <3> QED
            BY <2>1, <3>2, <3>3, <3>4, <3>5, <3>7 DEF Escalated
    <2>9. DeliveryIsWorse'
        <3>1. ASSUME NEW u \in Thread, task'[u] # NoTask /\ task'[u].step = "sending",
                     NEW i \in DOMAIN shown'[task'[u].of]
              PROVE  Worse(task'[u].at, task'[u].severity, task'[u].ordinary,
                           shown'[task'[u].of][i])
            <4>1. CASE u = t
                BY <1>1, <2>1, <2>8, <3>1, <4>1
            <4>2. CASE u # t
                BY <1>1, <3>1, <4>2 DEF IInv, DeliveryIsWorse
            <4> QED
                BY <4>1, <4>2
        <3> QED
            BY <3>1 DEF DeliveryIsWorse
    <2>10. CASE ~task'[t].ordinary
        <3>1. ASSUME NEW k \in 0..now
              PROVE  /\ Alerted(k)' \cup Pending(k)' \subseteq Alerted(k) \cup Pending(k)
                     /\ Alerted(k) \cup Pending(k) \in SUBSET Incident
                     /\ Alerted(k)' \cup Pending(k)' \in SUBSET Incident
            <4>1. Alerted(k)' = Alerted(k)
                BY <1>1 DEF Alerted
            <4>2. Pending(k)' \subseteq Pending(k)
                BY <1>1, <2>4, <2>10 DEF Pending, Underway
            <4> QED
                BY <4>1, <4>2 DEF Alerted, Pending
        <3>2. FewAlerted'
            BY <1>1, <3>1, FewerAlerted DEF IInv, FewAlerted
        <3> QED
            BY <1>2, <2>3, <2>5, <2>6, <2>7, <2>9, <3>2 DEF IInv
    <2>11. CASE task'[t].ordinary
        <3> DEFINE S == {g \in DOMAIN told : told[g].last >= now - Recent}
        <3>1. Cardinality(S) < Limit
            <4>1. ~(Cardinality(S) >= Limit)
                BY <1>4, <2>1, <2>11 DEF MaySend, Crowded
            <4>2. S \in SUBSET Incident
                BY <1>1 DEF TypeOK
            <4> QED
                BY <4>1, <4>2, IncidentsFinite, Bounds
        <3>2. ASSUME NEW k \in 0..now, now \in (k - Recent)..k
              PROVE  k = now /\ Alerted(k) \subseteq S
            <4>1. k = now
                BY <2>2, <3>2, Bounds
            <4>2. ASSUME NEW g \in Alerted(k) PROVE g \in S
                <5>1. PICK i \in DOMAIN shown[g] :
                          /\ shown[g][i].recorded /\ shown[g][i].at \in (k - Recent)..k
                    BY DEF Alerted
                <5>2. g \in Incident
                    BY DEF Alerted
                <5>3. shown[g][i].at \in Nat
                    BY <1>1, <5>1, <5>2, ShownFacts
                <5>4. now - shown[g][i].at < Cooldown /\ shown[g][i].at >= now - Recent
                    BY <2>2, <4>1, <5>1, <5>3, Bounds
                <5>5. g \in DOMAIN told /\ told[g].last >= shown[g][i].at
                    BY <5>1, <5>2, <5>4 DEF IInv, TableKnows
                <5>6. told[g].last \in Nat
                    BY <1>1, <5>5, Bounds DEF TypeOK
                <5>7. told[g].last >= now - Recent
                    BY <2>2, <5>3, <5>4, <5>5, <5>6, Bounds
                <5> QED
                    BY <5>5, <5>7
            <4> QED
                BY <4>1, <4>2
        <3> HIDE DEF S
        <3>3. S \in SUBSET Incident
            BY <1>1 DEF S, TypeOK
        <3>4. ASSUME NEW k \in 0..now, now \in (k - Recent)..k
              PROVE  \E x \in Incident : Alerted(k)' \cup Pending(k)' \subseteq (S \cup {f}) \cup {x}
            <4>1. Alerted(k)' \subseteq S
                BY <1>1, <3>2, <3>4 DEF Alerted
            <4>2. PICK u \in Thread : u # t /\ \A v \in Thread : v = t \/ v = u
                BY DEF Thread
            <4>3. CASE u \in Underway
                <5>1. task[u].of \in Incident
                    BY <1>1, <4>2, <4>3, TaskKinds DEF Underway
                <5>2. Pending(k)' \subseteq {f, task[u].of}
                    BY <1>1, <2>1, <4>2 DEF Pending, Underway
                <5> QED
                    BY <4>1, <5>1, <5>2
            <4>4. CASE u \notin Underway
                <5>1. Underway' = {t}
                    BY <1>1, <2>1, <4>2, <4>4 DEF Underway
                <5>2. Pending(k)' \subseteq {f}
                    BY <2>1, <5>1 DEF Pending
                <5> QED
                    BY <1>1, <4>1, <5>2
            <4> QED
                BY <4>3, <4>4
        <3>5. \A x \in Incident : /\ (S \cup {f}) \cup {x} \in SUBSET Incident
                                  /\ Cardinality((S \cup {f}) \cup {x}) <= Limit + 1
            <4>1. IsFiniteSet(S) /\ Cardinality(S) \in Nat
                BY <3>3, IncidentsFinite
            <4>2. /\ IsFiniteSet(S \cup {f}) /\ Cardinality(S \cup {f}) \in Nat
                  /\ Cardinality(S \cup {f}) <= Cardinality(S) + 1
                <5>1. IsFiniteSet(S \cup {f})
                    BY <1>1, <3>3, IncidentsFinite
                <5>2. Cardinality(S \cup {f}) = IF f \in S THEN Cardinality(S)
                                                           ELSE Cardinality(S) + 1
                    BY <4>1, FS_AddElement
                <5> QED
                    BY <4>1, <5>1, <5>2
            <4>3. ASSUME NEW x \in Incident
                  PROVE  Cardinality((S \cup {f}) \cup {x}) <= Limit + 1
                <5>1. Cardinality((S \cup {f}) \cup {x}) =
                          IF x \in S \cup {f} THEN Cardinality(S \cup {f})
                                              ELSE Cardinality(S \cup {f}) + 1
                    BY <4>2, FS_AddElement
                <5> QED
                    BY <3>1, <4>1, <4>2, <5>1, Bounds
            <4> QED
                BY <1>1, <3>3, <4>3
        <3>6. ASSUME NEW k \in 0..now, now \notin (k - Recent)..k
              PROVE  Alerted(k)' \cup Pending(k)' \subseteq Alerted(k) \cup Pending(k)
            <4>1. Alerted(k)' = Alerted(k)
                BY <1>1 DEF Alerted
            <4>2. Pending(k)' \subseteq Pending(k)
                BY <1>1, <2>1, <2>4, <3>6 DEF Pending, Underway
            <4> QED
                BY <4>1, <4>2
        <3>7. \A k \in 0..now : Alerted(k) \cup Pending(k) \in SUBSET Incident
                                /\ Alerted(k)' \cup Pending(k)' \in SUBSET Incident
            BY DEF Alerted, Pending
        <3>8. ASSUME NEW k \in 0..now
              PROVE  Cardinality(Alerted(k)' \cup Pending(k)') <= Limit + 1
            <4>1. CASE now \in (k - Recent)..k
                <5>1. PICK x \in Incident :
                          Alerted(k)' \cup Pending(k)' \subseteq (S \cup {f}) \cup {x}
                    BY <3>4, <4>1
                <5>2. PICK B \in SUBSET Incident : B = (S \cup {f}) \cup {x}
                    BY <3>5
                <5>3. PICK A \in SUBSET Incident : A = Alerted(k)' \cup Pending(k)'
                    BY <3>7
                <5>4. A \subseteq B /\ Cardinality(B) <= Limit + 1
                    BY <3>5, <5>1, <5>2, <5>3
                <5>5. Cardinality(A) <= Limit + 1
                    BY <5>4, FewerAlerted
                <5> QED
                    BY <5>3, <5>5
            <4>2. CASE now \notin (k - Recent)..k
                BY <3>6, <3>7, <4>2, FewerAlerted DEF IInv, FewAlerted
            <4> QED
                BY <4>1, <4>2
        <3>9. FewAlerted'
            BY <1>1, <3>8 DEF FewAlerted
        <3> QED
            BY <1>2, <2>3, <2>5, <2>6, <2>7, <2>9, <3>9 DEF IInv
    <2> QED
        BY <2>10, <2>11
<1> QED
    BY <1>3, <1>4

\* The alert becomes the last display of its incident.
LEMMA DeliverStep ==
    ASSUME IInv, NEW t \in Thread, Deliver(t)
    PROVE  IInv'
<1> DEFINE f == task[t].of
           n == Len(shown[f])
           d == [at |-> task[t].at, severity |-> task[t].severity,
                 ordinary |-> task[t].ordinary, recorded |-> FALSE]
<1>1. TypeOK /\ CallsOK
    BY DEF IInv
<1>2. /\ UNCHANGED <<now, severity, told, losses>>
      /\ task[t] # NoTask /\ task[t].step = "sending" /\ f \in Incident
      /\ \A u \in Thread \ {t} : task'[u] = task[u]
      /\ task'[t] # NoTask /\ task'[t].of = f /\ task'[t].step = "sent"
      /\ task'[t].at = task[t].at /\ task'[t].severity = task[t].severity
      /\ task'[t].ordinary = task[t].ordinary /\ task'[t] \in Sending
      /\ TaskOK' /\ ShownOK'
    BY <1>1, DeliverFacts
<1>3. /\ \A g \in Incident \ {f} : shown'[g] = shown[g]
      /\ n \in Nat /\ DOMAIN shown[f] = 1..n
      /\ Len(shown'[f]) = n + 1 /\ DOMAIN shown'[f] = 1..(n + 1)
      /\ \A i \in 1..n : shown'[f][i] = shown[f][i]
      /\ shown'[f][n + 1] = d
    BY <1>1, DeliverFacts
<1>4. /\ d.at = task[t].at /\ d.severity = task[t].severity
      /\ d.ordinary = task[t].ordinary /\ d.recorded = FALSE
    OBVIOUS
<1>5. \A u \in Thread \ {t} : task[u] # NoTask => task[u].of \in Incident /\ task[u].of # f
    BY <1>1, <1>2, OwnIncidents, TaskKinds
<1>6. TypeOK'
    <2>1. ClockOK' /\ SeverityOK' /\ ToldOK'
        BY <1>1, <1>2 DEF TypeOK, ClockOK, SeverityOK, ToldOK
    <2> QED
        BY <1>2, <2>1, TypePartsPrimed
<1>7. Underway' = Underway /\ t \in Underway
    BY <1>2 DEF Underway
<1>8. now \in Nat /\ task[t].at \in Nat /\ task[t].at <= now
    BY <1>1, <1>2, TaskKinds, Bounds DEF TypeOK, CallsOK
<1> HIDE DEF d
\* The displays after the step: those before it, and the alert.
<1>9. ASSUME NEW g \in Incident, NEW i \in DOMAIN shown'[g]
      PROVE  \/ i \in DOMAIN shown[g] /\ shown'[g][i] = shown[g][i]
             \/ g = f /\ i = n + 1 /\ shown'[g][i] = d
    <2>1. CASE g # f
        BY <1>3, <1>9, <2>1
    <2>2. CASE g = f
        <3>1. i \in 1..(n + 1)
            BY <1>3, <1>9, <2>2
        <3>2. i \in 1..n \/ i = n + 1
            BY <1>3, <3>1
        <3> QED
            BY <1>3, <2>2, <3>2
    <2> QED
        BY <2>1, <2>2
<1>10. \A g \in Incident : \A i \in DOMAIN shown[g] :
          i \in DOMAIN shown'[g] /\ shown'[g][i] = shown[g][i] /\ (g = f => i < n + 1)
    <2>1. \A i \in 1..n : i \in 1..(n + 1) /\ i < n + 1
        BY <1>3
    <2> QED
        BY <1>3, <2>1
<1>11. CallsOK'
    BY <1>2 DEF IInv, CallsOK
<1>12. InTime'
    <2>1. ASSUME NEW g \in Incident, NEW i \in DOMAIN shown'[g] PROVE shown'[g][i].at <= now'
        BY <1>2, <1>4, <1>8, <1>9, <2>1 DEF IInv, InTime
    <2>2. ASSUME NEW g \in Incident, NEW i \in DOMAIN shown'[g], NEW j \in DOMAIN shown'[g], i < j
          PROVE  shown'[g][i].at <= shown'[g][j].at
        <3>1. CASE j \in DOMAIN shown[g] /\ shown'[g][j] = shown[g][j]
            <4>1. i \in DOMAIN shown[g] /\ shown'[g][i] = shown[g][i]
                BY <1>3, <1>9, <1>10, <2>2, <3>1
            <4> QED
                BY <2>2, <3>1, <4>1 DEF IInv, InTime
        <3>2. CASE g = f /\ j = n + 1 /\ shown'[g][j] = d
            <4>1. i \in DOMAIN shown[g] /\ shown'[g][i] = shown[g][i]
                BY <1>3, <1>9, <2>2, <3>2
            <4> QED
                BY <1>4, <1>7, <3>2, <4>1 DEF IInv, InTime
        <3> QED
            BY <1>9, <2>2, <3>1, <3>2
    <2>3. ASSUME NEW u \in Underway', NEW i \in DOMAIN shown'[task'[u].of]
          PROVE  shown'[task'[u].of][i].at <= task'[u].at
        <3>1. u \in Thread /\ u \in Underway /\ task[u] # NoTask
            BY <1>7, <2>3 DEF Underway
        <3>2. CASE u = t
            <4>1. i \in DOMAIN shown'[f]
                BY <1>2, <2>3, <3>2
            <4> QED
                BY <1>2, <1>4, <1>7, <1>8, <1>9, <3>2, <4>1 DEF IInv, InTime
        <3>3. CASE u # t
            BY <1>2, <1>3, <1>5, <2>3, <3>1, <3>3 DEF IInv, InTime
        <3> QED
            BY <3>2, <3>3
    <2> QED
        BY <2>1, <2>2, <2>3 DEF InTime
<1>13. SentIsLast'
    <2>1. ASSUME NEW u \in Thread, task'[u] # NoTask /\ task'[u].step = "sent"
          PROVE  LET displays == shown'[task'[u].of] IN
                 /\ displays # <<>>
                 /\ displays[Len(displays)] =
                       [at |-> task'[u].at, severity |-> task'[u].severity,
                        ordinary |-> task'[u].ordinary, recorded |-> FALSE]
        <3>1. CASE u = t
            <4>1. shown'[f] # <<>>
                BY <1>3, EmptySeq
            <4> QED
                BY <1>2, <1>3, <3>1, <4>1 DEF d
        <3>2. CASE u # t
            <4>1. task'[u] = task[u] /\ shown'[task[u].of] = shown[task[u].of]
                BY <1>2, <1>3, <1>5, <2>1, <3>2
            <4> QED
                BY <2>1, <4>1 DEF IInv, SentIsLast
        <3> QED
            BY <3>1, <3>2
    <2> QED
        BY <2>1 DEF SentIsLast
<1>14. TableKnows'
    BY <1>2, <1>4, <1>9 DEF IInv, TableKnows
<1>15. TableIsTrue'
    <2>1. ASSUME NEW g \in DOMAIN told, now - told[g].last < Cooldown
          PROVE  \E i \in DOMAIN shown'[g] : /\ shown'[g][i].at = told[g].last
                                             /\ shown'[g][i].severity = told[g].severity
        <3>1. PICK i \in DOMAIN shown[g] : /\ shown[g][i].at = told[g].last
                                           /\ shown[g][i].severity = told[g].severity
            BY <2>1 DEF IInv, TableIsTrue
        <3>2. g \in Incident
            BY <1>1 DEF TypeOK
        <3> QED
            BY <1>10, <3>1, <3>2
    <2> QED
        BY <1>2, <2>1 DEF TableIsTrue
<1>16. RepeatsAreWorse'
    <2>1. ASSUME NEW g \in Incident, NEW i \in DOMAIN shown'[g], NEW j \in DOMAIN shown'[g], i < j
          PROVE  Worse(shown'[g][j].at, shown'[g][j].severity, shown'[g][j].ordinary,
                       shown'[g][i])
        <3>1. CASE j \in DOMAIN shown[g] /\ shown'[g][j] = shown[g][j]
            <4>1. i \in DOMAIN shown[g] /\ shown'[g][i] = shown[g][i]
                BY <1>3, <1>9, <1>10, <2>1, <3>1
            <4> QED
                BY <2>1, <3>1, <4>1 DEF IInv, RepeatsAreWorse
        <3>2. CASE g = f /\ j = n + 1 /\ shown'[g][j] = d
            <4>1. i \in DOMAIN shown[g] /\ shown'[g][i] = shown[g][i]
                BY <1>3, <1>9, <2>1, <3>2
            <4>2. Worse(task[t].at, task[t].severity, task[t].ordinary, shown[f][i])
                BY <1>2, <3>2, <4>1 DEF IInv, DeliveryIsWorse
            <4> QED
                BY <1>4, <3>2, <4>1, <4>2
        <3> QED
            BY <1>9, <2>1, <3>1, <3>2
    <2> QED
        BY <2>1 DEF RepeatsAreWorse
<1>17. DeliveryIsWorse'
    <2>1. ASSUME NEW u \in Thread, task'[u] # NoTask /\ task'[u].step = "sending",
                 NEW i \in DOMAIN shown'[task'[u].of]
          PROVE  Worse(task'[u].at, task'[u].severity, task'[u].ordinary,
                       shown'[task'[u].of][i])
        <3>1. u # t
            BY <1>2, <2>1
        <3>2. task'[u] = task[u] /\ shown'[task[u].of] = shown[task[u].of]
            BY <1>2, <1>3, <1>5, <2>1, <3>1
        <3> QED
            BY <2>1, <3>2 DEF IInv, DeliveryIsWorse
    <2> QED
        BY <2>1 DEF DeliveryIsWorse
<1>18. FewAlerted'
    <2>1. ASSUME NEW k \in 0..now
          PROVE  Alerted(k)' \subseteq Alerted(k)
        BY <1>4, <1>9 DEF Alerted
    <2>2. ASSUME NEW k \in 0..now
          PROVE  Pending(k)' \subseteq Pending(k)
        BY <1>2, <1>7 DEF Pending, Underway
    <2>3. ASSUME NEW k \in 0..now
          PROVE  Cardinality(Alerted(k)' \cup Pending(k)') <= Limit + 1
        <3>1. PICK A \in SUBSET Incident : A = Alerted(k)' \cup Pending(k)'
            BY DEF Alerted, Pending
        <3>2. PICK B \in SUBSET Incident : B = Alerted(k) \cup Pending(k)
            BY DEF Alerted, Pending
        <3>3. A \subseteq B /\ Cardinality(B) <= Limit + 1
            BY <2>1, <2>2, <3>1, <3>2 DEF IInv, FewAlerted
        <3> QED
            BY <3>1, <3>3, FewerAlerted
    <2> QED
        BY <1>2, <2>3 DEF FewAlerted
<1> QED
    BY <1>6, <1>11, <1>12, <1>13, <1>14, <1>15, <1>16, <1>17, <1>18 DEF IInv

\* A delivery that fails leaves the table and the displays as they are.
LEMMA FailsStep ==
    ASSUME IInv, NEW t \in Thread, DeliveryFails(t)
    PROVE  IInv'
<1>1. TypeOK
    BY DEF IInv
<1>2. /\ UNCHANGED <<now, severity, told, shown, losses>>
      /\ task'[t] = NoTask /\ TaskOK'
      /\ \A u \in Thread \ {t} : task'[u] = task[u]
    BY <1>1, FailsFacts
<1>3. TypeOK'
    BY <1>1, <1>2, CallType
<1> QED
    BY <1>2, <1>3, IdleStep

\* So does a crash, which may leave a display unrecorded.
LEMMA CrashStep ==
    ASSUME IInv, Crash
    PROVE  IInv'
<1>1. /\ losses < MaxLosses /\ losses' = losses + 1
      /\ task' = [t \in Thread |-> NoTask] /\ UNCHANGED <<now, severity, told, shown>>
    BY DEF Crash
<1>2. SeverityOK' /\ ToldOK' /\ ShownOK' /\ TaskOK'
    BY <1>1 DEF IInv, TypeOK, SeverityOK, ToldOK, ShownOK, TaskOK
<1>3. ClockOK'
    BY <1>1, Bounds DEF IInv, TypeOK, ClockOK
<1>4. TypeOK'
    BY <1>2, <1>3, TypePartsPrimed
<1> QED
    BY <1>1, <1>4, IdleStep

\* The table knows the alert now, which is its incident's last display.
LEMMA RecordStep ==
    ASSUME IInv, NEW t \in Thread, Record(t)
    PROVE  IInv'
<1> DEFINE f == task[t].of
           n == Len(shown[f])
<1>1. TypeOK /\ CallsOK /\ SentIsLast
    BY DEF IInv
<1>2. /\ UNCHANGED <<now, severity, losses>>
      /\ task[t] # NoTask /\ task[t].step = "sent" /\ f \in Incident
      /\ task'[t] = NoTask /\ TaskOK'
      /\ \A u \in Thread \ {t} : task'[u] = task[u]
      /\ ToldOK' /\ DOMAIN told' = DOMAIN told \cup {f}
      /\ told'[f].last = task[t].at /\ told'[f].severity = task[t].severity
      /\ \A g \in DOMAIN told \ {f} : told'[g] = told[g]
      /\ ShownOK'
    BY <1>1, RecordFacts
<1>3. /\ \A g \in Incident \ {f} : shown'[g] = shown[g]
      /\ n \in Nat \ {0} /\ n \in 1..n /\ DOMAIN shown[f] = 1..n
      /\ Len(shown'[f]) = n /\ DOMAIN shown'[f] = 1..n
      /\ \A i \in 1..n : i # n => shown'[f][i] = shown[f][i]
      /\ shown[f][n].at = task[t].at /\ shown[f][n].severity = task[t].severity
      /\ shown[f][n].ordinary = task[t].ordinary /\ shown[f][n].recorded = FALSE
      /\ shown'[f][n].at = task[t].at /\ shown'[f][n].severity = task[t].severity
      /\ shown'[f][n].ordinary = task[t].ordinary /\ shown'[f][n].recorded = TRUE
    BY <1>1, RecordFacts
<1>4. TypeOK'
    <2>1. ClockOK' /\ SeverityOK'
        BY <1>1, <1>2 DEF TypeOK, ClockOK, SeverityOK
    <2> QED
        BY <1>2, <2>1, TypePartsPrimed
<1>5. \A u \in Thread \ {t} : task[u] # NoTask => task[u].of \in Incident /\ task[u].of # f
    BY <1>1, <1>2, OwnIncidents, TaskKinds
<1>6. Underway' = Underway \ {t} /\ t \in Underway
    BY <1>2 DEF Underway
<1>7. /\ now \in Nat /\ task[t].at \in Nat /\ task[t].at <= now
      /\ task[t].severity \in Alertable /\ Rank[task[t].severity] \in Nat
    BY <1>1, <1>2, TaskKinds, RankNat, Bounds DEF TypeOK, CallsOK
\* Displays keep all but what is recorded.
<1>8. ASSUME NEW g \in Incident
      PROVE  /\ DOMAIN shown'[g] = DOMAIN shown[g]
             /\ \A i \in DOMAIN shown[g] :
                   /\ shown'[g][i].at = shown[g][i].at
                   /\ shown'[g][i].severity = shown[g][i].severity
                   /\ shown'[g][i].ordinary = shown[g][i].ordinary
                   /\ ~(g = f /\ i = n) => shown'[g][i] = shown[g][i]
    <2>1. CASE g = f
        BY <1>3, <2>1
    <2>2. CASE g # f
        BY <1>3, <2>2
    <2> QED
        BY <2>1, <2>2
<1>9. CallsOK'
    BY <1>2 DEF IInv, CallsOK
<1>10. InTime'
    <2>1. ASSUME NEW u \in Underway', NEW i \in DOMAIN shown'[task'[u].of]
          PROVE  shown'[task'[u].of][i].at <= task'[u].at
        <3>1. u \in Underway /\ task'[u] = task[u] /\ task[u].of \in Incident
            BY <1>2, <1>5, <1>6, <2>1 DEF Underway
        <3> QED
            BY <1>8, <2>1, <3>1 DEF IInv, InTime
    <2>2. \A g \in Incident : \A i \in DOMAIN shown'[g] : shown'[g][i].at <= now'
        BY <1>2, <1>8 DEF IInv, InTime
    <2>3. \A g \in Incident : \A i, j \in DOMAIN shown'[g] :
              i < j => shown'[g][i].at <= shown'[g][j].at
        BY <1>8 DEF IInv, InTime
    <2> QED
        BY <2>1, <2>2, <2>3 DEF InTime
<1>11. SentIsLast'
    <2>1. ASSUME NEW u \in Thread, task'[u] # NoTask /\ task'[u].step = "sent"
          PROVE  u # t /\ task'[u] = task[u] /\ shown'[task[u].of] = shown[task[u].of]
        <3>1. u # t
            BY <1>2, <2>1
        <3>2. task'[u] = task[u]
            BY <1>2, <3>1
        <3>3. shown'[task[u].of] = shown[task[u].of]
            BY <1>3, <1>5, <2>1, <3>1, <3>2
        <3> QED
            BY <3>1, <3>2, <3>3
    <2> QED
        BY <2>1 DEF IInv, SentIsLast
<1>12. TableKnows'
    <2>1. ASSUME NEW g \in Incident, NEW i \in DOMAIN shown'[g],
                 shown'[g][i].recorded, now - shown'[g][i].at < Cooldown
          PROVE  /\ g \in DOMAIN told'
                 /\ told'[g].last >= shown'[g][i].at
                 /\ Rank[told'[g].severity] >= Rank[shown'[g][i].severity]
        <3>1. CASE g = f /\ i = n
            <4>1. shown'[g][i].at = task[t].at /\ shown'[g][i].severity = task[t].severity
                BY <1>3, <3>1
            <4>2. /\ g \in DOMAIN told'
                  /\ told'[g].last = task[t].at /\ told'[g].severity = task[t].severity
                BY <1>2, <3>1
            <4> QED
                BY <1>7, <4>1, <4>2
        <3>2. CASE g = f /\ i # n
            <4>1. shown'[f][i] = shown[f][i] /\ i \in DOMAIN shown[f]
                BY <1>8, <2>1, <3>2
            <4>2. shown[f][i].at \in Nat /\ Rank[shown[f][i].severity] \in Nat
                BY <1>1, <1>2, <4>1, ShownFacts
            <4>3. i < n /\ n \in DOMAIN shown[f]
                BY <1>3, <3>2, <4>1
            <4>4. shown[f][i].at <= task[t].at
                BY <1>2, <1>6, <4>1 DEF IInv, InTime
            <4>5. Worse(task[t].at, task[t].severity, task[t].ordinary, shown[f][i])
                BY <1>2, <1>3, <4>1, <4>3 DEF IInv, RepeatsAreWorse
            <4>6. task[t].at - shown[f][i].at < Cooldown
                BY <1>7, <2>1, <3>2, <4>1, <4>2, Bounds
            <4>7. Rank[task[t].severity] > Rank[shown[f][i].severity]
                BY <2>1, <3>2, <4>1, <4>5, <4>6 DEF Worse
            <4> QED
                BY <1>2, <1>7, <3>2, <4>1, <4>2, <4>4, <4>7
        <3>3. CASE g # f
            <4>1. shown'[g] = shown[g]
                BY <1>3, <3>3
            <4>2. /\ g \in DOMAIN told /\ told[g].last >= shown[g][i].at
                  /\ Rank[told[g].severity] >= Rank[shown[g][i].severity]
                BY <2>1, <4>1 DEF IInv, TableKnows
            <4> QED
                BY <1>2, <3>3, <4>1, <4>2
        <3> QED
            BY <3>1, <3>2, <3>3
    <2> QED
        BY <1>2, <2>1 DEF TableKnows
<1>13. TableIsTrue'
    <2>1. ASSUME NEW g \in DOMAIN told', now - told'[g].last < Cooldown
          PROVE  \E i \in DOMAIN shown'[g] : /\ shown'[g][i].at = told'[g].last
                                             /\ shown'[g][i].severity = told'[g].severity
        <3>1. CASE g = f
            BY <1>2, <1>3, <3>1
        <3>2. CASE g # f
            <4>1. g \in DOMAIN told /\ told'[g] = told[g] /\ g \in Incident
                BY <1>1, <1>2, <2>1, <3>2 DEF TypeOK
            <4>2. PICK i \in DOMAIN shown[g] : /\ shown[g][i].at = told[g].last
                                               /\ shown[g][i].severity = told[g].severity
                BY <2>1, <4>1 DEF IInv, TableIsTrue
            <4> QED
                BY <1>8, <4>1, <4>2
        <3> QED
            BY <3>1, <3>2
    <2> QED
        BY <1>2, <2>1 DEF TableIsTrue
<1>14. RepeatsAreWorse'
    <2>1. ASSUME NEW g \in Incident, NEW i \in DOMAIN shown'[g], NEW j \in DOMAIN shown'[g], i < j
          PROVE  Worse(shown'[g][j].at, shown'[g][j].severity, shown'[g][j].ordinary,
                       shown'[g][i])
        <3>1. ~(g = f /\ i = n)
            BY <1>3, <2>1
        <3>2. shown'[g][i] = shown[g][i]
            BY <1>8, <2>1, <3>1
        <3>3. Worse(shown[g][j].at, shown[g][j].severity, shown[g][j].ordinary, shown[g][i])
            BY <1>8, <2>1 DEF IInv, RepeatsAreWorse
        <3> QED
            BY <1>8, <2>1, <3>2, <3>3
    <2> QED
        BY <2>1 DEF RepeatsAreWorse
<1>15. DeliveryIsWorse'
    <2>1. ASSUME NEW u \in Thread, task'[u] # NoTask /\ task'[u].step = "sending"
          PROVE  u # t /\ task'[u] = task[u] /\ shown'[task[u].of] = shown[task[u].of]
        <3>1. u # t
            BY <1>2, <2>1
        <3>2. task'[u] = task[u]
            BY <1>2, <3>1
        <3>3. shown'[task[u].of] = shown[task[u].of]
            BY <1>3, <1>5, <2>1, <3>1, <3>2
        <3> QED
            BY <3>1, <3>2, <3>3
    <2> QED
        BY <2>1 DEF IInv, DeliveryIsWorse
<1>16. FewAlerted'
    <2>1. ASSUME NEW k \in 0..now, NEW g \in Alerted(k)'
          PROVE  g \in Alerted(k) \cup Pending(k)
        <3>1. PICK i \in DOMAIN shown'[g] :
                  /\ shown'[g][i].ordinary /\ shown'[g][i].recorded
                  /\ shown'[g][i].at \in (k - Recent)..k
            BY <2>1 DEF Alerted
        <3>2. g \in Incident
            BY <2>1 DEF Alerted
        <3>3. CASE g = f /\ i = n
            BY <1>2, <1>3, <1>6, <3>1, <3>3 DEF Pending
        <3>4. CASE ~(g = f /\ i = n)
            BY <1>8, <3>1, <3>2, <3>4 DEF Alerted
        <3> QED
            BY <3>3, <3>4
    <2>2. ASSUME NEW k \in 0..now
          PROVE  Pending(k)' \subseteq Pending(k)
        BY <1>2, <1>6 DEF Pending, Underway
    <2>3. ASSUME NEW k \in 0..now
          PROVE  Cardinality(Alerted(k)' \cup Pending(k)') <= Limit + 1
        <3>1. PICK A \in SUBSET Incident : A = Alerted(k)' \cup Pending(k)'
            BY DEF Alerted, Pending
        <3>2. PICK B \in SUBSET Incident : B = Alerted(k) \cup Pending(k)
            BY DEF Alerted, Pending
        <3>3. A \subseteq B /\ Cardinality(B) <= Limit + 1
            BY <2>1, <2>2, <3>1, <3>2 DEF IInv, FewAlerted
        <3> QED
            BY <3>1, <3>3, FewerAlerted
    <2> QED
        BY <1>2, <2>3 DEF FewAlerted
<1> QED
    BY <1>4, <1>9, <1>10, <1>11, <1>12, <1>13, <1>14, <1>15, <1>16 DEF IInv

\* Time passes: what is dropped is outdated, and nothing is of the new instant.
LEMMA TickStep ==
    ASSUME IInv, Tick
    PROVE  IInv'
<1>1. TypeOK /\ InTime /\ CallsOK
    BY DEF IInv
<1>2. /\ now' = now + 1 /\ now \in Nat /\ UNCHANGED <<severity, told, task, losses>>
      /\ ShownOK' /\ \A t \in Underway : task[t].at = now
      /\ \A f \in Incident : DropsOutdated(shown[f], now + 1, shown'[f])
    BY <1>1, TickFacts
<1>3. TypeOK'
    <2>1. SeverityOK' /\ ToldOK' /\ TaskOK'
        BY <1>1, <1>2 DEF TypeOK, SeverityOK, ToldOK, TaskOK
    <2>2. ClockOK'
        BY <1>1, <1>2, Bounds DEF Tick, TypeOK, ClockOK
    <2> QED
        BY <1>2, <2>1, <2>2, TypePartsPrimed
<1>4. Underway' = Underway
    BY <1>2 DEF Underway
<1>5. \A t \in Underway : t \in Thread /\ task[t] # NoTask /\ task[t].of \in Incident
                          /\ task[t].at \in Nat
    BY <1>1, TaskKinds, Bounds DEF Underway
\* What is left, by its index among what there was.
<1>6. ASSUME NEW f \in Incident
      PROVE  \E o \in 0..Len(shown[f]) :
                /\ Len(shown[f]) \in Nat /\ DOMAIN shown[f] = 1..Len(shown[f])
                /\ Len(shown'[f]) = Len(shown[f]) - o
                /\ DOMAIN shown'[f] = 1..Len(shown[f]) - o
                /\ \A i \in DOMAIN shown'[f] :
                      i + o \in DOMAIN shown[f] /\ shown'[f][i] = shown[f][i + o]
                /\ \A i \in DOMAIN shown[f] : (now + 1) - shown[f][i].at < Cooldown =>
                      i - o \in DOMAIN shown'[f] /\ shown'[f][i - o] = shown[f][i]
    <2>1. Len(shown[f]) \in Nat /\ DOMAIN shown[f] = 1..Len(shown[f])
        BY <1>1, ShownFacts
    <2>2. DropsOutdated(shown[f], now + 1, shown'[f])
        BY <1>2
    <2>3. PICK o \in 0..Len(shown[f]) :
              /\ DOMAIN shown'[f] = 1..Len(shown[f]) - o /\ Len(shown'[f]) = Len(shown[f]) - o
              /\ \A i \in 1..Len(shown[f]) - o :
                    i + o \in DOMAIN shown[f] /\ shown'[f][i] = shown[f][i + o]
              /\ \A i \in DOMAIN shown[f] : (now + 1) - shown[f][i].at < Cooldown => i > o
        BY <2>2, Zenon DEF DropsOutdated
    <2>4. ASSUME NEW i \in DOMAIN shown[f], (now + 1) - shown[f][i].at < Cooldown
          PROVE  i - o \in DOMAIN shown'[f] /\ shown'[f][i - o] = shown[f][i]
        <3>1. i > o
            BY <2>3, <2>4
        <3>2. i - o \in 1..Len(shown[f]) - o /\ (i - o) + o = i
            BY <2>1, <2>4, <3>1
        <3> QED
            BY <2>3, <3>2
    <2> QED
        BY <2>1, <2>3, <2>4
\* Each display left is one there was, in the same order.
<1>7. ASSUME NEW f \in Incident, NEW i \in DOMAIN shown'[f]
      PROVE  \E k \in DOMAIN shown[f] : shown'[f][i] = shown[f][k]
    BY <1>6, <1>7
<1>8. ASSUME NEW f \in Incident, NEW i \in DOMAIN shown'[f], NEW j \in DOMAIN shown'[f], i < j
      PROVE  \E k, m \in DOMAIN shown[f] :
                k < m /\ shown'[f][i] = shown[f][k] /\ shown'[f][j] = shown[f][m]
    <2>1. PICK o \in 0..Len(shown[f]) :
              /\ Len(shown[f]) \in Nat /\ DOMAIN shown[f] = 1..Len(shown[f])
              /\ DOMAIN shown'[f] = 1..Len(shown[f]) - o
              /\ \A x \in DOMAIN shown'[f] :
                    x + o \in DOMAIN shown[f] /\ shown'[f][x] = shown[f][x + o]
        BY <1>6
    <2>2. i + o < j + o
        BY <1>8, <2>1
    <2> QED
        BY <2>1, <2>2
<1>9. CallsOK'
    BY <1>1, <1>2, <1>5 DEF CallsOK, Underway
<1>10. InTime'
    <2>1. ASSUME NEW f \in Incident, NEW i \in DOMAIN shown'[f] PROVE shown'[f][i].at <= now'
        <3>1. PICK k \in DOMAIN shown[f] : shown'[f][i] = shown[f][k]
            BY <1>7
        <3>2. shown[f][k].at \in Nat /\ shown[f][k].at <= now
            BY <1>1, ShownFacts DEF InTime
        <3> QED
            BY <1>2, <3>1, <3>2
    <2>2. ASSUME NEW f \in Incident, NEW i \in DOMAIN shown'[f], NEW j \in DOMAIN shown'[f], i < j
          PROVE  shown'[f][i].at <= shown'[f][j].at
        BY <1>1, <1>8, <2>2 DEF InTime
    <2>3. ASSUME NEW t \in Underway', NEW i \in DOMAIN shown'[task'[t].of]
          PROVE  shown'[task'[t].of][i].at <= task'[t].at
        <3>1. PICK f \in Incident : f = task[t].of /\ f = task'[t].of
            BY <1>2, <1>4, <1>5
        <3>2. PICK k \in DOMAIN shown[f] : shown'[f][i] = shown[f][k]
            BY <1>7, <3>1
        <3> QED
            BY <1>1, <1>2, <1>4, <3>1, <3>2 DEF InTime
    <2> QED
        BY <2>1, <2>2, <2>3 DEF InTime
<1>11. SentIsLast'
    <2>1. ASSUME NEW t \in Thread, task[t] # NoTask /\ task[t].step = "sent"
          PROVE  LET before == shown[task[t].of] displays == shown'[task[t].of] IN
                 displays # <<>> /\ displays[Len(displays)] = before[Len(before)]
        <3>1. t \in Underway
            BY <2>1 DEF Underway
        <3>2. PICK f \in Incident : f = task[t].of
            BY <1>5, <3>1
        <3>3. PICK o \in 0..Len(shown[f]) :
                /\ Len(shown[f]) \in Nat /\ DOMAIN shown[f] = 1..Len(shown[f])
                /\ Len(shown'[f]) = Len(shown[f]) - o
                /\ DOMAIN shown'[f] = 1..Len(shown[f]) - o
                /\ \A i \in DOMAIN shown[f] : (now + 1) - shown[f][i].at < Cooldown =>
                      i - o \in DOMAIN shown'[f] /\ shown'[f][i - o] = shown[f][i]
            BY <1>6
        <3>4. shown[f] # <<>> /\ shown[f][Len(shown[f])].at = task[t].at
            <4>1. /\ shown[f] # <<>>
                  /\ shown[f][Len(shown[f])] =
                        [at |-> task[t].at, severity |-> task[t].severity,
                         ordinary |-> task[t].ordinary, recorded |-> FALSE]
                BY <2>1, <3>2 DEF IInv, SentIsLast
            <4> QED
                BY <4>1
        <3>5. Len(shown[f]) \in DOMAIN shown[f]
            BY <1>1, <3>3, <3>4, ShownFacts, EmptySeq
        <3>6. (now + 1) - shown[f][Len(shown[f])].at < Cooldown
            BY <1>2, <3>1, <3>4, Bounds
        <3>7. /\ Len(shown[f]) - o \in DOMAIN shown'[f]
              /\ shown'[f][Len(shown[f]) - o] = shown[f][Len(shown[f])]
            BY <3>3, <3>5, <3>6
        <3>8. shown'[f] # <<>>
            <4>1. Len(shown'[f]) > 0
                BY <3>3, <3>7
            <4> QED
                BY <4>1, EmptySeq
        <3> QED
            BY <3>2, <3>3, <3>7, <3>8
    <2> QED
        BY <1>2, <2>1 DEF IInv, SentIsLast
<1>12. TableKnows'
    <2>1. ASSUME NEW f \in Incident, NEW i \in DOMAIN shown'[f],
                 shown'[f][i].recorded, now' - shown'[f][i].at < Cooldown
          PROVE  /\ f \in DOMAIN told' /\ told'[f].last >= shown'[f][i].at
                 /\ Rank[told'[f].severity] >= Rank[shown'[f][i].severity]
        <3>1. PICK k \in DOMAIN shown[f] : shown'[f][i] = shown[f][k]
            BY <1>7
        <3>2. shown[f][k].at \in Nat
            BY <1>1, ShownFacts
        <3>3. now - shown[f][k].at < Cooldown
            BY <1>2, <2>1, <3>1, <3>2, Bounds
        <3> QED
            BY <1>2, <2>1, <3>1, <3>3 DEF IInv, TableKnows
    <2> QED
        BY <2>1 DEF TableKnows
<1>13. TableIsTrue'
    <2>1. ASSUME NEW f \in DOMAIN told', now' - told'[f].last < Cooldown
          PROVE  \E i \in DOMAIN shown'[f] : /\ shown'[f][i].at = told'[f].last
                                             /\ shown'[f][i].severity = told'[f].severity
        <3>1. f \in DOMAIN told /\ told'[f] = told[f] /\ f \in Incident /\ told[f].last \in Nat
            BY <1>1, <1>2, Bounds DEF TypeOK
        <3>2. now - told[f].last < Cooldown
            BY <1>2, <2>1, <3>1, Bounds
        <3>3. PICK k \in DOMAIN shown[f] : /\ shown[f][k].at = told[f].last
                                           /\ shown[f][k].severity = told[f].severity
            BY <3>1, <3>2 DEF IInv, TableIsTrue
        <3>4. (now + 1) - shown[f][k].at < Cooldown
            BY <1>2, <2>1, <3>1, <3>3
        <3>5. \E i \in DOMAIN shown'[f] : shown'[f][i] = shown[f][k]
            BY <1>6, <3>1, <3>4
        <3> QED
            BY <3>1, <3>3, <3>5
    <2> QED
        BY <2>1 DEF TableIsTrue
<1>14. RepeatsAreWorse'
    BY <1>8 DEF IInv, RepeatsAreWorse
<1>15. DeliveryIsWorse'
    <2>1. ASSUME NEW t \in Thread, task'[t] # NoTask /\ task'[t].step = "sending",
                 NEW i \in DOMAIN shown'[task'[t].of]
          PROVE  Worse(task'[t].at, task'[t].severity, task'[t].ordinary,
                       shown'[task'[t].of][i])
        <3>1. PICK f \in Incident : f = task[t].of /\ f = task'[t].of
            BY <1>2, <1>5, <2>1 DEF Underway
        <3>2. PICK k \in DOMAIN shown[f] : shown'[f][i] = shown[f][k]
            BY <1>7, <2>1, <3>1
        <3> QED
            BY <1>2, <2>1, <3>1, <3>2 DEF IInv, DeliveryIsWorse
    <2> QED
        BY <2>1 DEF DeliveryIsWorse
<1>16. FewAlerted'
    <2>1. ASSUME NEW t \in 0..now', NEW f \in Alerted(t)' PROVE f \in Alerted(t)
        <3>1. PICK i \in DOMAIN shown'[f] :
                  /\ shown'[f][i].ordinary /\ shown'[f][i].recorded
                  /\ shown'[f][i].at \in (t - Recent)..t
            BY <2>1 DEF Alerted
        <3>2. f \in Incident
            BY <2>1 DEF Alerted
        <3>3. PICK k \in DOMAIN shown[f] : shown'[f][i] = shown[f][k]
            BY <1>7, <3>1, <3>2
        <3> QED
            BY <3>1, <3>2, <3>3 DEF Alerted
    <2>2. \A t \in 0..now' : Pending(t)' \subseteq Pending(t)
        BY <1>2, <1>4 DEF Pending
    \* Nothing is of the new instant, so that its ten minutes are the last ones'.
    <2>3. /\ Alerted(now + 1) \subseteq Alerted(now)
          /\ Pending(now + 1) \subseteq Pending(now)
        <3>1. ASSUME NEW at \in Nat, at <= now, at \in ((now + 1) - Recent)..(now + 1)
              PROVE  at \in (now - Recent)..now
            BY <1>2, <3>1, Bounds
        <3>2. ASSUME NEW f \in Alerted(now + 1) PROVE f \in Alerted(now)
            <4>1. PICK i \in DOMAIN shown[f] :
                      /\ shown[f][i].ordinary /\ shown[f][i].recorded
                      /\ shown[f][i].at \in ((now + 1) - Recent)..(now + 1)
                BY <3>2, Zenon DEF Alerted
            <4>2. f \in Incident
                BY <3>2 DEF Alerted
            <4>3. shown[f][i].at \in Nat /\ shown[f][i].at <= now
                BY <1>1, <4>1, <4>2, ShownFacts DEF InTime
            <4>4. shown[f][i].at \in (now - Recent)..now
                BY <3>1, <4>1, <4>3
            <4> QED
                BY <4>1, <4>2, <4>4, Zenon DEF Alerted
        <3>3. ASSUME NEW f \in Pending(now + 1) PROVE f \in Pending(now)
            <4>1. PICK u \in Underway :
                      /\ task[u].of = f /\ task[u].ordinary
                      /\ task[u].at \in ((now + 1) - Recent)..(now + 1)
                BY <3>3, Zenon DEF Pending
            <4>2. f \in Incident
                BY <3>3 DEF Pending
            <4>3. task[u].at \in (now - Recent)..now
                BY <1>2, <1>5, <3>1, <4>1
            <4> QED
                BY <4>1, <4>2, <4>3, Zenon DEF Pending
        <3> QED
            BY <3>2, <3>3
    <2>4. ASSUME NEW t \in 0..now'
          PROVE  Cardinality(Alerted(t)' \cup Pending(t)') <= Limit + 1
        <3>1. PICK u \in 0..now : Alerted(t) \subseteq Alerted(u) /\ Pending(t) \subseteq Pending(u)
            <4>1. t \in 0..now \/ t = now + 1
                BY <1>2
            <4>2. now \in 0..now
                BY <1>2
            <4> QED
                BY <2>3, <4>1, <4>2
        <3>2. PICK A \in SUBSET Incident : A = Alerted(t)' \cup Pending(t)'
            BY DEF Alerted, Pending
        <3>3. PICK B \in SUBSET Incident : B = Alerted(u) \cup Pending(u)
            BY DEF Alerted, Pending
        <3>4. A \subseteq B /\ Cardinality(B) <= Limit + 1
            BY <2>1, <2>2, <3>1, <3>2, <3>3 DEF IInv, FewAlerted
        <3> QED
            BY <3>2, <3>4, FewerAlerted
    <2> QED
        BY <2>4 DEF FewAlerted
<1> QED
    BY <1>3, <1>9, <1>10, <1>11, <1>12, <1>13, <1>14, <1>15, <1>16 DEF IInv

\* A display is what its fields say.
LEMMA DisplayFields ==
    ASSUME NEW d \in Display
    PROVE  d = [at |-> d.at, severity |-> d.severity, ordinary |-> d.ordinary,
                recorded |-> d.recorded]
BY DEF Display

\* A cleanup forgets the table together with what it knew of the displays.
LEMMA ClearStep ==
    ASSUME IInv, ClearHistory
    PROVE  IInv'
<1>1. TypeOK /\ InTime /\ CallsOK
    BY DEF IInv
<1>2. /\ UNCHANGED <<now, task>> /\ losses' = losses + 1 /\ losses < MaxLosses
      /\ severity' = <<>> /\ told' = <<>> /\ ShownOK'
    BY <1>1, ClearFacts
<1>3. \A f \in Incident :
          /\ DOMAIN shown'[f] = DOMAIN shown[f] /\ Len(shown'[f]) = Len(shown[f])
          /\ shown[f] # <<>> => shown'[f] # <<>>
          /\ \A i \in DOMAIN shown[f] :
                /\ shown'[f][i] = [shown[f][i] EXCEPT !.recorded = FALSE]
                /\ shown'[f][i].at = shown[f][i].at
                /\ shown'[f][i].severity = shown[f][i].severity
                /\ shown'[f][i].ordinary = shown[f][i].ordinary
                /\ shown'[f][i].recorded = FALSE
    BY <1>1, ClearFacts
<1>4. DOMAIN <<>> = {}
    BY EmptySeq
<1>5. TypeOK'
    <2>1. SeverityOK'
        BY <1>2, <1>4 DEF SeverityOK
    <2>2. ToldOK'
        BY <1>2, <1>4 DEF ToldOK
    <2>3. ClockOK'
        BY <1>1, <1>2, Bounds DEF TypeOK, ClockOK
    <2>4. TaskOK'
        BY <1>1, <1>2 DEF TypeOK, TaskOK
    <2> QED
        BY <1>2, <2>1, <2>2, <2>3, <2>4, TypePartsPrimed
<1>6. Underway' = Underway
    BY <1>2 DEF Underway
<1>7. \A t \in Thread : task[t] # NoTask => task[t].of \in Incident
    BY <1>1, TaskKinds
<1>8. CallsOK'
    BY <1>1, <1>2 DEF CallsOK
<1>9. InTime'
    <2>1. \A f \in Incident : \A i \in DOMAIN shown'[f] : shown'[f][i].at <= now'
        BY <1>1, <1>2, <1>3 DEF InTime
    <2>2. ASSUME NEW f \in Incident, NEW i \in DOMAIN shown'[f], NEW j \in DOMAIN shown'[f], i < j
          PROVE  shown'[f][i].at <= shown'[f][j].at
        <3>1. i \in DOMAIN shown[f] /\ j \in DOMAIN shown[f]
            BY <1>3
        <3>2. shown[f][i].at <= shown[f][j].at
            BY <1>1, <2>2, <3>1 DEF InTime
        <3> QED
            BY <1>3, <3>1, <3>2
    <2>3. ASSUME NEW t \in Underway', NEW i \in DOMAIN shown'[task'[t].of]
          PROVE  shown'[task'[t].of][i].at <= task'[t].at
        <3>1. t \in Underway /\ task'[t] = task[t]
            BY <1>2, <1>6
        <3>2. PICK f \in Incident : f = task[t].of /\ f = task'[t].of
            BY <1>7, <3>1 DEF Underway
        <3>3. i \in DOMAIN shown[f] /\ shown'[f][i].at = shown[f][i].at
            BY <1>3, <3>2
        <3>4. shown[f][i].at <= task[t].at
            BY <1>1, <3>1, <3>2, <3>3 DEF InTime
        <3> QED
            BY <3>1, <3>2, <3>3, <3>4
    <2> QED
        BY <2>1, <2>2, <2>3 DEF InTime
<1>10. SentIsLast'
    <2>1. ASSUME NEW t \in Thread, task[t] # NoTask /\ task[t].step = "sent"
          PROVE  LET displays == shown'[task[t].of] IN
                 /\ displays # <<>>
                 /\ displays[Len(displays)] =
                       [at |-> task[t].at, severity |-> task[t].severity,
                        ordinary |-> task[t].ordinary, recorded |-> FALSE]
        <3>1. PICK f \in Incident : f = task[t].of
            BY <1>7, <2>1
        <3>2. /\ shown[f] # <<>>
              /\ shown[f][Len(shown[f])] =
                    [at |-> task[t].at, severity |-> task[t].severity,
                     ordinary |-> task[t].ordinary, recorded |-> FALSE]
            BY <2>1, <3>1 DEF IInv, SentIsLast
        <3>3. Len(shown[f]) \in DOMAIN shown[f]
            BY <1>1, <3>2, ShownFacts, EmptySeq
        <3>4. PICK d : d = shown'[f][Len(shown'[f])]
            OBVIOUS
        <3>5. /\ d.at = task[t].at /\ d.severity = task[t].severity
              /\ d.ordinary = task[t].ordinary /\ d.recorded = FALSE
            <4>1. PICK b : b = shown[f][Len(shown[f])]
                OBVIOUS
            <4>2. /\ d.at = b.at /\ d.severity = b.severity
                  /\ d.ordinary = b.ordinary /\ d.recorded = FALSE
                <5>1. d = shown'[f][Len(shown[f])]
                    BY <1>3, <3>4
                <5> QED
                    BY <1>3, <3>3, <4>1, <5>1
            <4>3. b = [at |-> task[t].at, severity |-> task[t].severity,
                       ordinary |-> task[t].ordinary, recorded |-> FALSE]
                BY <3>2, <4>1
            <4> QED
                BY <4>2, <4>3
        <3>6. d \in Display
            <4>1. shown'[f] \in Seq(Display)
                BY <1>2 DEF ShownOK
            <4>2. Len(shown'[f]) \in 1..Len(shown'[f])
                BY <1>1, <1>3, <3>3, ShownFacts
            <4> QED
                BY <3>4, <4>1, <4>2, ElementOfSeq
        <3>7. d = [at |-> task[t].at, severity |-> task[t].severity,
                   ordinary |-> task[t].ordinary, recorded |-> FALSE]
            BY <3>5, <3>6, DisplayFields
        <3> QED
            BY <1>3, <3>1, <3>2, <3>4, <3>7
    <2> QED
        BY <1>2, <2>1 DEF SentIsLast
<1>11. TableKnows'
    BY <1>3 DEF TableKnows
<1>12. TableIsTrue'
    BY <1>2, <1>4 DEF TableIsTrue
<1>13. RepeatsAreWorse'
    BY <1>3 DEF RepeatsAreWorse, Worse
<1>14. DeliveryIsWorse'
    BY <1>2, <1>3, <1>7 DEF DeliveryIsWorse, Worse
<1>15. FewAlerted'
    <2>1. \A t \in 0..now : Alerted(t)' = {} /\ Pending(t)' = Pending(t)
        BY <1>2, <1>3, <1>6 DEF Alerted, Pending
    <2>2. ASSUME NEW t \in 0..now
          PROVE  Cardinality(Alerted(t)' \cup Pending(t)') <= Limit + 1
        <3>1. PICK A \in SUBSET Incident : A = Alerted(t)' \cup Pending(t)'
            BY DEF Alerted, Pending
        <3>2. PICK B \in SUBSET Incident : B = Alerted(t) \cup Pending(t)
            BY DEF Alerted, Pending
        <3>3. A \subseteq B /\ Cardinality(B) <= Limit + 1
            BY <2>1, <3>1, <3>2 DEF IInv, FewAlerted
        <3> QED
            BY <3>1, <3>3, FewerAlerted
    <2> QED
        BY <1>2, <2>2 DEF FewAlerted
<1> QED
    BY <1>5, <1>8, <1>9, <1>10, <1>11, <1>12, <1>13, <1>14, <1>15 DEF IInv
-----------------------------------------------------------------------------
(* The invariant.                                                          *)

\* Nothing is filed, told or displayed at first.
LEMMA IInvInit == Init => IInv
<1> SUFFICES ASSUME Init PROVE IInv
    OBVIOUS
<1>1. /\ now = 0 /\ severity = <<>> /\ told = <<>> /\ losses = 0
      /\ \A t \in Thread : task[t] = NoTask
      /\ \A f \in Incident : shown[f] = <<>>
    BY DEF Init
<1>2. DOMAIN <<>> = {}
    OBVIOUS
<1>3. TypeOK
    BY <1>2, Bounds DEF Init, TypeOK
<1>4. Underway = {}
    BY <1>1 DEF Underway
<1>5. CallsOK /\ InTime /\ SentIsLast
    BY <1>1, <1>2, <1>4 DEF CallsOK, InTime, SentIsLast
<1>6. TableKnows /\ TableIsTrue /\ RepeatsAreWorse /\ DeliveryIsWorse
    BY <1>1, <1>2 DEF TableKnows, TableIsTrue, RepeatsAreWorse, DeliveryIsWorse
<1>7. FewAlerted
    <2>1. ASSUME NEW t \in 0..now PROVE Cardinality(Alerted(t) \cup Pending(t)) <= Limit + 1
        <3>1. Alerted(t) \cup Pending(t) = {}
            BY <1>1, <1>2, <1>4 DEF Alerted, Pending
        <3> QED
            BY <3>1, FS_EmptySet, Bounds
    <2> QED
        BY <2>1 DEF FewAlerted
<1> QED
    BY <1>3, <1>5, <1>6, <1>7 DEF IInv

\* Every step preserves the invariant.
LEMMA IInvStep == IInv /\ [Next]_vars => IInv'
<1> SUFFICES ASSUME IInv, [Next]_vars PROVE IInv'
    OBVIOUS
<1>1. CASE Tick
    BY <1>1, TickStep
<1>2. CASE Crash
    BY <1>2, CrashStep
<1>3. CASE ClearHistory
    BY <1>3, ClearStep
<1>4. ASSUME NEW t \in Thread, Decide(t) PROVE IInv'
    BY <1>4, DecideStep
<1>5. ASSUME NEW t \in Thread, Deliver(t) PROVE IInv'
    BY <1>5, DeliverStep
<1>6. ASSUME NEW t \in Thread, DeliveryFails(t) PROVE IInv'
    BY <1>6, FailsStep
<1>7. ASSUME NEW t \in Thread, Record(t) PROVE IInv'
    BY <1>7, RecordStep
<1>8. ASSUME NEW t \in Thread, NEW f \in Incident, NEW s \in Seen, File(t, f, s) PROVE IInv'
    BY <1>8, FileStep
<1>9. CASE UNCHANGED vars
    <2>1. TypeOK'
        BY <1>9 DEF IInv, TypeOK, vars
    <2> QED
        BY <1>9, <2>1, IdleStep DEF vars
<1> QED
    BY <1>1, <1>2, <1>3, <1>4, <1>5, <1>6, <1>7, <1>8, <1>9 DEF Next

\* The invariant holds of every behaviour.
LEMMA Invariant == Spec => []IInv
BY IInvInit, IInvStep, PTL DEF Spec

-----------------------------------------------------------------------------
(* The theorems.                                                           *)

\* Every state of the threads, the table and the history is well-formed.
THEOREM TypeInvariant == Spec => []TypeOK
<1>1. IInv => TypeOK
    BY DEF IInv
<1> QED
    BY <1>1, Invariant, PTL

\* An alert is repeated within the cooldown only when it has become more
\* severe, unless a crash or a cleanup made the table forget the first one.
THEOREM NoNeedlessRepeat == Spec => []NoRepeat
<1>1. IInv => NoRepeat
    BY DEF IInv, RepeatsAreWorse, Worse, NoRepeat
<1> QED
    BY <1>1, Invariant, PTL

\* Two ordinary recorded displays of one incident are a cooldown apart, so
\* that ten minutes hold one of each incident at most.
LEMMA OrdinaryOnce ==
    ASSUME IInv, NEW t \in 0..now, NEW f \in Incident,
           NEW i \in DOMAIN shown[f], NEW j \in DOMAIN shown[f], i < j,
           shown[f][i].recorded, shown[f][j].ordinary,
           shown[f][i].at \in (t - Recent)..t, shown[f][j].at \in (t - Recent)..t
    PROVE  FALSE
<1>1. TypeOK
    BY DEF IInv
<1>2. shown[f][i].at \in Nat /\ shown[f][j].at \in Nat /\ t \in Int /\ now \in Nat
    BY <1>1, ShownFacts, Bounds DEF TypeOK
<1>3. shown[f][j].at - shown[f][i].at < Cooldown
    BY <1>2, Bounds
<1> QED
    BY <1>3 DEF IInv, RepeatsAreWorse, Worse

\* However the two threads interleave, the ordinary alerts displayed and
\* recorded in ten minutes are at most one more than the limit.
THEOREM RateIsLimited == Spec => []RateLimited
<1>1. ASSUME IInv, NEW t \in 0..now PROVE Cardinality(Ordinary(t)) <= Limit + 1
    <2> DEFINE of == [display \in Ordinary(t) |-> display[1]]
    <2>1. ASSUME NEW display \in Ordinary(t)
          PROVE  \E f \in Incident : \E i \in DOMAIN shown[f] :
                    /\ display = <<f, i>>
                    /\ shown[f][i].ordinary /\ shown[f][i].recorded
                    /\ shown[f][i].at \in (t - Recent)..t
        <3>1. PICK f \in Incident : display \in {f} \X DOMAIN shown[f]
            BY <2>1 DEF Ordinary
        <3>2. PICK i \in DOMAIN shown[f] : display = <<f, i>>
            BY <3>1
        <3>3. /\ shown[display[1]][display[2]].ordinary
              /\ shown[display[1]][display[2]].recorded
              /\ shown[display[1]][display[2]].at \in (t - Recent)..t
            BY <2>1, Zenon DEF Ordinary
        <3> QED
            BY <3>2, <3>3
    <2>2. of \in [Ordinary(t) -> Alerted(t)]
        BY <2>1 DEF Alerted
    <2>3. ASSUME NEW d \in Ordinary(t), NEW e \in Ordinary(t), of[d] = of[e] PROVE d = e
        <3>1. PICK f \in Incident : \E i \in DOMAIN shown[f] :
                  /\ d = <<f, i>> /\ shown[f][i].ordinary /\ shown[f][i].recorded
                  /\ shown[f][i].at \in (t - Recent)..t
            BY <2>1
        <3>1a. PICK i \in DOMAIN shown[f] :
                  /\ d = <<f, i>> /\ shown[f][i].ordinary /\ shown[f][i].recorded
                  /\ shown[f][i].at \in (t - Recent)..t
            BY <3>1
        <3>2. PICK g \in Incident : \E j \in DOMAIN shown[g] :
                  /\ e = <<g, j>> /\ shown[g][j].ordinary /\ shown[g][j].recorded
                  /\ shown[g][j].at \in (t - Recent)..t
            BY <2>1
        <3>2a. PICK j \in DOMAIN shown[g] :
                  /\ e = <<g, j>> /\ shown[g][j].ordinary /\ shown[g][j].recorded
                  /\ shown[g][j].at \in (t - Recent)..t
            BY <3>2
        <3>3. f = g
            BY <2>3, <3>1a, <3>2a
        <3>4. ~(i < j) /\ ~(j < i)
            BY <1>1, <3>1a, <3>2a, <3>3, OrdinaryOnce
        <3>5. i \in Nat /\ j \in Nat
            BY <1>1, <3>3, ShownFacts DEF IInv
        <3> QED
            BY <3>1a, <3>2a, <3>3, <3>4, <3>5
    <2>4. PICK A \in SUBSET Incident : A = Alerted(t)
        BY DEF Alerted
    <2>5. PICK B \in SUBSET Incident : B = Alerted(t) \cup Pending(t)
        BY DEF Alerted, Pending
    <2>6. Cardinality(A) <= Limit + 1
        BY <1>1, <2>4, <2>5, FewerAlerted DEF IInv, FewAlerted
    <2>7. IsFiniteSet(A) /\ Cardinality(A) \in Nat
        BY IncidentsFinite
    <2>8. of \in Injection(Ordinary(t), A)
        BY <2>2, <2>3, <2>4, Fun_IsInj
    <2>9. Cardinality(Ordinary(t)) <= Cardinality(A) /\ Cardinality(Ordinary(t)) \in Nat
        <3>1. IsFiniteSet(Ordinary(t)) /\ Cardinality(Ordinary(t)) <= Cardinality(A)
            BY <2>7, <2>8, FS_Injection
        <3> QED
            BY <3>1, FS_CardinalityType
    <2> QED
        BY <2>6, <2>7, <2>9, Bounds
<1>2. IInv => RateLimited
    BY <1>1 DEF RateLimited
<1> QED
    BY <1>2, Invariant, PTL

\* An alert is given up by a decision only.
LEMMA OnlyDecisionsGiveUp ==
    ASSUME IInv, [Next]_vars, NEW t \in Thread, GivesUp(t)
    PROVE  Decide(t)
<1>1. /\ task[t] # NoTask /\ task[t].step = "filed"
      /\ task'[t] = NoTask /\ losses' = losses /\ losses \in Nat
      /\ task \in [Thread -> Call \cup Sending \cup {NoTask}]
    BY Bounds DEF GivesUp, IInv, TypeOK
<1>2. ~Tick /\ ~UNCHANGED vars
    BY <1>1 DEF Tick, vars
<1>3. ~Crash /\ ~ClearHistory
    BY <1>1 DEF Crash, ClearHistory
<1>4. ASSUME NEW u \in Thread, Decide(u) PROVE u = t
    BY <1>1, <1>4 DEF Decide
<1>5. ASSUME NEW u \in Thread PROVE ~Deliver(u) /\ ~DeliveryFails(u) /\ ~Record(u)
    BY <1>1 DEF Deliver, DeliveryFails, Record, Send
<1>6. ASSUME NEW u \in Thread, NEW f \in Incident, NEW s \in Seen PROVE ~File(u, f, s)
    BY <1>1 DEF File
<1> QED
    BY <1>2, <1>3, <1>4, <1>5, <1>6 DEF Next

\* What the table has of the last ten minutes was displayed in them.
LEMMA ToldIsShown ==
    ASSUME IInv
    PROVE  Cardinality({g \in DOMAIN told : told[g].last >= now - Recent})
              <= Cardinality(RecentlyShown)
<1>1. PICK A : A = {g \in DOMAIN told : told[g].last >= now - Recent}
    OBVIOUS
<1>2. TypeOK
    BY DEF IInv
<1>3. ASSUME NEW g \in A PROVE g \in RecentlyShown
    <2>1. g \in DOMAIN told /\ g \in Incident /\ told[g].last \in Nat /\ now \in Nat
          /\ told[g].last >= now - Recent
        BY <1>1, <1>2, Bounds DEF TypeOK
    <2>2. now - told[g].last < Cooldown
        BY <2>1, Bounds
    <2>3. PICK i \in DOMAIN shown[g] : shown[g][i].at = told[g].last
        BY <2>1, <2>2 DEF IInv, TableIsTrue
    <2> QED
        BY <2>1, <2>3 DEF RecentlyShown
<1>4. PICK B \in SUBSET Incident : B = RecentlyShown
    BY DEF RecentlyShown
<1>5. Cardinality(A) <= Cardinality(B)
    BY <1>3, <1>4, IncidentsFinite, FS_Subset
<1> QED
    BY <1>1, <1>4, <1>5

\* An alert is held back only when the user has been shown this incident, at
\* least as severe, within the cooldown, or the limit of incidents in ten
\* minutes: a delivery that failed holds nothing back.
THEOREM HeldBackAfterDisplay == Spec => HeldBackOnlyAfterDisplay
<1>1. ASSUME IInv, [Next]_vars, NEW t \in Thread, GivesUp(t)
      PROVE  \/ Displayed(task[t].of, severity[task[t].of])
             \/ Cardinality(RecentlyShown) >= Limit
    <2> DEFINE f == task[t].of
    <2>1. Decide(t)
        BY <1>1, OnlyDecisionsGiveUp
    <2>2. f \in DOMAIN severity /\ severity[f] \in Alertable /\ task'[t] = NoTask
        BY <1>1 DEF GivesUp
    <2>3. ~MaySend(f) /\ f \in Incident
        BY <1>1, <2>1, <2>2, DecideFacts, FilesIncidents DEF IInv
    <2>4. CoolingDown(f) \/ Crowded(f)
        BY <2>2, <2>3 DEF MaySend
    <2>5. CASE CoolingDown(f)
        <3>1. f \in DOMAIN told /\ ~Escalated(f) /\ now - told[f].last < Cooldown
            BY <2>5 DEF CoolingDown
        <3>2. PICK i \in DOMAIN shown[f] : /\ shown[f][i].at = told[f].last
                                           /\ shown[f][i].severity = told[f].severity
            BY <1>1, <3>1 DEF IInv, TableIsTrue
        <3>3. Rank[severity[f]] \in Nat /\ Rank[told[f].severity] \in Nat
            BY <1>1, <2>2, <2>3, <3>2, RankNat, ShownFacts DEF IInv
        <3>4. Rank[told[f].severity] >= Rank[severity[f]]
            BY <3>1, <3>3 DEF Escalated
        <3> QED
            BY <3>1, <3>2, <3>4 DEF Displayed
    <2>6. CASE Crowded(f)
        <3>1. Cardinality({g \in DOMAIN told : told[g].last >= now - Recent}) >= Limit
            BY <2>6 DEF Crowded
        <3>2. Cardinality({g \in DOMAIN told : told[g].last >= now - Recent}) \in Nat
            <4>1. {g \in DOMAIN told : told[g].last >= now - Recent} \in SUBSET Incident
                BY <1>1 DEF IInv, TypeOK
            <4> QED
                BY <4>1, IncidentsFinite
        <3>3. Cardinality(RecentlyShown) \in Nat
            <4>1. RecentlyShown \in SUBSET Incident
                BY DEF RecentlyShown
            <4> QED
                BY <4>1, IncidentsFinite
        <3> QED
            BY <1>1, <3>1, <3>2, <3>3, ToldIsShown, Bounds
    <2> QED
        BY <2>4, <2>5, <2>6
<1>2. IInv /\ [Next]_vars =>
          [\A t \in Thread : GivesUp(t) =>
              \/ Displayed(task[t].of, severity[task[t].of])
              \/ Cardinality(RecentlyShown) >= Limit]_vars
    BY <1>1
<1> QED
    BY <1>2, Invariant, PTL DEF Spec, HeldBackOnlyAfterDisplay
=============================================================================
