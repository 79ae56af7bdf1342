--------------------------- MODULE Notifications ---------------------------
(***************************************************************************)
(* Desktop notifications: Collector.maybe_notify                           *)
(* (app/pcdiag_collector.py), as the main thread calls it for its probes   *)
(* and the journal follower for the records it files.                      *)
(*                                                                         *)
(* A call reads the incident and the notifications table, runs             *)
(* notify-send, and writes the table; everything else may happen between   *)
(* these steps.  A probe's rule is never a rule of the journal, so an      *)
(* incident is announced by one thread only.  shown is history: what the   *)
(* desktop has displayed.                                                  *)
(***************************************************************************)
EXTENDS Integers, Sequences, FiniteSets

CONSTANTS
    Probed,     \* incidents the probes file (main thread)
    Logged,     \* incidents the journal follower files
    Seen,       \* severities evidence is filed with
    Cooldown,   \* 30 minutes, in ticks
    Recent,     \* 10 minutes, in ticks
    Limit,      \* 6 notifications
    NoTask,
    MaxTime,    \* bound: the last instant
    MaxLosses   \* bound: crashes of the collector and cleanups of the history

Rank      == [Activity |-> 0, Notice |-> 1, Warning |-> 2, Error |-> 3, Critical |-> 4]
Severity  == DOMAIN Rank
Alertable == {"Warning", "Error", "Critical"}
Thread    == {"main", "follower"}
Incident  == Probed \cup Logged

Files(t) == IF t = "main" THEN Probed ELSE Logged

Call    == [of: Incident, step: {"filed"}]
Sending == [of: Incident, step: {"sending", "sent"}, at: 0..MaxTime, severity: Alertable,
            ordinary: BOOLEAN]
Display == [at: 0..MaxTime, severity: Alertable, ordinary: BOOLEAN,
            recorded: BOOLEAN]

ASSUME NotificationsAssumption ==
    /\ Probed \cap Logged = {}
    /\ IsFiniteSet(Probed) /\ IsFiniteSet(Logged)
    /\ Seen \subseteq Severity
    /\ \A k \in {Cooldown, Recent, Limit, MaxTime, MaxLosses} : k \in Nat
    /\ 0 < Recent /\ Recent < Cooldown
    /\ NoTask \notin Call \cup Sending

VARIABLES
    now,       \* the wall clock
    severity,  \* incident -> severity of its row in incidents
    told,      \* notifications: incident -> [last, severity]
    task,      \* thread -> the call of maybe_notify it is in
    shown,     \* incident -> its displays, in order, the outdated ones dropped
    losses     \* crashes and cleanups so far

vars == <<now, severity, told, task, shown, losses>>

TypeOK ==
    /\ now \in 0..MaxTime
    /\ DOMAIN severity \subseteq Incident
    /\ severity \in [DOMAIN severity -> Severity]
    /\ DOMAIN told \subseteq Incident
    /\ told \in [DOMAIN told -> [last: 0..MaxTime, severity: Alertable]]
    /\ task \in [Thread -> Call \cup Sending \cup {NoTask}]
    /\ shown \in [Incident -> Seq(Display)]
    /\ losses \in 0..MaxLosses

Init ==
    /\ now = 0
    /\ severity = <<>>
    /\ told = <<>>
    /\ task = [t \in Thread |-> NoTask]
    /\ shown = [f \in Incident |-> <<>>]
    /\ losses = 0

-----------------------------------------------------------------------------
\* Function f with v at k (an UPSERT).
With(f, k, v) == [x \in DOMAIN f \cup {k} |-> IF x = k THEN v ELSE f[x]]

\* The follower files its record and announces it in one transaction, and
\* nobody else writes meanwhile.
WriteLocked == task["follower"] # NoTask

\* What is left at time t of the displays of an incident, the oldest first.
NotOutdated(displays, t) ==
    LET outdated == Cardinality({i \in DOMAIN displays : t - displays[i].at >= Cooldown})
    IN  [i \in 1..Len(displays) - outdated |-> displays[outdated + i]]

\* The delivery of a notification is cut off after five seconds, less than a
\* tick, so that it lasts over one tick at most.
Underway == {t \in Thread : task[t] # NoTask /\ task[t].step \in {"sending", "sent"}}

Tick ==
    /\ now < MaxTime
    /\ \A t \in Underway : task[t].at = now
    /\ now' = now + 1
    /\ shown' = [f \in Incident |-> NotOutdated(shown[f], now + 1)]
    /\ UNCHANGED <<severity, told, task, losses>>

\* New evidence: record_incident never lowers an incident's severity.
File(t, f, s) ==
    /\ task[t] = NoTask
    /\ t = "main" => ~WriteLocked
    /\ f \in Files(t)
    /\ severity' = IF f \in DOMAIN severity /\ Rank[severity[f]] >= Rank[s]
                   THEN severity
                   ELSE With(severity, f, s)
    /\ task' = [task EXCEPT ![t] = [of |-> f, step |-> "filed"]]
    /\ UNCHANGED <<now, told, shown, losses>>

Escalated(f) == f \in DOMAIN told /\ Rank[severity[f]] > Rank[told[f].severity]

\* Faulty variant: a critical incident never cools down.
CoolingOnly(f) == f \in DOMAIN told /\ severity[f] # "Critical" /\ now - told[f].last < Cooldown

CoolingDown(f) == f \in DOMAIN told /\ ~Escalated(f) /\ now - told[f].last < Cooldown

\* Faulty variant: the limit is reached one notification later.
LaxCrowded(f) ==
    /\ Cardinality({g \in DOMAIN told : told[g].last >= now - Recent}) > Limit
    /\ severity[f] # "Critical" /\ ~Escalated(f)

Crowded(f) ==
    /\ Cardinality({g \in DOMAIN told : told[g].last >= now - Recent}) >= Limit
    /\ severity[f] # "Critical" /\ ~Escalated(f)

\* Faulty variant: any severity is worth an alert.
MaySendAny(f) == f \in DOMAIN severity /\ ~CoolingDown(f) /\ ~Crowded(f)

\* The call goes on to notify-send; a cleanup may have deleted the incident.
MaySend(f) ==
    /\ f \in DOMAIN severity
    /\ severity[f] \in Alertable
    /\ ~CoolingDown(f)
    /\ ~Crowded(f)

Decide(t) ==
    /\ task[t] # NoTask
    /\ task[t].step = "filed"
    /\ LET f == task[t].of IN
       task' = [task EXCEPT ![t] =
            IF MaySend(f)
            THEN [of |-> f, step |-> "sending", at |-> now, severity |-> severity[f],
                  ordinary |-> severity[f] # "Critical" /\ ~Escalated(f)]
            ELSE NoTask]
    /\ UNCHANGED <<now, severity, told, shown, losses>>

Send(t) == task[t] # NoTask /\ task[t].step = "sending"

\* notify-send has displayed it.
Deliver(t) ==
    /\ Send(t)
    /\ shown' = [shown EXCEPT ![task[t].of] =
            Append(@, [at |-> task[t].at, severity |-> task[t].severity,
                       ordinary |-> task[t].ordinary, recorded |-> FALSE])]
    /\ task' = [task EXCEPT ![t].step = "sent"]
    /\ UNCHANGED <<now, severity, told, losses>>

\* Faulty variant: a failed delivery is recorded as well.
FailRecorded(t) ==
    /\ Send(t)
    /\ told' = With(told, task[t].of, [last |-> task[t].at, severity |-> task[t].severity])
    /\ task' = [task EXCEPT ![t] = NoTask]
    /\ UNCHANGED <<now, severity, shown, losses>>

\* notify-send is missing, times out or exits with an error.
DeliveryFails(t) ==
    /\ Send(t)
    /\ task' = [task EXCEPT ![t] = NoTask]
    /\ UNCHANGED <<now, severity, told, shown, losses>>

\* The UPSERT and its commit.
Record(t) ==
    /\ task[t] # NoTask
    /\ task[t].step = "sent"
    /\ t = "main" => ~WriteLocked
    /\ told' = With(told, task[t].of, [last |-> task[t].at, severity |-> task[t].severity])
    /\ shown' = [shown EXCEPT ![task[t].of][Len(shown[task[t].of])].recorded = TRUE]
    /\ task' = [task EXCEPT ![t] = NoTask]
    /\ UNCHANGED <<now, severity, losses>>

\* The collector ends, with the calls its threads are in.
Crash ==
    /\ losses < MaxLosses
    /\ losses' = losses + 1
    /\ task' = [t \in Thread |-> NoTask]
    /\ UNCHANGED <<now, severity, told, shown>>

\* clear_retained_data with "incidents", from the window.
ClearHistory ==
    /\ ~WriteLocked
    /\ losses < MaxLosses
    /\ losses' = losses + 1
    /\ severity' = <<>>
    /\ told' = <<>>
    /\ shown' = [f \in Incident |->
            [i \in DOMAIN shown[f] |-> [shown[f][i] EXCEPT !.recorded = FALSE]]]
    /\ UNCHANGED <<now, task>>

Next ==
    \/ Tick \/ Crash \/ ClearHistory
    \/ \E t \in Thread :
        \/ Decide(t) \/ Deliver(t) \/ DeliveryFails(t) \/ Record(t)
        \/ \E f \in Incident, s \in Seen : File(t, f, s)

Spec == Init /\ [][Next]_vars

-----------------------------------------------------------------------------
(* Properties.                                                             *)

\* The ordinary alerts displayed and recorded in the ten minutes up to t.
Ordinary(t) ==
    {display \in UNION {{f} \X DOMAIN shown[f] : f \in Incident} :
        LET d == shown[display[1]][display[2]] IN
        d.ordinary /\ d.recorded /\ d.at \in (t - Recent)..t}

\* However the two threads interleave, at most one ordinary alert more than
\* the limit is displayed in ten minutes, not counting those a crash or a
\* cleanup made the table forget.
RateLimited == \A t \in 0..now : Cardinality(Ordinary(t)) <= Limit + 1

\* An alert is repeated within the cooldown only when it has become more
\* severe, or when a crash or a cleanup made the table forget the first one.
NoRepeat ==
    \A f \in Incident : \A i, j \in DOMAIN shown[f] :
        LET first == shown[f][i]
            again == shown[f][j]
        IN  i < j /\ first.recorded /\ again.at - first.at < Cooldown
            => Rank[again.severity] > Rank[first.severity]

Displayed(f, s) ==
    \E i \in DOMAIN shown[f] : /\ now - shown[f][i].at < Cooldown
                               /\ Rank[shown[f][i].severity] >= Rank[s]

RecentlyShown == {f \in Incident : \E i \in DOMAIN shown[f] : shown[f][i].at >= now - Recent}

\* The call gives up an alert although its incident is worth one.
GivesUp(t) ==
    /\ task[t] # NoTask /\ task[t].step = "filed"
    /\ task'[t] = NoTask /\ losses' = losses
    /\ task[t].of \in DOMAIN severity /\ severity[task[t].of] \in Alertable

\* ARCHITECTURE.md: failed delivery is not recorded as delivered.  An alert is
\* held back only when the user has been shown this incident, at least as
\* severe, within the cooldown, or the limit of incidents in ten minutes.
HeldBackOnlyAfterDisplay ==
    [][\A t \in Thread : GivesUp(t) =>
        \/ Displayed(task[t].of, severity[task[t].of])
        \/ Cardinality(RecentlyShown) >= Limit]_vars
=============================================================================
