------------------------- MODULE DiagnosticsWindow -------------------------
(***************************************************************************)
(* The window (app/pc_diagnostics.py).  Every page shows the answer of a   *)
(* query that runs on the window's thread pool; GTK's main loop submits    *)
(* it, numbers it, and later handles its result, while the user goes on    *)
(* and the collector goes on writing.                                      *)
(*                                                                         *)
(* Pages have their own request numbers and share only the window and the  *)
(* database, so the module follows one page, of any kind, and one incident *)
(* among others.  What a query reads is abstracted to the version of the   *)
(* database, the newest evidence and the incident; EventFeed has the rows  *)
(* of the event feed and their paging.                                     *)
(***************************************************************************)
EXTENDS Integers

CONSTANTS
    Pages,      \* the pages considered
    MaxTime,    \* bound: when evidence occurs
    MaxChanges, \* bound: changes of the database
    MaxInputs,  \* bound: things the user does and failures of the database
    None

\* Pages that _poll_ready refreshes when the incident token has changed, a page
\* the ten-second tick refreshes, pages with a filter, and a page that shows
\* an empty list when its query fails; the others then keep what they show.
Polled   == {"overview", "forensics", "issues", "events"}
Ticking  == {"performance", "power"}
Filtered == {"issues", "events", "performance"}
Blanking == {"boots"}

Filters  == {"all", "this"}
Incidents == [status : {"none", "open", "resolved"}, acked : BOOLEAN, last : 0..MaxTime]
Views    == [evidence : 0..MaxChanges, incident : Incidents]
Requests == [step : {"sent", "answered", "failed"}, filter : Filters,
             version : 0..MaxChanges, view : Views \cup {None}]
Answers  == [version : 0..MaxChanges, view : Views \cup {None}, filter : Filters]
Tokens   == (0..MaxChanges) \X (0..MaxTime) \X BOOLEAN \X BOOLEAN

ASSUME WindowAssumption ==
    /\ Pages \subseteq Polled \cup Ticking \cup Blanking
    /\ MaxTime \in Nat \ {0} /\ MaxChanges \in Nat /\ MaxInputs \in Nat
    /\ None \notin Requests \cup Answers \cup Tokens \cup Views

VARIABLES
    \* the database
    evidence,  \* the highest id of a piece of evidence, or 0
    latest,    \* the highest last_us of the incidents, or 0
    incident,  \* one of them: its status, whether it is acknowledged, its last_us
    version,   \* changes so far
    \* the window
    page, visible, closed,
    filter,    \* what the page's controls ask for
    follow,    \* the event feed's Follow switch
    request,   \* the newest request, and a superseded one whose answer is due
    shown,     \* the answer the page shows: what was read, for which filter
    poll,      \* the token query, and what it read
    lastToken, \* last_token
    update,    \* the user's change of the incident
    \* bound and history
    inputs,
    missed,    \* the newest query failed, or a change was passed over
    pruned     \* version of the last pruning since the history was cleared, or 0

database == <<evidence, latest, incident, version, pruned>>
controls == <<page, visible, filter, follow>>
content  == <<request, shown, missed>>
polling  == <<poll, lastToken>>
vars     == <<database, controls, closed, content, polling, update, inputs>>

Gone == [status |-> "none", acked |-> FALSE, last |-> 0]

TypeOK ==
    /\ evidence \in 0..version
    /\ latest \in 0..MaxTime
    /\ incident \in Incidents
    /\ version \in 0..MaxChanges
    /\ page \in Pages /\ visible \in BOOLEAN /\ closed \in BOOLEAN
    /\ filter \in Filters /\ follow \in BOOLEAN
    /\ request \in [newest : Requests \cup {None}, older : Requests \cup {None}]
    /\ shown \in Answers \cup {None}
    /\ poll \in [step : {"idle", "sent", "answered"}, token : Tokens \cup {None}]
    /\ lastToken \in Tokens \cup {None}
    /\ update \in {"none", "changed", "cleared"}
    /\ inputs \in 0..MaxInputs
    /\ missed \in BOOLEAN
    /\ pruned \in 0..version

-----------------------------------------------------------------------------
(* What the database does while there is a window; version counts its       *)
(* changes.                                                                *)

Changed == ~closed /\ version < MaxChanges /\ version' = version + 1

Asked(f) == [step |-> "sent", filter |-> f, version |-> 0, view |-> None]

\* The window opens on the overview, which is refreshed; the other pages are
\* when they are shown.
Init ==
    /\ evidence = 0 /\ latest = 0 /\ incident = Gone /\ version = 0
    /\ page \in Pages /\ visible = (page = "overview") /\ closed = FALSE
    /\ filter = "all" /\ follow = TRUE
    /\ request = [newest |-> IF visible THEN Asked("all") ELSE None, older |-> None]
    /\ shown = None
    /\ poll = [step |-> "idle", token |-> None] /\ lastToken = None
    /\ update = "none"
    /\ inputs = 0
    /\ missed = FALSE
    /\ pruned = 0

\* record_incident: evidence at least as new as the incident opens it; evidence
\* of another incident leaves this one alone.
Evidence ==
    /\ Changed
    /\ evidence' = version'
    /\ \E at \in 1..MaxTime :
          /\ latest' = IF at < latest THEN latest ELSE at
          /\ \/ incident' = IF at < incident.last THEN incident
                            ELSE [status |-> "open", acked |-> FALSE, last |-> at]
             \/ UNCHANGED incident
    /\ UNCHANGED <<pruned, controls, closed, content, polling, update, inputs>>

\* resolve_incident, when a probe finds the condition gone.
ConditionClears ==
    /\ incident.status = "open"
    /\ Changed
    /\ incident' = [incident EXCEPT !.status = "resolved"]
    /\ UNCHANGED <<evidence, latest, pruned, controls, closed, content, polling, update, inputs>>

\* prune_v2: incidents last seen before the cutoff are deleted, and evidence of
\* before the cutoff, among it perhaps the rows that were filed last.
Prune ==
    /\ Changed
    /\ \E cutoff \in 1..MaxTime :
          /\ incident' = IF incident.last < cutoff THEN Gone ELSE incident
          /\ IF latest < cutoff
             THEN evidence' = 0 /\ latest' = 0
             ELSE evidence' \in 1..evidence /\ UNCHANGED latest
    /\ pruned' = version'
    /\ UNCHANGED <<controls, closed, content, polling, update, inputs>>

\* promote_top_critical_incidents, when the collector is launched beside the
\* window: severity, rule and texts of incidents change, nothing else.
Promote ==
    /\ incident.status # "none"
    /\ Changed
    /\ UNCHANGED <<evidence, latest, incident, pruned, controls, closed, content,
                   polling, update, inputs>>

\* Faulty variant: the token leaves out the open incidents.
TokenOfEvidence == <<evidence, latest, incident.acked>>

\* incident_change_token
Token == <<evidence, latest, incident.acked, incident.status = "open">>

\* What a query of the page reads.
View == [evidence |-> evidence, incident |-> incident]

-----------------------------------------------------------------------------
(* Requests for the page's content.                                        *)

Input == inputs < MaxInputs /\ inputs' = inputs + 1
Click == ~closed /\ Input

\* The query that is submitted becomes the newest request.  The one before it
\* goes on; it may yet read the database, before or after the newest does.
Submit(f) ==
    /\ request' = [newest |-> Asked(f),
                   older |-> IF request.newest = None THEN request.older ELSE request.newest]
    /\ missed' = FALSE
    /\ UNCHANGED shown

\* _refresh_incidents, _refresh_overview_issues, _refresh_performance, ...
Refresh == Submit(filter)

NoRefresh == UNCHANGED content

\* navigate, to this page or to another: the page that is shown is refreshed.
Navigate ==
    /\ Click
    /\ visible' \in BOOLEAN /\ (visible \/ visible')
    /\ IF visible' THEN Refresh ELSE NoRefresh
    /\ UNCHANGED <<database, page, filter, follow, closed, polling, update>>

SetFilter ==
    /\ visible /\ page \in Filtered
    /\ Click
    /\ filter' \in Filters \ {filter}
    /\ Submit(filter')
    /\ UNCHANGED <<database, page, visible, follow, closed, polling, update>>

SwitchFollow ==
    /\ visible /\ page = "events"
    /\ Click
    /\ follow' = ~follow
    /\ NoRefresh
    /\ UNCHANGED <<database, page, visible, filter, closed, polling, update>>

\* _metric_tick; when nothing has changed it reads the same again.
Tick ==
    /\ ~closed /\ visible
    /\ page \in Ticking
    /\ shown # None => shown.version # version
    /\ Refresh
    /\ UNCHANGED <<database, controls, closed, polling, update, inputs>>

\* The query runs on a thread of the pool, or fails.
Query(k) ==
    /\ request[k] # None /\ request[k].step = "sent"
    /\ \/ /\ request' = [request EXCEPT ![k].step = "answered",
                                         ![k].version = version, ![k].view = View]
          /\ UNCHANGED inputs
       \/ request' = [request EXCEPT ![k].step = "failed"] /\ Input
    /\ UNCHANGED <<database, controls, closed, shown, missed, polling, update>>

\* Faulty variant: the request's number is not looked at.
SupersededNever(k) == FALSE

\* A result whose request number is not the newest is dropped.
Superseded(k) == k = "older"

ShowFailure ==
    /\ shown' = IF page \in Blanking THEN None ELSE shown
    /\ missed' = TRUE

ShowAnswer(r) ==
    /\ shown' = [version |-> r.version, view |-> r.view, filter |-> r.filter]
    /\ UNCHANGED missed

\* What a page makes of an answer or a failure.
Show(r) == IF r.step = "failed" THEN ShowFailure ELSE ShowAnswer(r)

\* _incidents_ready, _overview_issues_ready, _live_ready, ...
Ready(k) ==
    /\ request[k] # None
    /\ request[k].step # "sent"
    /\ request' = [request EXCEPT ![k] = None]
    /\ IF closed \/ Superseded(k)
       THEN UNCHANGED <<shown, missed>>
       ELSE Show(request[k])
    /\ UNCHANGED <<database, controls, closed, polling, update, inputs>>

-----------------------------------------------------------------------------
(* The five-second poll of the incident token, which has no effect when the *)
(* token is the last one read or the page is not among the polled ones.     *)

Poll ==
    /\ ~closed
    /\ page \in Polled
    /\ poll.step = "idle"
    /\ Token # lastToken
    /\ poll' = [step |-> "sent", token |-> None]
    /\ UNCHANGED <<database, controls, closed, content, lastToken, update, inputs>>

PollQuery ==
    /\ poll.step = "sent"
    /\ \/ poll' = [step |-> "answered", token |-> Token] /\ UNCHANGED inputs
       \/ poll' = [step |-> "answered", token |-> None] /\ Input
    /\ UNCHANGED <<database, controls, closed, content, lastToken, update>>

\* Faulty variant: a failed poll leaves poll_inflight set.
PollReadyIfRead ==
    /\ poll.step = "answered"
    /\ poll.token # None
    /\ poll' = [step |-> "idle", token |-> None]
    /\ lastToken' = poll.token
    /\ IF visible /\ ~closed /\ page \in Polled THEN Refresh ELSE NoRefresh
    /\ UNCHANGED <<database, controls, closed, update, inputs>>

\* _poll_ready: the token is taken over whether or not the page is refreshed.
PollReady ==
    /\ poll.step = "answered"
    /\ poll' = [step |-> "idle", token |-> None]
    /\ IF closed \/ poll.token \in {None, lastToken}
       THEN NoRefresh /\ UNCHANGED lastToken
       ELSE /\ lastToken' = poll.token
            /\ IF visible /\ page \in Polled
               THEN IF page = "events" /\ ~follow
                    THEN missed' = TRUE /\ UNCHANGED <<request, shown>>
                    ELSE Refresh
               ELSE NoRefresh
    /\ UNCHANGED <<database, controls, closed, update, inputs>>

-----------------------------------------------------------------------------
(* Changes the user asks for.                                              *)

\* acknowledge_incident and resolve_incident_id, of an open incident.
ChangeIncident ==
    /\ Click
    /\ update = "none"      \* bound: one change at a time
    /\ incident.status = "open"
    /\ Changed
    /\ incident' \in {[incident EXCEPT !.acked = ~@],
                       [incident EXCEPT !.status = "resolved", !.acked = FALSE]}
    /\ update' = "changed"
    /\ UNCHANGED <<evidence, latest, pruned, controls, closed, content, polling>>

\* clear_retained_data
ClearHistory ==
    /\ Click
    /\ update = "none"
    /\ Changed
    /\ evidence' = 0 /\ latest' = 0 /\ incident' = Gone /\ pruned' = 0
    /\ update' = "cleared"
    /\ UNCHANGED <<controls, closed, content, polling>>

\* _incident_state_ready refreshes the incidents, _history_cleared the page
\* that is shown.
UpdateReady ==
    /\ update # "none"
    /\ update' = "none"
    /\ IF /\ ~closed
          /\ \/ update = "changed" /\ page = "issues"
             \/ update = "cleared" /\ visible
       THEN Refresh ELSE NoRefresh
    /\ UNCHANGED <<database, controls, closed, polling, inputs>>

\* _close: what has not begun is cancelled, and no timer fires again.
Close ==
    /\ ~closed
    /\ closed' = TRUE
    /\ UNCHANGED <<database, controls, content, polling, update, inputs>>

-----------------------------------------------------------------------------

Next ==
    \/ Evidence \/ ConditionClears \/ Prune \/ Promote
    \/ Navigate \/ SetFilter \/ SwitchFollow \/ Tick
    \/ \E k \in {"newest", "older"} : Query(k) \/ Ready(k)
    \/ Poll \/ PollQuery \/ PollReady
    \/ ChangeIncident \/ ClearHistory \/ UpdateReady
    \/ Close

Spec == Init /\ [][Next]_vars

\* Threads of the pool run their queries, GTK its timers and idle callbacks.  A
\* query may outlast the ten seconds between two ticks, but not every one does.
FairSpec ==
    /\ Spec
    /\ \A k \in {"newest", "older"} : WF_vars(Query(k)) /\ SF_vars(Ready(k))
    /\ WF_vars(Tick)
    /\ WF_vars(Poll) /\ WF_vars(PollQuery) /\ WF_vars(PollReady)
    /\ WF_vars(UpdateReady)

-----------------------------------------------------------------------------
(* Properties.                                                             *)

\* While a page answers to the same filter it never goes back to an earlier
\* state of the database, however late the answers of earlier queries arrive.
NeverOlder ==
    [][shown # None /\ shown' # None /\ shown'.filter = shown.filter =>
         shown'.version >= shown.version]_shown

\* With no request under way and none failed, a page shows what its controls
\* ask for, not the answer for a filter the user has left.
ShownAsAsked ==
    shown # None /\ ~closed /\ ~missed /\ request.newest = None => shown.filter = filter

\* The page shows the incident as it is.  Only the issues page tells for certain
\* whether it is acknowledged: the token comes back when that is undone.
SameIncident(shownIncident) ==
    \/ shownIncident = incident
    \/ page # "issues" /\ [shownIncident EXCEPT !.acked = incident.acked] = incident

\* What the page shows agrees with the database.  A polled page need not know
\* what a promotion has changed, nor that a pruning later than its answer has
\* deleted the incident or the newest rows.
Agrees ==
    IF page \in Ticking
    THEN shown.version = version
    ELSE LET stale == shown.version < pruned
         IN  /\ \/ shown.view.evidence = evidence
                \/ stale /\ evidence < shown.view.evidence
             /\ \/ SameIncident(shown.view.incident)
                \/ stale /\ incident = Gone

\* A page that stays visible comes to show the database's newest evidence and
\* the incident's state, once they no longer change, unless its newest query
\* failed or the feed was told not to follow.
Settles ==
    <>[](\/ closed \/ ~visible \/ missed
         \/ page \in Blanking
         \/ shown # None /\ shown.filter = filter /\ Agrees)
=============================================================================
