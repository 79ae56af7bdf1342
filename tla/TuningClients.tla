--------------------------- MODULE TuningClients ---------------------------
(***************************************************************************)
(* The two clients of the tuning helper: the Safe tuning page of the       *)
(* window (app/pc_diagnostics.py), which reads the helper's state, applies *)
(* and restores, and the collector (app/pcdiag_collector.py), which        *)
(* restores by itself after sustained critical temperatures.               *)
(*                                                                         *)
(* Both send a request over a socket and give up after 30 seconds, while   *)
(* the helper may wait for its lock or still be writing.  Of the helper    *)
(* only its promise is kept (TuningHelper has the rest): an apply leaves a *)
(* baseline or the settings as they were, a restore gives the baseline up. *)
(***************************************************************************)
EXTENDS Naturals

CONSTANTS
    Actions,   \* the page's applies and restores that can be under way at once
    Refresh,   \* the page's read of the helper's state
    Rollback   \* the collector's automatic restore

ASSUME ClientAssumption ==
    /\ Refresh # Rollback
    /\ Refresh \notin Actions /\ Rollback \notin Actions

OfWindow == Actions \cup {Refresh}
Callers  == OfWindow \cup {Rollback}

VARIABLES
    tuned,    \* a baseline is saved: temporary tuning is in effect
    heat,     \* of a sensor
    call,     \* each caller's request: where it is, and its answer
    overdue,  \* operations the helper still has to perform for nobody
    running,  \* the collector runs
    count,    \* its threshold_counts of the sensor
    open,     \* there is a window
    page,     \* what the window knows and which buttons are sensitive
    inflight, \* tuning_refresh_inflight
    dialog,   \* the confirmation that is shown
    behind    \* history: why the page may be wrong (see PageCurrent)

helper    == <<tuned, call, overdue>>
collector == <<running, count>>
window    == <<open, page, inflight, dialog>>
vars      == <<helper, heat, collector, window, behind>>

Ops   == {"state", "apply", "restore"}
Calls == [step : {"idle", "sent", "answered"}, op : Ops,
          ok : BOOLEAN, told : BOOLEAN]
Pages == [usable : BOOLEAN,    \* the CPU or GPU controls are sensitive
          active : BOOLEAN,    \* collector_active
          baseline : BOOLEAN,  \* baseline_active of tuning_state
          apply : BOOLEAN, restore : BOOLEAN]  \* the buttons

Idle     == [step |-> "idle", op |-> "state", ok |-> FALSE, told |-> FALSE]
Sent(op) == [Idle EXCEPT !.step = "sent", !.op = op]
NewPage  == [usable |-> FALSE, active |-> FALSE,
             baseline |-> FALSE, apply |-> FALSE, restore |-> FALSE]

TypeOK ==
    /\ tuned \in BOOLEAN
    /\ heat \in {"cool", "warm", "critical"}
    /\ call \in [Callers -> Calls]
    /\ overdue \subseteq {"apply", "restore"}
    /\ running \in BOOLEAN /\ count \in 0..2
    /\ open \in BOOLEAN /\ page \in Pages /\ inflight \in BOOLEAN
    /\ page.apply => page.usable /\ page.active
    /\ page.restore => page.baseline
    /\ inflight <=> call[Refresh] # Idle
    /\ ~open => page = NewPage /\ \A c \in OfWindow : call[c] = Idle
    /\ dialog \in {"none", "apply", "restore"}
    /\ behind \in BOOLEAN

Init ==
    /\ tuned \in BOOLEAN
    /\ heat = "cool"
    /\ call = [c \in Callers |-> Idle]
    /\ overdue = {}
    /\ running = FALSE /\ count = 0
    /\ open = FALSE /\ page = NewPage /\ inflight = FALSE /\ dialog = "none"
    /\ behind = TRUE

-----------------------------------------------------------------------------
(* The helper and the socket.                                              *)

\* How an operation can end: whether it answers ok, whether a baseline is
\* saved then, and what it tells of it (a restore: whether there was one).
\* An apply that fails puts back what it saved itself, if it can.
Ends(op) ==
    CASE op = "state" ->
            [ok : BOOLEAN, after : {tuned}, told : {tuned}]
      [] op = "apply" ->
            {[ok |-> TRUE, after |-> TRUE, told |-> TRUE]}
                \cup [ok : {FALSE}, after : {tuned, TRUE}, told : {FALSE}]
      [] op = "restore" ->
            {[ok |-> TRUE, after |-> FALSE, told |-> tuned]}
                \cup [ok : {FALSE}, after : {tuned}, told : {FALSE}]

\* What the caller goes on with: how an action or an automatic restore ended is
\* only shown and logged.
Answer(c, ok, told) ==
    call' = [call EXCEPT ![c] = [step |-> "answered", op |-> "state",
                                 ok |-> c = Refresh /\ ok,
                                 told |-> c = Refresh /\ ok /\ told]]

Serve(c) ==
    /\ call[c].step = "sent"
    /\ \E end \in Ends(call[c].op) :
          /\ tuned' = end.after
          /\ Answer(c, end.ok, end.told)
          /\ behind' = (behind \/ (c = Rollback /\ tuned' # tuned))
    /\ UNCHANGED <<overdue, heat, collector, window>>

\* _socket_request fails or times out; the operation may yet be performed.
GiveUp(c) ==
    /\ call[c].step = "sent"
    /\ Answer(c, FALSE, FALSE)
    /\ overdue' = overdue \cup ({call[c].op} \ {"state"})
    /\ UNCHANGED <<tuned, heat, collector, window, behind>>

ServeOverdue ==
    /\ \E op \in overdue : \E end \in Ends(op) :
          /\ tuned' = end.after
          /\ overdue' = overdue \ {op}
          /\ behind' = (behind \/ tuned' # tuned)
    /\ UNCHANGED <<call, heat, collector, window>>

-----------------------------------------------------------------------------
(* The collector.                                                          *)

\* The machine gets hotter or cools down.
Weather ==
    /\ heat' \in {"cool", "warm", "critical"}
    /\ UNCHANGED <<helper, collector, window, behind>>

\* Faulty variant: the count is reset when the warning turns critical.
CountedApart ==
    IF heat = "warm" THEN IF count = 2 THEN 2 ELSE count + 1 ELSE 0

\* _count_threshold of the sensor.
Counted ==
    IF heat # "cool" THEN IF count = 2 THEN 2 ELSE count + 1 ELSE 0

\* _metric_anomalies: the second sample in a row at or above the warning
\* temperature that is critical restores the baseline; the sampling waits for
\* the answer.
Sample ==
    /\ running
    /\ call[Rollback].step = "idle"
    /\ count' = Counted
    /\ call' = IF count' = 2 /\ heat = "critical"
               THEN [call EXCEPT ![Rollback] = Sent("restore")] ELSE call
    /\ UNCHANGED <<tuned, overdue, heat, running, window, behind>>

\* _restore_tuning_for_safety goes on; the next sample asks again.
RolledBack ==
    /\ running
    /\ call[Rollback].step = "answered"
    /\ call' = [call EXCEPT ![Rollback] = Idle]
    /\ UNCHANGED <<tuned, overdue, heat, collector, window, behind>>

\* The collector ends, by a signal, a crash or a database error, and comes back.
CollectorEnds ==
    /\ running
    /\ running' = FALSE /\ count' = 0
    /\ call' = [call EXCEPT ![Rollback] = Idle]
    /\ overdue' = overdue \cup (IF call[Rollback].step = "sent" THEN {"restore"} ELSE {})
    /\ UNCHANGED <<tuned, heat, window, behind>>

CollectorStarts ==
    /\ ~running
    /\ running' = TRUE
    /\ UNCHANGED <<helper, heat, count, window, behind>>

-----------------------------------------------------------------------------
(* The window.                                                             *)

\* _refresh_tuning, skipped while a read of the state is under way; freed is
\* the rest of the calls.
RefreshTuning(freed) ==
    IF inflight
    THEN /\ call' = freed /\ behind' = TRUE
         /\ UNCHANGED inflight
    ELSE /\ call' = [freed EXCEPT ![Refresh] = Sent("state")]
         /\ inflight' = TRUE /\ behind' = FALSE

\* The page is shown, or its refresh button pressed.
Visit ==
    /\ open
    /\ RefreshTuning(call)
    /\ UNCHANGED <<tuned, overdue, heat, collector, open, page, dialog>>

\* _set_tuning_controls_sensitive
Sensitive(p, usable) ==
    [p EXCEPT !.usable = usable, !.apply = usable /\ p.active, !.restore = p.baseline]

\* What the page has learnt from the answer of a refresh.
Heard == [page EXCEPT !.baseline = call[Refresh].told]

\* Faulty variant: an error leaves tuning_refresh_inflight set.
StateReadyIfOk ==
    /\ open
    /\ call[Refresh].step = "answered"
    /\ inflight' = ~call[Refresh].ok
    /\ \E usable \in {FALSE, call[Refresh].ok} : page' = Sensitive(Heard, usable)
    /\ call' = [call EXCEPT ![Refresh] = Idle]
    /\ behind' = (behind \/ ~call[Refresh].ok)
    /\ UNCHANGED <<tuned, overdue, heat, collector, open, dialog>>

\* _tuning_state_ready
StateReady ==
    /\ open
    /\ call[Refresh].step = "answered"
    /\ inflight' = FALSE
    /\ \E usable \in {FALSE, call[Refresh].ok} : page' = Sensitive(Heard, usable)
    /\ call' = [call EXCEPT ![Refresh] = Idle]
    /\ behind' = (behind \/ ~call[Refresh].ok)
    /\ UNCHANGED <<tuned, overdue, heat, collector, open, dialog>>

\* Faulty variant: the button is made sensitive for an active collector alone.
StatusReadyAlone ==
    /\ open
    /\ \E active \in BOOLEAN :
          page' = [page EXCEPT !.active = active, !.apply = active]
    /\ UNCHANGED <<helper, heat, collector, open, inflight, dialog, behind>>

\* _status_ready: the answer may be out of date, and it makes the button
\* sensitive although an action is under way.
StatusReady ==
    /\ open
    /\ \E active \in BOOLEAN :
          page' = [page EXCEPT !.active = active, !.apply = active /\ page.usable]
    /\ UNCHANGED <<helper, heat, collector, open, inflight, dialog, behind>>

ConfirmApply ==
    /\ open /\ dialog = "none"
    /\ page.apply /\ page.active /\ page.usable
    /\ dialog' = "apply"
    /\ UNCHANGED <<helper, heat, collector, open, page, inflight, behind>>

ConfirmRestore ==
    /\ open /\ dialog = "none"
    /\ page.restore /\ page.baseline
    /\ dialog' = "restore"
    /\ UNCHANGED <<helper, heat, collector, open, page, inflight, behind>>

\* The answer to the confirmation; the page has lived on meanwhile.
Decide ==
    /\ dialog # "none"
    /\ dialog' = "none"
    /\ \/ \E a \in Actions :
             /\ call[a].step = "idle"
             /\ call' = [call EXCEPT ![a] = Sent(dialog)]
             /\ page' = [page EXCEPT !.apply = FALSE, !.restore = FALSE]
       \/ UNCHANGED <<call, page>>
    /\ UNCHANGED <<tuned, overdue, heat, collector, open, inflight, behind>>

\* Faulty variant: the page is not refreshed after an action.
ActionReadyOnly(a) ==
    /\ open
    /\ call[a].step = "answered"
    /\ call' = [call EXCEPT ![a] = Idle]
    /\ UNCHANGED <<tuned, overdue, heat, collector, window, behind>>

\* _tuning_action_ready.  (What it logs and says is left out.)
ActionReady(a) ==
    /\ open
    /\ call[a].step = "answered"
    /\ RefreshTuning([call EXCEPT ![a] = Idle])
    /\ UNCHANGED <<tuned, overdue, heat, collector, open, page, dialog>>

\* Requests that were not begun are cancelled; nobody hears the answers of the
\* others.
Close ==
    /\ open
    /\ open' = FALSE /\ page' = NewPage /\ inflight' = FALSE /\ dialog' = "none"
    /\ call' = [c \in Callers |-> IF c \in OfWindow THEN Idle ELSE call[c]]
    /\ LET begun == {call[a].op : a \in {b \in Actions : call[b].step = "sent"}}
       IN  \E kept \in SUBSET begun : overdue' = overdue \cup kept
    /\ behind' = TRUE
    /\ UNCHANGED <<tuned, heat, collector>>

Open ==
    /\ ~open
    /\ open' = TRUE
    /\ UNCHANGED <<helper, heat, collector, page, inflight, dialog, behind>>

-----------------------------------------------------------------------------

Next ==
    \/ \E c \in Callers : Serve(c) \/ GiveUp(c)
    \/ ServeOverdue
    \/ Weather
    \/ Sample \/ RolledBack \/ CollectorEnds \/ CollectorStarts
    \/ Visit \/ StateReady \/ StatusReady
    \/ ConfirmApply \/ ConfirmRestore \/ Decide
    \/ \E a \in Actions : ActionReady(a)
    \/ Close \/ Open

Spec == Init /\ [][Next]_vars

Restored == Serve(Rollback) /\ ~tuned'

\* The collector samples every ten seconds, every request is answered or times
\* out, GTK runs its callbacks, and the helper is not broken for good: of the
\* automatic restores it is asked for again and again, some succeed.
FairSpec ==
    /\ Spec
    /\ WF_vars(Sample) /\ WF_vars(RolledBack) /\ WF_vars(StateReady)
    /\ \A c \in Callers : WF_vars(Serve(c) \/ GiveUp(c))
    /\ SF_vars(Restored)

-----------------------------------------------------------------------------
(* Properties.                                                             *)

\* While a sensor stays critical and the collector runs, tuning does not stay
\* in effect, however many restores fail or time out and whatever the user
\* applies: "a sustained critical temperature signal restores that baseline
\* automatically" (app/README.md).
HotIsRestored == <>[](running /\ heat = "critical") => []<>~tuned

\* A read of the helper's state does not stay in flight: its flag, which keeps
\* every later refresh from starting, is cleared by an error as well.
RefreshEnds == inflight ~> ~inflight

\* Once nothing the page asked for is under way, it shows whether tuning is in
\* effect and offers to restore exactly then, unless somebody else has changed
\* that since, or a refresh was skipped because one was in flight.
PageCurrent ==
    open /\ ~behind
    /\ (\A c \in OfWindow : call[c] = Idle) =>
        page.baseline = tuned /\ page.restore = page.baseline
=============================================================================
