------------------------ MODULE TuningClientsProofs ------------------------
(***************************************************************************)
(* Type correctness of TuningClients, and that the Safe tuning page shows  *)
(* what is in effect, for any number of actions under way at once.         *)
(***************************************************************************)
EXTENDS TuningClients, TLAPS

\* One of the page's applies and restores is under way.
Acting == \E a \in Actions : call[a] # Idle

\* A page that is not behind waits for an action, after which it is refreshed,
\* or for the answer of a refresh, or has been told what is in effect.
PageFollows ==
    open /\ ~behind =>
        \/ Acting
        \/ call[Refresh].step = "sent"
        \/ call[Refresh].step = "answered" /\ (call[Refresh].ok => call[Refresh].told = tuned)
        \/ call[Refresh] = Idle /\ page.baseline = tuned /\ page.restore = page.baseline

\* What a refresh asks for.
RefreshAsks == call[Refresh].step = "sent" => call[Refresh].op = "state"

\* What the page's actions ask for.
ActionsAct ==
    \A a \in Actions : call[a].step = "sent" => call[a].op \in {"apply", "restore"}

\* Without a window nothing is confirmed, and a new window's page is behind.
ClosedBehind == ~open => behind /\ dialog = "none"

\* The inductive invariant behind PageCurrent.
IInv == TypeOK /\ RefreshAsks /\ ActionsAct /\ ClosedBehind /\ PageFollows

-----------------------------------------------------------------------------
(* Facts about calls and answers.                                          *)

\* The callers are the page's actions, its refresh and the collector's restore,
\* and these differ.
LEMMA CallerFacts ==
    /\ Refresh # Rollback /\ Refresh \notin Actions /\ Rollback \notin Actions
    /\ Callers = OfWindow \cup {Rollback} /\ OfWindow = Actions \cup {Refresh}
    /\ Refresh \in Callers /\ Rollback \in Callers /\ Actions \subseteq Callers
  BY ClientAssumption DEF Callers, OfWindow

\* An idle call is one, and a call that is sent is one that is not idle.
LEMMA CallFacts ==
    /\ Idle \in Calls /\ Idle.step = "idle"
    /\ \A op \in Ops : /\ Sent(op) \in Calls /\ Sent(op).step = "sent" /\ Sent(op).op = op
                       /\ Sent(op) # Idle
  BY DEF Idle, Calls, Ops, Sent

\* An operation leaves a baseline or none, and a read of the state leaves
\* what there is and tells it.
LEMMA EndFacts ==
    ASSUME NEW op \in Ops, tuned \in BOOLEAN, NEW end \in Ends(op)
    PROVE  /\ end.ok \in BOOLEAN /\ end.after \in BOOLEAN /\ end.told \in BOOLEAN
           /\ op = "state" => end.after = tuned /\ end.told = tuned
<1>1. CASE op = "state"
  <2>1. end \in [ok : BOOLEAN, after : {tuned}, told : {tuned}]
    BY <1>1 DEF Ends
  <2> QED BY <2>1
<1>2. CASE op = "apply"
  <2>1. \/ end = [ok |-> TRUE, after |-> TRUE, told |-> TRUE]
        \/ end \in [ok : {FALSE}, after : {tuned, TRUE}, told : {FALSE}]
    BY <1>2 DEF Ends
  <2>2. CASE end = [ok |-> TRUE, after |-> TRUE, told |-> TRUE]
    BY <1>2, <2>2
  <2>3. CASE end \in [ok : {FALSE}, after : {tuned, TRUE}, told : {FALSE}]
    BY <1>2, <2>3
  <2> QED BY <2>1, <2>2, <2>3
<1>3. CASE op = "restore"
  <2>1. \/ end = [ok |-> TRUE, after |-> FALSE, told |-> tuned]
        \/ end \in [ok : {FALSE}, after : {tuned}, told : {FALSE}]
    BY <1>3 DEF Ends
  <2>2. CASE end = [ok |-> TRUE, after |-> FALSE, told |-> tuned]
    BY <1>3, <2>2
  <2>3. CASE end \in [ok : {FALSE}, after : {tuned}, told : {FALSE}]
    BY <1>3, <2>3
  <2> QED BY <2>1, <2>2, <2>3
<1> QED BY <1>1, <1>2, <1>3 DEF Ops

\* An answer is a call, of which only a refresh keeps what it was told.
LEMMA AnswerFacts ==
    ASSUME TypeOK, NEW c \in Callers, NEW ok \in BOOLEAN, NEW told \in BOOLEAN,
           Answer(c, ok, told)
    PROVE  /\ call' \in [Callers -> Calls]
           /\ \A d \in Callers : d # c => call'[d] = call[d]
           /\ call'[c].step = "answered" /\ call'[c] # Idle
           /\ c = Refresh => /\ call'[c].ok = ok
                             /\ ok => call'[c].told = told
<1>1. call' = [call EXCEPT ![c] = [step |-> "answered", op |-> "state",
                                   ok |-> c = Refresh /\ ok,
                                   told |-> c = Refresh /\ ok /\ told]]
  BY DEF Answer
<1>2. (c = Refresh /\ ok) \in BOOLEAN /\ (c = Refresh /\ ok /\ told) \in BOOLEAN
  OBVIOUS
<1> DEFINE answer == [step |-> "answered", op |-> "state",
                      ok |-> c = Refresh /\ ok, told |-> c = Refresh /\ ok /\ told]
<1>3. answer \in Calls /\ answer.step = "answered" /\ answer # Idle
  BY <1>2 DEF Calls, Ops, Idle
<1>4. call' \in [Callers -> Calls] /\ call'[c] = answer
      /\ \A d \in Callers : d # c => call'[d] = call[d]
  BY <1>1, <1>3 DEF TypeOK
<1>5. c = Refresh => answer.ok = ok /\ (ok => answer.told = told)
  OBVIOUS
<1> QED BY <1>3, <1>4, <1>5

\* A refresh is sent unless one is in flight, and then the page is behind.
LEMMA RefreshFacts ==
    ASSUME TypeOK, NEW freed \in [Callers -> Calls], freed[Refresh] = call[Refresh],
           RefreshTuning(freed)
    PROVE  /\ call' \in [Callers -> Calls]
           /\ \A c \in Callers : c # Refresh => call'[c] = freed[c]
           /\ inflight' \in BOOLEAN /\ behind' \in BOOLEAN
           /\ inflight' <=> call'[Refresh] # Idle
           /\ ~behind' => call'[Refresh].step = "sent"
           /\ call'[Refresh] = call[Refresh] \/ call'[Refresh].op = "state"
<1>1. CASE inflight
  BY <1>1, CallerFacts DEF RefreshTuning, TypeOK
<1>2. CASE ~inflight
  <2>1. call' = [freed EXCEPT ![Refresh] = Sent("state")] /\ inflight' = TRUE /\ behind' = FALSE
    BY <1>2 DEF RefreshTuning
  <2>2. /\ Sent("state") \in Calls /\ Sent("state").step = "sent" /\ Sent("state") # Idle
        /\ Sent("state").op = "state"
    BY CallFacts DEF Ops
  <2> QED BY <2>1, <2>2, CallerFacts
<1> QED BY <1>1, <1>2

-----------------------------------------------------------------------------
(* Every step preserves IInv.                                              *)

\* The parts of TypeOK that the steps treat apart.
HelperTypes == tuned \in BOOLEAN /\ overdue \subseteq {"apply", "restore"}
CollectorTypes == /\ heat \in {"cool", "warm", "critical"}
                  /\ running \in BOOLEAN /\ count \in 0..2
CallTypes ==
    /\ call \in [Callers -> Calls]
    /\ inflight \in BOOLEAN
    /\ inflight <=> call[Refresh] # Idle
PageTypes ==
    /\ page \in Pages
    /\ page.apply => page.usable /\ page.active
    /\ page.restore => page.baseline
    /\ dialog \in {"none", "apply", "restore"}
WindowTypes ==
    /\ open \in BOOLEAN /\ behind \in BOOLEAN
    /\ ~open => page = NewPage /\ \A c \in OfWindow : call[c] = Idle

\* TypeOK is made of these parts, now and after a step.
LEMMA Parts ==
    /\ TypeOK => HelperTypes /\ CollectorTypes /\ CallTypes /\ PageTypes /\ WindowTypes
    /\ HelperTypes' /\ CollectorTypes' /\ CallTypes' /\ PageTypes' /\ WindowTypes' => TypeOK'
  BY DEF TypeOK, HelperTypes, CollectorTypes, CallTypes, PageTypes, WindowTypes

\* The initial states satisfy IInv.
LEMMA InitIInv == Init => IInv
<1> SUFFICES ASSUME Init PROVE IInv
  OBVIOUS
<1>1. HelperTypes /\ CollectorTypes
  <2>1. HelperTypes
    <3>1. tuned \in BOOLEAN
      BY Zenon DEF Init
    <3>2. overdue = {}
      BY Zenon DEF Init
    <3> QED BY <3>1, <3>2 DEF HelperTypes
  <2>2. CollectorTypes
    <3>1. heat = "cool" /\ count = 0
      BY Zenon DEF Init
    <3>2. running \in BOOLEAN
      BY Zenon DEF Init
    <3>3. heat \in {"cool", "warm", "critical"} /\ count \in 0..2
      BY <3>1
    <3> QED BY <3>2, <3>3, Zenon DEF CollectorTypes
  <2> QED BY <2>1, <2>2
<1>2. call = [c \in Callers |-> Idle] /\ Idle \in Calls
  BY CallFacts DEF Init
<1>3. CallTypes
  BY <1>2, CallerFacts DEF Init, CallTypes
<1>4. PageTypes
  BY DEF Init, PageTypes, Pages, NewPage
<1>5. WindowTypes
  BY <1>2, CallerFacts DEF Init, WindowTypes
<1>6. RefreshAsks /\ ActionsAct
  BY <1>2, CallFacts, CallerFacts DEF RefreshAsks, ActionsAct
<1>7. ClosedBehind /\ PageFollows
  BY Zenon DEF Init, ClosedBehind, PageFollows
<1> QED
  BY <1>1, <1>3, <1>4, <1>5, <1>6, <1>7
     DEF IInv, TypeOK, HelperTypes, CollectorTypes, CallTypes, PageTypes, WindowTypes

\* The helper's answer, or its absence, keeps the invariant: what an action
\* changes before it is answered the refresh after it will tell.
LEMMA AnswerStep ==
    ASSUME IInv, NEW c \in Callers, Serve(c) \/ GiveUp(c)
    PROVE  IInv'
<1>1. TypeOK /\ HelperTypes /\ CollectorTypes /\ CallTypes /\ PageTypes /\ WindowTypes
  BY Parts DEF IInv
<1>2. /\ call[c].step = "sent" /\ call[c] \in Calls /\ call[c].op \in Ops /\ call[c] # Idle
      /\ UNCHANGED <<heat, running, count, open, page, inflight, dialog>>
  BY <1>1, CallFacts DEF Serve, GiveUp, CallTypes, Calls, collector, window
<1>3. CollectorTypes' /\ PageTypes'
  BY <1>1, <1>2 DEF CollectorTypes, PageTypes
<1>4. PICK ok \in BOOLEAN, told \in BOOLEAN :
        /\ Answer(c, ok, told)
        /\ HelperTypes' /\ behind' \in BOOLEAN /\ (behind => behind')
        /\ c = Rollback /\ tuned' # tuned => behind'
        /\ c = Refresh /\ call[c].op = "state" => tuned' = tuned /\ (ok => told = tuned)
  <2>1. CASE Serve(c)
    <3>1. PICK end \in Ends(call[c].op) :
            /\ tuned' = end.after
            /\ Answer(c, end.ok, end.told)
            /\ behind' = (behind \/ (c = Rollback /\ tuned' # tuned))
      BY <2>1 DEF Serve
    <3>2. /\ end.ok \in BOOLEAN /\ end.after \in BOOLEAN /\ end.told \in BOOLEAN
          /\ call[c].op = "state" => end.after = tuned /\ end.told = tuned
      BY <1>1, <1>2, EndFacts DEF HelperTypes
    <3>3. overdue' = overdue
      BY <2>1 DEF Serve
    <3>4. HelperTypes'
      BY <1>1, <3>1, <3>2, <3>3 DEF HelperTypes
    <3>5. behind' \in BOOLEAN /\ (behind => behind') /\ (c = Rollback /\ tuned' # tuned => behind')
      BY <3>1, Zenon
    <3> QED BY <3>1, <3>2, <3>4, <3>5
  <2>2. CASE GiveUp(c)
    <3>1. /\ Answer(c, FALSE, FALSE) /\ UNCHANGED <<tuned, behind>>
          /\ overdue' = overdue \cup ({call[c].op} \ {"state"})
      BY <2>2 DEF GiveUp
    <3>2. HelperTypes' /\ behind' \in BOOLEAN
      BY <1>1, <1>2, <3>1 DEF HelperTypes, WindowTypes, Ops
    <3> QED BY <3>1, <3>2
  <2> QED BY <2>1, <2>2
<1>5. /\ call' \in [Callers -> Calls]
      /\ \A d \in Callers : d # c => call'[d] = call[d]
      /\ call'[c].step = "answered" /\ call'[c] # Idle
      /\ c = Refresh => call'[c].ok = ok /\ (ok => call'[c].told = told)
  BY <1>1, <1>4, AnswerFacts
<1>6. CallTypes'
  <2>1. CASE c = Refresh
    BY <1>1, <1>2, <1>5, <2>1 DEF CallTypes
  <2>2. CASE c # Refresh
    BY <1>1, <1>2, <1>5, <2>2, CallerFacts DEF CallTypes
  <2> QED BY <2>1, <2>2
<1>7. WindowTypes'
  <2>1. \A d \in OfWindow : d \in Callers
    BY CallerFacts
  <2>2. c \in OfWindow => open
    BY <1>1, <1>2 DEF WindowTypes
  <2> QED BY <1>1, <1>2, <1>4, <1>5, <2>1, <2>2 DEF WindowTypes
<1>8. TypeOK'
  BY <1>3, <1>4, <1>6, <1>7, Parts
<1>9. RefreshAsks' /\ ActionsAct'
  BY <1>5, CallerFacts DEF RefreshAsks, ActionsAct, IInv
<1>11. ClosedBehind'
  BY <1>2, <1>4 DEF ClosedBehind, IInv
<1>10. PageFollows'
  <2> SUFFICES ASSUME open', ~behind'
               PROVE  \/ Acting'
                      \/ call'[Refresh].step = "sent"
                      \/ /\ call'[Refresh].step = "answered"
                         /\ call'[Refresh].ok => call'[Refresh].told = tuned'
                      \/ /\ call'[Refresh] = Idle /\ page'.baseline = tuned'
                         /\ page'.restore = page'.baseline
    BY DEF PageFollows
  <2>1. CASE c \in Actions
    BY <1>5, <2>1 DEF Acting
  <2>2. CASE c = Refresh
    <3>1. tuned' = tuned /\ (ok => told = tuned)
      BY <1>2, <1>4, <2>2 DEF IInv, RefreshAsks
    <3> QED BY <1>5, <2>2, <3>1
  <2>3. CASE c = Rollback
    <3>1. tuned' = tuned /\ open /\ ~behind /\ page' = page
      BY <1>2, <1>4, <2>3
    <3>2. call'[Refresh] = call[Refresh] /\ \A a \in Actions : call'[a] = call[a]
      BY <1>5, <2>3, CallerFacts
    <3> QED BY <3>1, <3>2 DEF IInv, PageFollows, Acting
  <2> QED BY <2>1, <2>2, <2>3, CallerFacts
<1> QED BY <1>8, <1>9, <1>10, <1>11 DEF IInv

\* Operations performed for nobody put the page behind if they change anything.
LEMMA OverdueStep ==
    ASSUME IInv, ServeOverdue
    PROVE  IInv'
<1>1. TypeOK /\ HelperTypes /\ CollectorTypes /\ CallTypes /\ PageTypes /\ WindowTypes
  BY Parts DEF IInv
<1>2. UNCHANGED <<call, heat, running, count, open, page, inflight, dialog>>
  BY DEF ServeOverdue, collector, window
<1>3. PICK op \in overdue : \E end \in Ends(op) :
        /\ tuned' = end.after
        /\ overdue' = overdue \ {op}
        /\ behind' = (behind \/ tuned' # tuned)
  BY DEF ServeOverdue
<1>4. PICK end \in Ends(op) :
        /\ tuned' = end.after
        /\ overdue' = overdue \ {op}
        /\ behind' = (behind \/ tuned' # tuned)
  BY <1>3
<1>5. HelperTypes'
  <2>1. op \in Ops /\ end.after \in BOOLEAN
    BY <1>1, EndFacts DEF HelperTypes, Ops
  <2> QED BY <1>1, <1>4, <2>1 DEF HelperTypes
<1>6. behind' \in BOOLEAN /\ (behind => behind') /\ (tuned' # tuned => behind')
  BY <1>4, Zenon
<1>7. CollectorTypes' /\ CallTypes' /\ PageTypes' /\ WindowTypes'
  BY <1>1, <1>2, <1>6 DEF CollectorTypes, CallTypes, PageTypes, WindowTypes
<1>8. RefreshAsks' /\ ActionsAct' /\ ClosedBehind' /\ PageFollows'
  BY <1>2, <1>6 DEF IInv, RefreshAsks, ActionsAct, ClosedBehind, PageFollows, Acting
<1> QED BY <1>5, <1>7, <1>8, Parts DEF IInv

\* The collector's own steps leave the page's calls and the tuning alone.
LEMMA CollectorStep ==
    ASSUME IInv, Weather \/ Sample \/ RolledBack \/ CollectorEnds \/ CollectorStarts
    PROVE  IInv'
<1>1. TypeOK /\ HelperTypes /\ CollectorTypes /\ CallTypes /\ PageTypes /\ WindowTypes
  BY Parts DEF IInv
<1>2. /\ UNCHANGED <<tuned, open, page, inflight, dialog, behind>>
      /\ CollectorTypes'
  <2>1. CASE Weather
    BY <1>1, <2>1 DEF Weather, CollectorTypes, helper, collector, window
  <2>2. CASE Sample
    BY <1>1, <2>2 DEF Sample, Counted, CollectorTypes, window
  <2>3. CASE RolledBack
    BY <1>1, <2>3 DEF RolledBack, CollectorTypes, collector, window
  <2>4. CASE CollectorEnds
    <3>1. /\ running' = FALSE /\ count' = 0
          /\ UNCHANGED <<tuned, heat, open, page, inflight, dialog, behind>>
      BY <2>4, Zenon DEF CollectorEnds, window
    <3>2. running' \in BOOLEAN
      BY <3>1, Zenon
    <3>3. heat' \in {"cool", "warm", "critical"} /\ count' \in 0..2
      BY <1>1, <3>1 DEF CollectorTypes
    <3>4. CollectorTypes'
      BY <3>2, <3>3, Zenon DEF CollectorTypes
    <3> QED BY <3>1, <3>4
  <2>5. CASE CollectorStarts
    BY <1>1, <2>5 DEF CollectorStarts, CollectorTypes, helper, window
  <2> QED BY <2>1, <2>2, <2>3, <2>4, <2>5
<1>3. \/ call' = call
      \/ call' = [call EXCEPT ![Rollback] = Idle]
      \/ call' = [call EXCEPT ![Rollback] = Sent("restore")]
  BY DEF Weather, Sample, RolledBack, CollectorEnds, CollectorStarts, helper
<1>4. /\ call' \in [Callers -> Calls] /\ call'[Refresh] = call[Refresh]
      /\ \A c \in OfWindow : call'[c] = call[c]
  <2>1. Idle \in Calls /\ Sent("restore") \in Calls
    BY CallFacts DEF Ops
  <2> QED BY <1>1, <1>3, <2>1, CallerFacts DEF CallTypes
<1>5. HelperTypes'
  BY <1>1, <1>2
     DEF HelperTypes, Weather, Sample, RolledBack, CollectorEnds, CollectorStarts, helper
<1>6. CallTypes' /\ PageTypes' /\ WindowTypes'
  BY <1>1, <1>2, <1>4 DEF CallTypes, PageTypes, WindowTypes
<1>7. RefreshAsks' /\ ActionsAct' /\ ClosedBehind' /\ PageFollows'
  BY <1>2, <1>4, CallerFacts
     DEF IInv, RefreshAsks, ActionsAct, ClosedBehind, PageFollows, Acting
<1> QED BY <1>2, <1>5, <1>6, <1>7, Parts DEF IInv

\* The confirmations and the window's opening leave calls and tuning alone.
LEMMA DialogStep ==
    ASSUME IInv, ConfirmApply \/ ConfirmRestore \/ Open
    PROVE  IInv'
<1>1. TypeOK /\ HelperTypes /\ CollectorTypes /\ CallTypes /\ PageTypes /\ WindowTypes
  BY Parts DEF IInv
<1>2. /\ UNCHANGED <<tuned, overdue, call, heat, running, count, page, inflight, behind>>
      /\ open' \in BOOLEAN /\ (open => open') /\ dialog' \in {"none", "apply", "restore"}
      /\ open' # open => behind
  <2>1. CASE ConfirmApply
    BY <1>1, <2>1 DEF ConfirmApply, helper, collector, WindowTypes
  <2>2. CASE ConfirmRestore
    BY <1>1, <2>2 DEF ConfirmRestore, helper, collector, WindowTypes
  <2>3. CASE Open
    BY <1>1, <2>3 DEF Open, helper, collector, PageTypes, IInv, ClosedBehind
  <2> QED BY <2>1, <2>2, <2>3
<1>3. HelperTypes' /\ CollectorTypes' /\ CallTypes' /\ PageTypes' /\ WindowTypes'
  BY <1>1, <1>2 DEF HelperTypes, CollectorTypes, CallTypes, PageTypes, WindowTypes
<1>4. RefreshAsks' /\ ActionsAct'
  BY <1>2 DEF IInv, RefreshAsks, ActionsAct
<1>5. ClosedBehind' /\ PageFollows'
  <2>1. CASE ConfirmApply \/ ConfirmRestore
    BY <1>2, <2>1
       DEF IInv, ClosedBehind, PageFollows, Acting, ConfirmApply, ConfirmRestore
  <2>2. CASE Open
    BY <1>2, <2>2 DEF IInv, ClosedBehind, PageFollows, Open
  <2> QED BY <2>1, <2>2
<1> QED BY <1>2, <1>3, <1>4, <1>5, Parts DEF IInv

\* A visit and the end of an action start a refresh, or leave the page behind.
LEMMA RefreshStep ==
    ASSUME IInv, Visit \/ \E a \in Actions : ActionReady(a)
    PROVE  IInv'
<1>1. TypeOK /\ HelperTypes /\ CollectorTypes /\ CallTypes /\ PageTypes /\ WindowTypes
  BY Parts DEF IInv
<1>2. /\ open /\ UNCHANGED <<tuned, overdue, heat, running, count, open, page, dialog>>
  BY DEF Visit, ActionReady, collector
<1>3. PICK freed \in [Callers -> Calls] :
         /\ RefreshTuning(freed) /\ freed[Refresh] = call[Refresh]
         /\ \A c \in Actions : freed[c] \in {Idle, call[c]}
  <2>1. CASE Visit
    BY <1>1, <2>1 DEF Visit, CallTypes
  <2>2. CASE \E a \in Actions : ActionReady(a)
    <3>1. PICK a \in Actions : ActionReady(a)
      BY <2>2
    <3>2. /\ [call EXCEPT ![a] = Idle] \in [Callers -> Calls]
          /\ [call EXCEPT ![a] = Idle][Refresh] = call[Refresh]
          /\ \A c \in Actions : [call EXCEPT ![a] = Idle][c] \in {Idle, call[c]}
      BY <1>1, CallFacts, CallerFacts DEF CallTypes
    <3> QED BY <3>1, <3>2 DEF ActionReady
  <2> QED BY <2>1, <2>2
<1>4. /\ call' \in [Callers -> Calls]
      /\ inflight' \in BOOLEAN /\ behind' \in BOOLEAN
      /\ inflight' <=> call'[Refresh] # Idle
      /\ ~behind' => call'[Refresh].step = "sent"
      /\ call'[Refresh] = call[Refresh] \/ call'[Refresh].op = "state"
      /\ \A c \in Actions : call'[c] = freed[c]
  BY <1>1, <1>3, RefreshFacts, CallerFacts
<1>5. HelperTypes' /\ CollectorTypes' /\ CallTypes' /\ PageTypes' /\ WindowTypes'
  BY <1>1, <1>2, <1>4 DEF HelperTypes, CollectorTypes, CallTypes, PageTypes, WindowTypes
<1>6. RefreshAsks' /\ ClosedBehind' /\ PageFollows'
  BY <1>2, <1>4 DEF IInv, RefreshAsks, ClosedBehind, PageFollows
<1>7. ActionsAct'
  BY <1>3, <1>4, CallFacts DEF IInv, ActionsAct
<1> QED BY <1>5, <1>6, <1>7, Parts DEF IInv

\* A decision sends an action, for which the page will be refreshed, or nothing.
LEMMA DecideStep ==
    ASSUME IInv, Decide
    PROVE  IInv'
<1>1. TypeOK /\ HelperTypes /\ CollectorTypes /\ CallTypes /\ PageTypes /\ WindowTypes
  BY Parts DEF IInv
<1>2. /\ dialog \in {"apply", "restore"} /\ dialog' = "none"
      /\ UNCHANGED <<tuned, overdue, heat, running, count, open, inflight, behind>>
  BY <1>1 DEF Decide, PageTypes, collector
<1>3. HelperTypes' /\ CollectorTypes'
  BY <1>1, <1>2 DEF HelperTypes, CollectorTypes
<1>4. CASE UNCHANGED <<call, page>>
  <2>1. CallTypes' /\ PageTypes' /\ WindowTypes'
    BY <1>1, <1>2, <1>4 DEF CallTypes, PageTypes, WindowTypes
  <2>2. RefreshAsks' /\ ActionsAct' /\ ClosedBehind' /\ PageFollows'
    BY <1>2, <1>4 DEF IInv, RefreshAsks, ActionsAct, ClosedBehind, PageFollows, Acting
  <2> QED BY <1>3, <2>1, <2>2, Parts DEF IInv
<1>5. CASE \E a \in Actions :
              /\ call' = [call EXCEPT ![a] = Sent(dialog)]
              /\ page' = [page EXCEPT !.apply = FALSE, !.restore = FALSE]
  <2>1. PICK a \in Actions :
              /\ call' = [call EXCEPT ![a] = Sent(dialog)]
              /\ page' = [page EXCEPT !.apply = FALSE, !.restore = FALSE]
    BY <1>5
  <2>2. Sent(dialog) \in Calls /\ Sent(dialog) # Idle
    BY <1>2, CallFacts DEF Ops
  <2>3. /\ call' \in [Callers -> Calls] /\ call'[Refresh] = call[Refresh]
        /\ call'[a] # Idle
    BY <1>1, <2>1, <2>2, CallerFacts DEF CallTypes
  <2>4. page' \in Pages /\ page'.apply = FALSE /\ page'.restore = FALSE
    BY <1>1, <2>1 DEF PageTypes, Pages
  <2>5. open
    BY <1>1, <1>2 DEF IInv, ClosedBehind
  <2>6. CallTypes' /\ PageTypes' /\ WindowTypes'
    BY <1>1, <1>2, <2>3, <2>4, <2>5 DEF CallTypes, PageTypes, WindowTypes
  <2>7. RefreshAsks' /\ ClosedBehind' /\ PageFollows'
    BY <1>2, <2>3, <2>5 DEF IInv, RefreshAsks, ClosedBehind, PageFollows, Acting
  <2>8. ActionsAct'
    <3>1. \A c \in Actions : call'[c] \in {call[c], Sent(dialog)}
      BY <1>1, <2>1, CallerFacts DEF CallTypes
    <3>2. Sent(dialog).op \in {"apply", "restore"}
      BY <1>2, CallFacts DEF Ops
    <3> QED BY <3>1, <3>2 DEF IInv, ActionsAct
  <2> QED BY <1>3, <2>6, <2>7, <2>8, Parts DEF IInv
<1> QED BY <1>4, <1>5 DEF Decide

\* Closing makes the page a new one and its calls idle.
LEMMA CloseStep ==
    ASSUME IInv, Close
    PROVE  IInv'
<1>1. TypeOK /\ HelperTypes /\ CollectorTypes /\ CallTypes /\ PageTypes /\ WindowTypes
  BY Parts DEF IInv
<1>2. /\ open' = FALSE /\ page' = NewPage /\ inflight' = FALSE /\ dialog' = "none"
      /\ call' = [c \in Callers |-> IF c \in OfWindow THEN Idle ELSE call[c]]
      /\ behind' = TRUE /\ UNCHANGED <<tuned, heat, running, count>>
  BY DEF Close, collector
<1>3. /\ call' \in [Callers -> Calls] /\ call'[Refresh] = Idle
      /\ \A c \in OfWindow : call'[c] = Idle
  BY <1>1, <1>2, CallFacts, CallerFacts DEF CallTypes
<1>4. overdue' \subseteq {"apply", "restore"}
  <2> DEFINE begun == {call[a].op : a \in {b \in Actions : call[b].step = "sent"}}
  <2>1. PICK kept \in SUBSET begun : overdue' = overdue \cup kept
    BY DEF Close
  <2>2. \A a \in Actions : call[a].step = "sent" => call[a].op \in {"apply", "restore"}
    BY DEF IInv, ActionsAct
  <2> QED BY <1>1, <2>1, <2>2 DEF HelperTypes
<1>5. HelperTypes' /\ CollectorTypes'
  BY <1>1, <1>2, <1>4 DEF HelperTypes, CollectorTypes
<1>6. CallTypes' /\ WindowTypes'
  BY <1>2, <1>3 DEF CallTypes, WindowTypes
<1>7. PageTypes'
  BY <1>2 DEF PageTypes, Pages, NewPage
<1>8. RefreshAsks' /\ ClosedBehind' /\ ActionsAct' /\ PageFollows'
  BY <1>2, <1>3, CallFacts, CallerFacts
     DEF RefreshAsks, ClosedBehind, ActionsAct, PageFollows
<1> QED BY <1>5, <1>6, <1>7, <1>8, Parts DEF IInv

\* The answer of a refresh tells the page what is in effect, or leaves it behind.
LEMMA StateStep ==
    ASSUME IInv, StateReady
    PROVE  IInv'
<1>1. TypeOK /\ HelperTypes /\ CollectorTypes /\ CallTypes /\ PageTypes /\ WindowTypes
  BY Parts DEF IInv
<1> DEFINE told == call[Refresh].told
           ok == call[Refresh].ok
<1>2. /\ open /\ call[Refresh].step = "answered" /\ inflight' = FALSE
      /\ call' = [call EXCEPT ![Refresh] = Idle]
      /\ behind' = (behind \/ ~ok)
      /\ UNCHANGED <<tuned, overdue, heat, running, count, open, dialog>>
  BY DEF StateReady, collector
<1>3. call[Refresh] \in Calls /\ told \in BOOLEAN /\ ok \in BOOLEAN /\ call[Refresh] # Idle
  BY <1>1, <1>2, CallerFacts, CallFacts DEF CallTypes, Calls
<1>4. PICK usable \in {FALSE, ok} : page' = Sensitive(Heard, usable)
  BY DEF StateReady
<1>5. usable \in BOOLEAN
  BY <1>3
<1>6. Heard \in Pages /\ Heard.baseline = told /\ Heard.active = page.active
  BY <1>1, <1>3 DEF Heard, PageTypes, Pages
<1>7. (usable /\ Heard.active) \in BOOLEAN
  OBVIOUS
<1>8. /\ page' \in Pages /\ page'.baseline = told /\ page'.restore = told
      /\ page'.usable = usable /\ page'.active = Heard.active
      /\ page'.apply = (usable /\ Heard.active)
  BY <1>4, <1>5, <1>6, <1>7 DEF Sensitive, Pages
<1>9. HelperTypes' /\ CollectorTypes'
  BY <1>1, <1>2 DEF HelperTypes, CollectorTypes
<1>10. /\ call' \in [Callers -> Calls] /\ call'[Refresh] = Idle
       /\ \A c \in Actions : call'[c] = call[c]
  BY <1>1, <1>2, CallFacts, CallerFacts DEF CallTypes
<1>11. CallTypes'
  BY <1>2, <1>10 DEF CallTypes
<1>12. PageTypes'
  BY <1>1, <1>2, <1>8 DEF PageTypes
<1>13. behind' \in BOOLEAN /\ (~behind' => ~behind /\ ok)
  BY <1>2, Zenon
<1>14. WindowTypes'
  BY <1>1, <1>2, <1>13 DEF WindowTypes
<1>15. RefreshAsks' /\ ActionsAct' /\ ClosedBehind'
  BY <1>2, <1>10, CallFacts DEF IInv, RefreshAsks, ActionsAct, ClosedBehind
<1>16. PageFollows'
  <2> SUFFICES ASSUME ~behind'
               PROVE  \/ Acting'
                      \/ /\ call'[Refresh] = Idle /\ page'.baseline = tuned'
                         /\ page'.restore = page'.baseline
    BY DEF PageFollows
  <2>1. Acting \/ told = tuned
    BY <1>2, <1>3, <1>13, CallFacts DEF IInv, PageFollows
  <2> QED BY <1>2, <1>8, <1>10, <2>1 DEF Acting
<1> QED BY <1>9, <1>11, <1>12, <1>14, <1>15, <1>16, Parts DEF IInv

\* What the page learns of the collector does not touch what it says of tuning.
LEMMA StatusStep ==
    ASSUME IInv, StatusReady
    PROVE  IInv'
<1>1. TypeOK /\ HelperTypes /\ CollectorTypes /\ CallTypes /\ PageTypes /\ WindowTypes
  BY Parts DEF IInv
<1>2. PICK active \in BOOLEAN :
         page' = [page EXCEPT !.active = active, !.apply = active /\ page.usable]
  BY DEF StatusReady
<1>3. open /\ UNCHANGED <<tuned, overdue, call, heat, running, count, open, inflight, dialog, behind>>
  BY DEF StatusReady, helper, collector
<1>4. (active /\ page.usable) \in BOOLEAN
  OBVIOUS
<1>5. /\ page' \in Pages /\ page'.baseline = page.baseline /\ page'.restore = page.restore
      /\ page'.usable = page.usable /\ page'.active = active
      /\ page'.apply = (active /\ page.usable)
  BY <1>1, <1>2, <1>4 DEF PageTypes, Pages
<1>6. HelperTypes' /\ CollectorTypes' /\ CallTypes' /\ PageTypes' /\ WindowTypes'
  BY <1>1, <1>3, <1>5 DEF HelperTypes, CollectorTypes, CallTypes, PageTypes, WindowTypes
<1>7. RefreshAsks' /\ ActionsAct' /\ ClosedBehind' /\ PageFollows'
  BY <1>3, <1>5 DEF IInv, RefreshAsks, ActionsAct, ClosedBehind, PageFollows, Acting
<1> QED BY <1>6, <1>7, Parts DEF IInv

\* IInv is inductive.
LEMMA Inductive == IInv /\ [Next]_vars => IInv'
<1> SUFFICES ASSUME IInv, [Next]_vars PROVE IInv'
  OBVIOUS
<1>1. CASE \E c \in Callers : Serve(c) \/ GiveUp(c)
  BY <1>1, AnswerStep
<1>2. CASE ServeOverdue
  BY <1>2, OverdueStep
<1>3. CASE Weather \/ Sample \/ RolledBack \/ CollectorEnds \/ CollectorStarts
  BY <1>3, CollectorStep
<1>4. CASE Visit \/ \E a \in Actions : ActionReady(a)
  BY <1>4, RefreshStep
<1>5. CASE StateReady \/ StatusReady
  BY <1>5, StateStep, StatusStep
<1>6. CASE ConfirmApply \/ ConfirmRestore \/ Open
  BY <1>6, DialogStep
<1>7. CASE Decide \/ Close
  BY <1>7, DecideStep, CloseStep
<1>8. CASE UNCHANGED vars
  BY <1>8
     DEF vars, helper, collector, window, IInv, TypeOK, RefreshAsks, ActionsAct,
         ClosedBehind, PageFollows, Acting
<1> QED BY <1>1, <1>2, <1>3, <1>4, <1>5, <1>6, <1>7, <1>8 DEF Next

\* The inductive invariant holds throughout.
LEMMA Invariance == Spec => []IInv
  BY InitIInv, Inductive, PTL DEF Spec

-----------------------------------------------------------------------------

\* The clients' model is type correct for any number of actions; among the
\* types is that a button is sensitive only when what it needs is there.
THEOREM TypeCorrect == Spec => []TypeOK
<1>1. IInv => TypeOK
  BY DEF IInv
<1> QED BY <1>1, Invariance, PTL

\* However many actions overlap, time out and are performed later, a page that
\* waits for nothing and is not behind shows whether tuning is in effect.
THEOREM PageShowsTuning == Spec => []PageCurrent
<1>1. IInv => PageCurrent
  BY CallFacts, CallerFacts DEF IInv, PageFollows, PageCurrent, Acting
<1> QED BY <1>1, Invariance, PTL
=============================================================================
