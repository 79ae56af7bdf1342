---------------------- MODULE DiagnosticsWindowProofs ----------------------
(***************************************************************************)
(* Type correctness of DiagnosticsWindow, and that a page shows what its   *)
(* controls ask for and never goes back in time, for any changes of the    *)
(* database, user actions and failures.                                    *)
(***************************************************************************)
EXTENDS DiagnosticsWindow, TLAPS

\* The newest request is for what the controls ask for.
AskedAsIs == request.newest # None => request.newest.filter = filter

\* Nothing has been read of a version yet to come, and what the newest request
\* has read is at least as new as what is shown.
ReadInOrder ==
    /\ shown # None => shown.version <= version
    /\ request.newest # None => request.newest.version <= version
    /\ request.newest # None /\ request.newest.step = "answered" /\ shown # None
          => request.newest.version >= shown.version

\* The inductive invariant behind ShownAsAsked and NeverOlder.
IInv == TypeOK /\ AskedAsIs /\ ReadInOrder /\ ShownAsAsked

-----------------------------------------------------------------------------

\* What WindowAssumption says of the bounds.
LEMMA Bounds ==
    /\ MaxTime \in Nat /\ MaxTime >= 1
    /\ MaxChanges \in Nat /\ MaxInputs \in Nat
  BY WindowAssumption

\* None is no request, no answer and no token.
LEMMA NoneIsNone == None \notin Requests /\ None \notin Answers /\ None \notin Tokens
  BY WindowAssumption

\* A new request is one, and is for the filter it is asked with.
LEMMA AskedFacts ==
    ASSUME NEW f \in Filters
    PROVE  /\ Asked(f) \in Requests /\ Asked(f) # None
           /\ Asked(f).filter = f /\ Asked(f).step = "sent" /\ Asked(f).version = 0
           /\ Asked(f).view = None
  BY Bounds, NoneIsNone DEF Asked, Requests

\* The token of the database is one.
LEMMA TokenFacts == ASSUME TypeOK PROVE Token \in Tokens
<1>1. evidence \in 0..MaxChanges
  BY Bounds DEF TypeOK
<1>2. latest \in 0..MaxTime /\ incident.acked \in BOOLEAN
  BY DEF TypeOK, Incidents
<1>3. (incident.status = "open") \in BOOLEAN
  OBVIOUS
<1> QED BY <1>1, <1>2, <1>3 DEF Token, Tokens

\* What a query reads is a view.
LEMMA ViewFacts == ASSUME TypeOK PROVE View \in Views
  BY Bounds DEF TypeOK, View, Views

\* An incident that is not there has the type of one.
LEMMA GoneFacts == Gone \in Incidents
  BY Bounds DEF Gone, Incidents

\* The window that opens satisfies IInv.
LEMMA InitIInv == Init => IInv
<1> SUFFICES ASSUME Init PROVE IInv
  OBVIOUS
<1>1. filter \in Filters /\ Asked("all") \in Requests /\ Asked("all") # None
  BY AskedFacts DEF Init, Filters
<1>2. request \in [newest : Requests \cup {None}, older : Requests \cup {None}]
  BY <1>1 DEF Init
<1>3. incident \in Incidents
  BY GoneFacts DEF Init
<1>4. visible \in BOOLEAN
  BY Zenon DEF Init
<1>5. poll \in [step : {"idle", "sent", "answered"}, token : Tokens \cup {None}]
  BY DEF Init
<1>6. /\ evidence \in 0..version /\ version \in 0..MaxChanges /\ inputs \in 0..MaxInputs
       /\ latest \in 0..MaxTime /\ pruned \in 0..version
  BY Bounds DEF Init
<1>7. /\ page \in Pages /\ closed \in BOOLEAN /\ follow \in BOOLEAN /\ missed \in BOOLEAN
       /\ shown \in Answers \cup {None} /\ lastToken \in Tokens \cup {None}
       /\ update \in {"none", "changed", "cleared"}
  BY Zenon DEF Init
<1>8. TypeOK
  BY <1>1, <1>2, <1>3, <1>4, <1>5, <1>6, <1>7, Zenon DEF TypeOK
<1>9. AskedAsIs /\ ReadInOrder /\ ShownAsAsked
  BY AskedFacts DEF Init, AskedAsIs, ReadInOrder, ShownAsAsked, Filters
<1> QED BY <1>8, <1>9 DEF IInv

-----------------------------------------------------------------------------
(* What a step does to the page's content and to the rest is proved apart. *)

\* The types of what is not the page's content.
Elsewhere ==
    /\ evidence \in 0..version
    /\ latest \in 0..MaxTime
    /\ incident \in Incidents
    /\ version \in 0..MaxChanges
    /\ pruned \in 0..version
    /\ page \in Pages /\ visible \in BOOLEAN /\ closed \in BOOLEAN
    /\ filter \in Filters /\ follow \in BOOLEAN
    /\ poll \in [step : {"idle", "sent", "answered"}, token : Tokens \cup {None}]
    /\ lastToken \in Tokens \cup {None}
    /\ update \in {"none", "changed", "cleared"}
    /\ inputs \in 0..MaxInputs

\* The types of the page's content, and what IInv says of it.
Content ==
    /\ request \in [newest : Requests \cup {None}, older : Requests \cup {None}]
    /\ shown \in Answers \cup {None}
    /\ missed \in BOOLEAN
    /\ AskedAsIs /\ ReadInOrder /\ ShownAsAsked

\* IInv is what is said of the page's content and of the rest.
LEMMA Parts == Elsewhere' /\ Content' => IInv'
  BY DEF IInv, TypeOK, Elsewhere, Content

\* Content that stays as it is keeps its invariants in a newer database.
LEMMA KeepContent ==
    ASSUME IInv, NoRefresh, UNCHANGED filter, closed => closed',
           version' \in Nat, version' >= version
    PROVE  Content'
  BY Bounds DEF IInv, TypeOK, Content, NoRefresh, content, AskedAsIs, ReadInOrder,
                ShownAsAsked, Requests, Answers

\* A refresh asks for what the controls ask for then.
LEMMA SubmitContent ==
    ASSUME IInv, filter' \in Filters, Submit(filter'),
           version' \in Nat, version' >= version
    PROVE  Content'
<1>1. /\ request'.newest = Asked(filter') /\ shown' = shown /\ missed' = FALSE
      /\ request' \in [newest : Requests \cup {None}, older : Requests \cup {None}]
  BY AskedFacts DEF Submit, IInv, TypeOK
<1>2. request'.newest # None /\ AskedAsIs'
  BY <1>1, AskedFacts DEF AskedAsIs
<1>3. ReadInOrder'
  BY <1>1, <1>2, AskedFacts, Bounds DEF ReadInOrder, IInv, TypeOK, Answers
<1>4. ShownAsAsked'
  BY <1>2 DEF ShownAsAsked
<1> QED BY <1>1, <1>2, <1>3, <1>4 DEF Content, IInv, TypeOK

\* A refresh for the filter that stays.
LEMMA RefreshContent ==
    ASSUME IInv, Refresh \/ NoRefresh, UNCHANGED filter, closed => closed',
           version' \in Nat, version' >= version
    PROVE  Content'
  BY KeepContent, SubmitContent DEF Refresh, IInv, TypeOK

-----------------------------------------------------------------------------
(* Every step preserves IInv.                                              *)

\* What happens to the database keeps the types.
LEMMA DatabaseStep ==
    ASSUME IInv, Evidence \/ ConditionClears \/ Prune \/ Promote
    PROVE  IInv'
<1> USE Bounds DEF Changed, controls, polling
<1>1. TypeOK
  BY DEF IInv
<1>2. NoRefresh /\ UNCHANGED filter /\ UNCHANGED closed
      /\ version' \in Nat /\ version' >= version
  BY <1>1 DEF Evidence, ConditionClears, Prune, Promote, NoRefresh, TypeOK
<1>3. Content'
  BY <1>2, KeepContent
<1>4. CASE Evidence
  <2>1. PICK at \in 1..MaxTime :
           /\ latest' = IF at < latest THEN latest ELSE at
           /\ incident' \in {incident, [status |-> "open", acked |-> FALSE, last |-> at]}
    BY <1>4 DEF Evidence
  <2>2. [status |-> "open", acked |-> FALSE, last |-> at] \in Incidents
    BY <2>1 DEF Incidents
  <2>3. latest' \in {latest, at} /\ incident \in Incidents /\ latest \in 0..MaxTime
    BY <1>1, <2>1, Zenon DEF TypeOK
  <2>4. incident' \in Incidents /\ latest' \in 0..MaxTime
    <3>1. incident' \in Incidents
      BY <2>1, <2>2, <2>3, Zenon
    <3>2. latest' \in 0..MaxTime
      BY <2>3, <1>1 DEF TypeOK
    <3> QED BY <3>1, <3>2
  <2>5. Elsewhere'
    BY <1>1, <1>4, <2>4 DEF Evidence, TypeOK, Elsewhere
  <2> QED BY <1>3, <2>5, Parts
<1>5. CASE ConditionClears
  <2>1. incident' \in Incidents
    BY <1>1, <1>5 DEF ConditionClears, TypeOK, Incidents
  <2>2. Elsewhere'
    BY <1>1, <1>5, <2>1 DEF ConditionClears, TypeOK, Elsewhere
  <2> QED BY <1>3, <2>2, Parts
<1>6. CASE Prune
  <2>1. /\ incident' \in {incident, Gone} /\ latest' \in {latest, 0}
        /\ evidence' \in {0} \cup 1..evidence
    BY <1>6 DEF Prune
  <2>2. incident' \in Incidents /\ latest' \in 0..MaxTime /\ evidence' \in 0..evidence
    BY <1>1, <2>1, GoneFacts DEF TypeOK
  <2>3. Elsewhere'
    BY <1>1, <1>6, <2>2 DEF Prune, TypeOK, Elsewhere
  <2> QED BY <1>3, <2>3, Parts
<1>7. CASE Promote
  <2>1. Elsewhere'
    BY <1>1, <1>7 DEF Promote, TypeOK, Elsewhere
  <2> QED BY <1>3, <2>1, Parts
<1> QED BY <1>4, <1>5, <1>6, <1>7

\* What the user does to the page keeps the invariant.
LEMMA InputStep ==
    ASSUME IInv, Navigate \/ SetFilter \/ SwitchFollow \/ Tick \/ Close
    PROVE  IInv'
<1> USE Bounds DEF database, polling, controls, Click, Input
<1>1. TypeOK
  BY DEF IInv
<1>2. version' = version /\ version \in Nat
  BY <1>1 DEF Navigate, SetFilter, SwitchFollow, Tick, Close, TypeOK
<1>3. CASE Navigate
  <2>1. Elsewhere'
    BY <1>1, <1>3 DEF Navigate, TypeOK, Elsewhere
  <2>2. (Refresh \/ NoRefresh) /\ UNCHANGED <<filter, closed>>
    BY <1>3 DEF Navigate
  <2> QED BY <1>2, <2>1, <2>2, RefreshContent, Parts
<1>4. CASE SetFilter
  <2>1. Elsewhere'
    BY <1>1, <1>4 DEF SetFilter, TypeOK, Elsewhere
  <2>2. Submit(filter') /\ filter' \in Filters
    BY <1>4 DEF SetFilter
  <2> QED BY <1>2, <2>1, <2>2, SubmitContent, Parts
<1>5. CASE SwitchFollow
  <2>1. Elsewhere'
    BY <1>1, <1>5 DEF SwitchFollow, TypeOK, Elsewhere
  <2>2. NoRefresh /\ UNCHANGED <<filter, closed>>
    BY <1>5 DEF SwitchFollow
  <2> QED BY <1>2, <2>1, <2>2, KeepContent, Parts
<1>6. CASE Tick
  <2>1. Elsewhere'
    BY <1>1, <1>6 DEF Tick, TypeOK, Elsewhere
  <2>2. Refresh /\ UNCHANGED <<filter, closed>>
    BY <1>6 DEF Tick
  <2> QED BY <1>2, <2>1, <2>2, RefreshContent, Parts
<1>7. CASE Close
  <2>1. Elsewhere'
    BY <1>1, <1>7 DEF Close, TypeOK, Elsewhere
  <2>2. NoRefresh /\ UNCHANGED filter /\ closed' = TRUE
    BY <1>7 DEF Close, NoRefresh
  <2> QED BY <1>2, <2>1, <2>2, KeepContent, Parts
<1> QED BY <1>3, <1>4, <1>5, <1>6, <1>7

\* The poll of the token keeps the invariant.
LEMMA PollStep ==
    ASSUME IInv, Poll \/ PollQuery \/ PollReady
    PROVE  IInv'
<1> USE Bounds DEF database, controls, Input
<1>1. TypeOK
  BY DEF IInv
<1>2. version' = version /\ version \in Nat /\ UNCHANGED <<filter, closed>>
  BY <1>1 DEF Poll, PollQuery, PollReady, TypeOK
<1>3. CASE Poll
  <2>1. Elsewhere'
    BY <1>1, <1>3 DEF Poll, TypeOK, Elsewhere
  <2> QED BY <1>2, <1>3, <2>1, KeepContent, Parts DEF Poll, NoRefresh
<1>4. CASE PollQuery
  <2>1. Elsewhere'
    BY <1>1, <1>4, TokenFacts DEF PollQuery, TypeOK, Elsewhere
  <2> QED BY <1>2, <1>4, <2>1, KeepContent, Parts DEF PollQuery, NoRefresh
<1>5. CASE PollReady
  <2>1. Elsewhere'
    BY <1>1, <1>5 DEF PollReady, TypeOK, Elsewhere
  <2>2. CASE Refresh \/ NoRefresh
    BY <1>2, <2>1, <2>2, RefreshContent, Parts
  <2>3. CASE missed' = TRUE /\ UNCHANGED <<request, shown>>
    BY <1>1, <1>2, <2>1, <2>3, Parts
       DEF IInv, TypeOK, Content, AskedAsIs, ReadInOrder, ShownAsAsked
  <2> QED BY <1>5, <2>2, <2>3 DEF PollReady
<1> QED BY <1>3, <1>4, <1>5

\* The changes the user asks for keep the invariant.
LEMMA UpdateStep ==
    ASSUME IInv, ChangeIncident \/ ClearHistory \/ UpdateReady
    PROVE  IInv'
<1> USE Bounds DEF database, controls, polling, Click, Input, Changed
<1>1. TypeOK
  BY DEF IInv
<1>2. version' \in Nat /\ version' >= version /\ UNCHANGED <<filter, closed>>
  BY <1>1 DEF ChangeIncident, ClearHistory, UpdateReady, TypeOK
<1>3. Refresh \/ NoRefresh
  BY DEF ChangeIncident, ClearHistory, UpdateReady, NoRefresh
<1>4. CASE ChangeIncident
  <2>1. incident' \in Incidents
    BY <1>1, <1>4 DEF ChangeIncident, TypeOK, Incidents
  <2>2. Elsewhere'
    BY <1>1, <1>4, <2>1 DEF ChangeIncident, TypeOK, Elsewhere
  <2> QED BY <1>2, <1>3, <2>2, RefreshContent, Parts
<1>5. CASE ClearHistory
  <2>1. Elsewhere'
    BY <1>1, <1>5, GoneFacts DEF ClearHistory, TypeOK, Elsewhere
  <2> QED BY <1>2, <1>3, <2>1, RefreshContent, Parts
<1>6. CASE UpdateReady
  <2>1. Elsewhere'
    BY <1>1, <1>6 DEF UpdateReady, TypeOK, Elsewhere
  <2> QED BY <1>2, <1>3, <2>1, RefreshContent, Parts
<1> QED BY <1>4, <1>5, <1>6

\* A query that is run or fails keeps the invariant.
LEMMA QueryStep ==
    ASSUME IInv, NEW k \in {"newest", "older"}, Query(k)
    PROVE  IInv'
<1> USE Bounds DEF database, controls, polling, Input
<1>1. TypeOK
  BY DEF IInv
<1>2. Elsewhere'
  BY <1>1 DEF Query, TypeOK, Elsewhere
<1>3. request[k] # None /\ request[k] \in Requests
  BY <1>1 DEF Query, TypeOK
<1>4. PICK r \in Requests :
         /\ request' = [request EXCEPT ![k] = r]
         /\ r.filter = request[k].filter
         /\ \/ r.step = "answered" /\ r.version = version
            \/ r.step = "failed" /\ r.version = request[k].version
  <2>1. CASE request' = [request EXCEPT ![k].step = "answered",
                                        ![k].version = version, ![k].view = View]
    <3>1. [request[k] EXCEPT !.step = "answered", !.version = version, !.view = View]
             \in Requests
      BY <1>1, <1>3, ViewFacts DEF Requests, TypeOK
    <3> WITNESS [request[k] EXCEPT !.step = "answered", !.version = version, !.view = View]
                   \in Requests
    <3> QED BY <1>1, <1>3, <2>1 DEF Requests, TypeOK
  <2>2. CASE request' = [request EXCEPT ![k].step = "failed"]
    <3>1. [request[k] EXCEPT !.step = "failed"] \in Requests
      BY <1>3 DEF Requests
    <3> WITNESS [request[k] EXCEPT !.step = "failed"] \in Requests
    <3> QED BY <1>1, <1>3, <2>2 DEF Requests, TypeOK
  <2> QED BY <2>1, <2>2 DEF Query
<1>5. UNCHANGED <<shown, missed, filter, version, closed>>
  BY DEF Query
<1>6. CASE k = "newest"
  <2>1. request' = [newest |-> r, older |-> request.older]
    BY <1>1, <1>4, <1>6 DEF TypeOK
  <2>2. r # None /\ request.newest # None
    BY <1>3, <1>6, NoneIsNone
  <2> QED BY <1>1, <1>2, <1>4, <1>5, <1>6, <2>1, <2>2, Parts
          DEF IInv, TypeOK, Content, AskedAsIs, ReadInOrder, ShownAsAsked, Answers, Requests
<1>7. CASE k = "older"
  <2>1. request' = [newest |-> request.newest, older |-> r]
    BY <1>1, <1>4, <1>7 DEF TypeOK
  <2> QED BY <1>1, <1>2, <1>4, <1>5, <2>1, Parts
          DEF IInv, TypeOK, Content, AskedAsIs, ReadInOrder, ShownAsAsked
<1> QED BY <1>6, <1>7

\* A result that arrives keeps the invariant.
LEMMA ReadyStep ==
    ASSUME IInv, NEW k \in {"newest", "older"}, Ready(k)
    PROVE  IInv'
<1> USE Bounds DEF database, controls, polling
<1>1. TypeOK
  BY DEF IInv
<1>2. Elsewhere'
  BY <1>1 DEF Ready, TypeOK, Elsewhere
<1>3. request[k] # None /\ request[k] \in Requests /\ request[k].step # "sent"
  BY <1>1 DEF Ready, TypeOK
<1>4. request' = [request EXCEPT ![k] = None] /\ UNCHANGED <<filter, version, closed>>
  BY DEF Ready
<1>5. CASE k = "older"
  <2>1. request' = [newest |-> request.newest, older |-> None]
    BY <1>1, <1>4, <1>5 DEF TypeOK
  <2>2. UNCHANGED <<shown, missed>>
    BY <1>5 DEF Ready, Superseded
  <2> QED BY <1>1, <1>2, <1>4, <2>1, <2>2, Parts
          DEF IInv, TypeOK, Content, AskedAsIs, ReadInOrder, ShownAsAsked
<1>6. CASE k = "newest"
  <2>1. request' = [newest |-> None, older |-> request.older]
    BY <1>1, <1>4, <1>6 DEF TypeOK
  <2>2. request.newest # None /\ request.newest \in Requests /\ request.newest.step # "sent"
    BY <1>3, <1>6
  <2>3. CASE closed
    <3>1. UNCHANGED <<shown, missed>>
      BY <2>3 DEF Ready
    <3> QED BY <1>1, <1>2, <1>4, <2>1, <2>3, <3>1, Parts
            DEF IInv, TypeOK, Content, AskedAsIs, ReadInOrder, ShownAsAsked
  <2>4. CASE ~closed /\ request.newest.step = "failed"
    <3>1. missed' = TRUE /\ shown' \in {None, shown}
      BY <1>6, <2>4 DEF Ready, Superseded, Show, ShowFailure
    <3> QED BY <1>1, <1>2, <1>4, <2>1, <3>1, Parts
            DEF IInv, TypeOK, Content, AskedAsIs, ReadInOrder, ShownAsAsked
  <2>5. CASE ~closed /\ request.newest.step # "failed"
    <3>1. /\ shown' = [version |-> request.newest.version, view |-> request.newest.view,
                         filter |-> request.newest.filter]
          /\ missed' = missed
      BY <1>6, <2>5 DEF Ready, Superseded, Show, ShowAnswer
    <3>2. shown' \in Answers /\ shown'.filter = filter /\ shown'.version <= version
      BY <1>1, <2>2, <3>1 DEF IInv, AskedAsIs, ReadInOrder, Requests, Answers
    <3> QED BY <1>1, <1>2, <1>4, <2>1, <3>1, <3>2, Parts
            DEF IInv, TypeOK, Content, AskedAsIs, ReadInOrder, ShownAsAsked
  <2> QED BY <2>3, <2>4, <2>5
<1> QED BY <1>5, <1>6

\* IInv is inductive.
LEMMA Inductive == IInv /\ [Next]_vars => IInv'
<1> SUFFICES ASSUME IInv, [Next]_vars PROVE IInv'
  OBVIOUS
<1>1. CASE Next
  BY <1>1, DatabaseStep, InputStep, PollStep, UpdateStep, QueryStep, ReadyStep DEF Next
<1>2. CASE UNCHANGED vars
  BY <1>2
     DEF vars, database, controls, content, polling, IInv, TypeOK, AskedAsIs, ReadInOrder,
         ShownAsAsked
<1> QED BY <1>1, <1>2

\* The inductive invariant holds throughout.
LEMMA Invariance == Spec => []IInv
  BY InitIInv, Inductive, PTL DEF Spec

-----------------------------------------------------------------------------

\* The window's model is type correct for any bounds.
THEOREM TypeCorrect == Spec => []TypeOK
<1>1. IInv => TypeOK
  BY DEF IInv
<1> QED BY <1>1, Invariance, PTL

\* However requests overlap and answers are delayed, a page that waits for
\* nothing shows what its controls ask for.
THEOREM ShowsWhatIsAsked == Spec => []ShownAsAsked
<1>1. IInv => ShownAsAsked
  BY DEF IInv
<1> QED BY <1>1, Invariance, PTL

\* However requests overlap and answers are delayed, a page never goes back to
\* an earlier state of the database.
THEOREM NeverGoesBack == Spec => NeverOlder
<1>1. IInv /\ [Next]_vars =>
        [shown # None /\ shown' # None /\ shown'.filter = shown.filter =>
            shown'.version >= shown.version]_shown
  <2> SUFFICES ASSUME IInv, Next, shown' # shown, shown # None, shown' # None
               PROVE  shown'.version >= shown.version
    BY DEF vars, content
  <2>1. PICK k \in {"newest", "older"} : Ready(k)
    BY DEF Next, Evidence, ConditionClears, Prune, Promote, Navigate, SetFilter, SwitchFollow, Tick, Query,
           Poll, PollQuery, PollReady, ChangeIncident, ClearHistory, UpdateReady, Close,
           Refresh, NoRefresh, Submit, content
  <2>2. k = "newest" /\ request.newest # None /\ request.newest.step # "sent"
    BY <2>1 DEF Ready, Superseded
  <2>3. request.newest.step # "failed"
    BY <2>1, <2>2 DEF Ready, Show, ShowFailure
  <2>4. shown'.version = request.newest.version
    BY <2>1, <2>2, <2>3 DEF Ready, Superseded, Show, ShowAnswer
  <2>5. request.newest.step = "answered"
    BY <2>2, <2>3 DEF IInv, TypeOK, Requests
  <2> QED BY <2>2, <2>4, <2>5 DEF IInv, ReadInOrder
<1> QED BY <1>1, Invariance, PTL DEF Spec, NeverOlder
=============================================================================
