-------------------------- MODULE EventFeedProofs --------------------------
(***************************************************************************)
(* Proofs about EventFeed: the list has all the evidence down to its       *)
(* cursor, in order, and when it offers no older events there are none,    *)
(* whatever arrives, is pruned, fails or is superseded, for pages of any   *)
(* size; each query has one answer; and the bursts hide nothing.           *)
(***************************************************************************)
EXTENDS EventFeed, SequenceTheorems, WellFoundedInduction, TLAPS

-----------------------------------------------------------------------------
(* The inductive invariant.                                                *)

\* What a page was asked for is what the controls and the cursor still say.
AskedNow ==
    request.newest # None =>
        request.newest.filter = filter /\ request.newest.before = cursor

InOrder ==
    /\ Sorted(raw)
    /\ \A i \in DOMAIN raw : Matches(raw[i], filter)

\* What the list lacks lies beyond its cursor.
LacksOnlyOlder ==
    \A r \in first : Matches(r, filter) /\ r \notin Range(raw) => Older(r, cursor)

\* Whether page continues the list: what it lacks lies beyond a full page.
Continues(page) ==
    /\ Sorted(page)
    /\ \A i \in DOMAIN page : Matches(page[i], filter) /\ Older(page[i], cursor)
    /\ \A r \in first :
          Matches(r, filter) /\ Older(r, cursor) /\ r \notin Range(page)
            => Len(page) = PageSize /\ Before(Last(page), r)

AnswerContinues ==
    request.newest # None /\ request.newest.step = "answered" =>
        Continues(request.newest.rows)

\* After the last page only a refresh can be on its way.
NothingOlder ==
    ~more =>
        IF request.newest # None
        THEN raw = <<>> /\ (request.newest.step = "sent" => first = {})
        ELSE \/ list = "timeline" /\ failed
             \/ \A r \in first : Matches(r, filter) => r \in Range(raw)

IInv ==
    /\ TypeOK /\ AskedNow /\ InOrder /\ LacksOnlyOlder /\ AnswerContinues /\ NothingOlder

-----------------------------------------------------------------------------
(* Lemmas about rows and pages.                                            *)

\* The order of the evidence is transitive.
LEMMA BeforeTransitive ==
    ASSUME NEW a \in Row, NEW b \in Row, NEW c \in Row, Before(a, b), Before(b, c)
    PROVE  Before(a, c)
<1>1. /\ a.at \in Int /\ b.at \in Int /\ c.at \in Int
      /\ a.id \in Int /\ b.id \in Int /\ c.id \in Int
    BY FeedAssumption DEF Row
<1> QED
    BY <1>1 DEF Before

\* The last row of a list that is not empty is a row, and None is none.
LEMMA LastRow ==
    ASSUME NEW s \in Seq(Row), s # <<>>
    PROVE  /\ Len(s) \in 1..Len(s) /\ DOMAIN s = 1..Len(s) /\ Len(s) \in Nat
           /\ Last(s) = s[Len(s)] /\ Last(s) \in Row /\ Last(s) # None
<1>1. Len(s) \in Nat \ {0} /\ DOMAIN s = 1..Len(s)
    BY EmptySeq, LenProperties
<1>2. Last(s) = s[Len(s)] /\ s[Len(s)] \in Row
    BY <1>1, ElementOfSeq DEF Last
<1> QED
    BY <1>1, <1>2, FeedAssumption

\* An index of a list, and the row there.
LEMMA RowAt ==
    ASSUME NEW s \in Seq(Row)
    PROVE  /\ Len(s) \in Nat /\ DOMAIN s = 1..Len(s)
           /\ \A i \in DOMAIN s : s[i] \in Row /\ s[i] \in Range(s)
           /\ \A r \in Range(s) : r \in Row /\ \E i \in DOMAIN s : s[i] = r
<1>1. Len(s) \in Nat /\ DOMAIN s = 1..Len(s)
    BY LenProperties
<1>2. \A i \in DOMAIN s : s[i] \in Row
    BY <1>1, ElementOfSeq
<1> QED
    BY <1>1, <1>2 DEF Range

\* In a sorted list the last row is the oldest.
LEMMA LastIsOldest ==
    ASSUME NEW s \in Seq(Row), Sorted(s), NEW r \in Range(s)
    PROVE  s # <<>> /\ (r = Last(s) \/ Before(r, Last(s)))
<1>1. PICK i \in DOMAIN s : s[i] = r
    BY DEF Range
<1>2. s # <<>>
    BY <1>1
<1>3. Len(s) \in DOMAIN s /\ Last(s) = s[Len(s)] /\ DOMAIN s = 1..Len(s) /\ Len(s) \in Nat
    BY <1>2, LastRow
<1>4. CASE i = Len(s)
    BY <1>1, <1>2, <1>3, <1>4
<1>5. CASE i # Len(s)
    <2>1. i < Len(s)
        BY <1>1, <1>3, <1>5
    <2> QED
        BY <1>1, <1>2, <1>3, <2>1 DEF Sorted
<1> QED
    BY <1>4, <1>5

\* A page is a sorted list of matching rows, and what it leaves out comes after it.
LEMMA PageFacts ==
    ASSUME NEW matching \in SUBSET Row, NEW page \in Pages(matching)
    PROVE  /\ page \in Seq(Row) /\ Sorted(page)
           /\ \A i \in DOMAIN page : page[i] \in matching
           /\ \A r \in matching \ Range(page) :
                 Len(page) = PageSize /\ Before(Last(page), r)
<1>1. PICK n \in 0..PageSize : page \in [1..n -> matching]
    BY DEF Pages
<1>2. n \in Nat /\ page \in [1..n -> Row]
    BY <1>1, FeedAssumption
<1>3. page \in Seq(Row)
    BY <1>2, SeqDef
<1>4. \A i \in DOMAIN page : page[i] \in matching
    BY <1>1
<1> QED
    BY <1>3, <1>4 DEF Pages

\* A list and the page that continues it.
LEMMA Concatenation ==
    ASSUME NEW s \in Seq(Row), NEW page \in Seq(Row)
    PROVE  /\ s \o page \in Seq(Row)
           /\ Range(s \o page) = Range(s) \cup Range(page)
           /\ Len(s \o page) = Len(s) + Len(page)
           /\ \A i \in 1..Len(s) : (s \o page)[i] = s[i]
           /\ \A i \in 1..Len(page) : (s \o page)[Len(s) + i] = page[i]
<1>1. Len(s) \in Nat /\ Len(page) \in Nat
    BY LenProperties
<1>2. /\ s \o page \in Seq(Row)
      /\ Len(s \o page) = Len(s) + Len(page)
      /\ \A i \in 1..Len(s) + Len(page) :
            (s \o page)[i] = IF i <= Len(s) THEN s[i] ELSE page[i - Len(s)]
    BY ConcatProperties
<1>3. Range(s \o page) = Range(s) \cup Range(page)
    BY RangeConcatenation
<1>4. ASSUME NEW i \in 1..Len(s) PROVE (s \o page)[i] = s[i]
    BY <1>1, <1>2
<1>5. ASSUME NEW i \in 1..Len(page) PROVE (s \o page)[Len(s) + i] = page[i]
    <2>1. Len(s) + i \in 1..Len(s) + Len(page) /\ ~(Len(s) + i <= Len(s))
            /\ (Len(s) + i) - Len(s) = i
        BY <1>1
    <2> QED
        BY <1>2, <2>1
<1> QED
    BY <1>2, <1>3, <1>4, <1>5

-----------------------------------------------------------------------------
(* The type invariant.                                                     *)

\* Its parts, each about the variables that change together.
StoreOK ==
    /\ list \in {"feed", "timeline"} /\ failed \in BOOLEAN
    /\ rows \subseteq Row /\ lastId \in 0..MaxEvidence
    /\ \A r \in rows : r.id <= lastId
    /\ filter \in Filters
    /\ first \subseteq rows
    /\ list = "timeline" => filter = "this"

ShownOK ==
    /\ raw \in Seq(Row) /\ more \in BOOLEAN
    /\ cursor = IF raw = <<>> THEN None ELSE Last(raw)

RequestOK == request \in [newest : Request \cup {None}, older : Request \cup {None}]

LEMMA TypeParts == TypeOK <=> StoreOK /\ ShownOK /\ RequestOK
BY DEF TypeOK, StoreOK, ShownOK, RequestOK

LEMMA TypePartsPrimed == TypeOK' <=> StoreOK' /\ ShownOK' /\ RequestOK'
BY DEF TypeOK, StoreOK, ShownOK, RequestOK

\* The cursor is a row or None.
LEMMA CursorType == ASSUME TypeOK PROVE cursor \in Row \cup {None}
BY LastRow DEF TypeOK

\* Submitting makes a request of what was asked for.
LEMMA SubmitType ==
    ASSUME TypeOK, NEW f \in Filters, NEW c \in Row \cup {None}, Submit(f, c)
    PROVE  /\ RequestOK' /\ request'.newest = Asked(f, c) /\ Asked(f, c) # None
           /\ failed' = FALSE /\ list' = list /\ rows' = rows /\ lastId' = lastId
<1>1. <<>> \in Seq(Row)
    BY EmptySeq
<1>2. Asked(f, c) \in Request
    BY <1>1 DEF Asked, Request
<1>3. request.newest \in Request \cup {None} /\ request.older \in Request \cup {None}
    BY DEF TypeOK
<1>4. RequestOK'
    BY <1>2, <1>3 DEF Submit, RequestOK
<1> QED
    BY <1>2, <1>4, FeedAssumption DEF Submit, database

\* A request that a query answers or a result drops stays one.
LEMMA QueryType ==
    ASSUME TypeOK, NEW k \in {"newest", "older"}, NEW page \in Seq(Row),
           request[k] # None, 
           request' = [request EXCEPT ![k].step = "answered", ![k].rows = page]
    PROVE  /\ RequestOK'
           /\ request'[k] = [request[k] EXCEPT !.step = "answered", !.rows = page]
           /\ request'[k] # None /\ request'[k].step = "answered"
           /\ request'[k].rows = page /\ request'[k].filter = request[k].filter
           /\ request'[k].before = request[k].before
           /\ k = "older" => request'.newest = request.newest
<1>1. request[k] \in Request
    BY DEF TypeOK
<1>2. [request[k] EXCEPT !.step = "answered", !.rows = page] \in Request
    BY <1>1 DEF Request
<1>3. CASE k = "newest"
    BY <1>1, <1>2, <1>3, FeedAssumption DEF TypeOK, RequestOK, Request
<1>4. CASE k = "older"
    BY <1>1, <1>2, <1>4, FeedAssumption DEF TypeOK, RequestOK, Request
<1> QED
    BY <1>3, <1>4

\* What a query takes its page from; the newest query asks what is asked now.
LEMMA QueryPages ==
    ASSUME TypeOK, NEW k \in {"newest", "older"}, QueryFeed(k) \/ QueryTimeline(k)
    PROVE  /\ request[k] # None /\ request[k].step = "sent"
           /\ \E matching \in SUBSET rows :
                 /\ k = "newest" /\ AskedNow =>
                       matching = {r \in rows : Matches(r, filter) /\ Older(r, cursor)}
                 /\ \E page \in Pages(matching) :
                       request' = [request EXCEPT ![k].step = "answered", ![k].rows = page]
           /\ first' = IF k = "newest" /\ raw = <<>> THEN rows ELSE first
           /\ UNCHANGED <<list, rows, lastId, filter, raw, cursor, more, failed>>
<1>1. CASE QueryFeed(k)
    <2> DEFINE matching == {r \in rows : Matches(r, request[k].filter)
                                         /\ Older(r, request[k].before)}
    <2>1. /\ request[k] # None /\ request[k].step = "sent"
          /\ \E page \in Pages(matching) :
                request' = [request EXCEPT ![k].step = "answered", ![k].rows = page]
          /\ first' = IF k = "newest" /\ raw = <<>> THEN rows ELSE first
          /\ UNCHANGED <<list, rows, lastId, filter, raw, cursor, more, failed>>
        BY <1>1 DEF QueryFeed, Query, EventPages, database, feed
    <2>2. k = "newest" /\ AskedNow =>
              matching = {r \in rows : Matches(r, filter) /\ Older(r, cursor)}
        BY <2>1 DEF AskedNow
    <2> QED
        BY <2>1, <2>2
<1>2. CASE QueryTimeline(k)
    <2> DEFINE matching == {r \in rows : r.says = "this" /\ Older(r, request[k].before)}
    <2>1. /\ request[k] # None /\ request[k].step = "sent"
          /\ \E page \in Pages(matching) :
                request' = [request EXCEPT ![k].step = "answered", ![k].rows = page]
          /\ first' = IF k = "newest" /\ raw = <<>> THEN rows ELSE first
          /\ UNCHANGED <<list, rows, lastId, filter, raw, cursor, more, failed>>
        BY <1>2 DEF QueryTimeline, Query, IncidentEvidence, database, feed
    <2>2. filter = "this"
        BY <1>2 DEF QueryTimeline, TypeOK
    <2>3. k = "newest" /\ AskedNow =>
              matching = {r \in rows : Matches(r, filter) /\ Older(r, cursor)}
        BY <2>1, <2>2 DEF AskedNow, Matches
    <2> QED
        BY <2>1, <2>3
<1> QED
    BY <1>1, <1>2

\* What Ready makes of the list.
LEMMA ReadyList ==
    ASSUME TypeOK, NEW k \in {"newest", "older"}, Ready(k)
    PROVE  /\ request[k] # None /\ request[k].step = "answered"
           /\ request'[k] = None /\ RequestOK'
           /\ k = "older" => UNCHANGED <<raw, cursor, more>> /\ request'.newest = request.newest
           /\ k = "newest" =>
                 LET page == request.newest.rows IN
                 /\ page \in Seq(Row)
                 /\ raw' = raw \o page
                 /\ cursor' = IF page = <<>> THEN cursor ELSE Last(page)
                 /\ more' = MoreAfter(page)
           /\ UNCHANGED <<list, rows, lastId, filter, first, failed>>
<1>1. request[k] # None /\ request[k].step = "answered" /\ request[k] \in Request
    BY DEF Ready, TypeOK
<1>2. request' = [request EXCEPT ![k] = None]
    BY DEF Ready
<1>3. request'[k] = None /\ RequestOK' /\ (k = "older" => request'.newest = request.newest)
    BY <1>2 DEF TypeOK, RequestOK
<1>4. request[k].rows \in Seq(Row)
    BY <1>1 DEF Request
<1>5. CASE k = "newest"
    BY <1>1, <1>3, <1>4, <1>5 DEF Ready, Superseded, database
<1>6. CASE k = "older"
    BY <1>1, <1>3, <1>4, <1>6 DEF Ready, Superseded, database, feed
<1> QED
    BY <1>5, <1>6

\* The type invariant holds at first, and every step keeps it.
LEMMA TypeInit == Init => TypeOK
<1> SUFFICES ASSUME Init PROVE TypeOK
    OBVIOUS
<1>1. <<>> \in Seq(Row)
    BY EmptySeq
<1>2. filter \in Filters /\ (list = "timeline" => filter = "this")
    BY DEF Init, Filters
<1>3. Asked(filter, None) \in Request
    BY <1>1, <1>2 DEF Asked, Request
<1>4. RequestOK
    BY <1>3 DEF Init, RequestOK
<1>5. StoreOK
    <2>1. rows = {} /\ first = {} /\ lastId = 0 /\ list \in {"feed", "timeline"}
        BY DEF Init
    <2>2. failed \in BOOLEAN
        BY Zenon DEF Init
    <2>3. lastId \in 0..MaxEvidence
        BY <2>1, FeedAssumption
    <2> QED
        BY <1>2, <2>1, <2>2, <2>3 DEF StoreOK
<1>6. ShownOK
    BY <1>1 DEF Init, ShownOK
<1> QED
    BY <1>4, <1>5, <1>6, TypeParts

LEMMA TypeStep == TypeOK /\ [Next]_vars => TypeOK'
<1> SUFFICES ASSUME TypeOK, [Next]_vars PROVE TypeOK'
    OBVIOUS
<1>0. StoreOK /\ ShownOK /\ RequestOK
    BY TypeParts
<1>1. CASE Evidence
    <2>1. ShownOK' /\ RequestOK'
        BY <1>0, <1>1 DEF Evidence, ShownOK, RequestOK, feed
    <2>2. PICK r \in Row : r.id = lastId + 1 /\ rows' = rows \cup {r}
        BY <1>1 DEF Evidence
    <2>3. lastId \in Int /\ lastId' = lastId + 1 /\ lastId' \in 0..MaxEvidence
        BY <1>0, <1>1, FeedAssumption DEF Evidence, StoreOK
    <2>4. \A q \in rows' : q.id <= lastId'
        <3>1. ASSUME NEW q \in rows PROVE q.id <= lastId'
            <4>1. q.id \in Int /\ q.id <= lastId
                BY <1>0, FeedAssumption DEF StoreOK, Row
            <4> QED
                BY <2>3, <4>1
        <3> QED
            BY <2>2, <2>3, <3>1
    <2>5. StoreOK'
        BY <1>0, <1>1, <2>2, <2>3, <2>4 DEF Evidence, StoreOK
    <2> QED
        BY <2>1, <2>5, TypePartsPrimed
<1>2. CASE Prune
    <2>1. ShownOK' /\ RequestOK'
        BY <1>0, <1>2 DEF Prune, ShownOK, RequestOK, feed
    <2>2. rows' \subseteq rows /\ first' \subseteq rows'
        BY <1>2 DEF Prune
    <2>3. StoreOK'
        BY <1>0, <1>2, <2>2 DEF Prune, StoreOK
    <2> QED
        BY <2>1, <2>3, TypePartsPrimed
<1>3. ASSUME NEW f \in Filters, Reset(f) PROVE TypeOK'
    <2>1. RequestOK' /\ failed' = FALSE /\ UNCHANGED <<list, rows, lastId>>
        BY <1>3, SubmitType DEF Reset
    <2>2. raw' = <<>> /\ cursor' = None /\ more' = more /\ first' = {} /\ filter' = f
            /\ list = "feed"
        BY <1>3 DEF Reset
    <2>3. ShownOK'
        BY <1>0, <2>2, EmptySeq DEF ShownOK
    <2>4. StoreOK'
        BY <1>0, <2>1, <2>2 DEF StoreOK
    <2> QED
        BY <2>1, <2>3, <2>4, TypePartsPrimed
<1>4. CASE LoadMore
    <2>1. Submit(filter, cursor) /\ UNCHANGED <<filter, feed, first>>
        BY <1>4 DEF LoadMore
    <2>2. RequestOK' /\ failed' = FALSE /\ UNCHANGED <<list, rows, lastId>>
        BY <1>0, <2>1, CursorType, SubmitType DEF StoreOK
    <2>3. ShownOK'
        BY <1>0, <2>1 DEF ShownOK, feed
    <2>4. StoreOK'
        BY <1>0, <2>1, <2>2 DEF StoreOK
    <2> QED
        BY <2>2, <2>3, <2>4, TypePartsPrimed
<1>5. CASE FeedFails \/ TimelineFails
    <2>1. Fails /\ more' \in BOOLEAN
        BY <1>0, <1>5 DEF FeedFails, TimelineFails, ShownOK
    <2>2. RequestOK'
        BY <1>0, <2>1 DEF Fails, RequestOK
    <2>3. ShownOK'
        BY <1>0, <2>1 DEF Fails, ShownOK
    <2>4. StoreOK'
        BY <1>0, <2>1 DEF Fails, StoreOK, database
    <2> QED
        BY <2>2, <2>3, <2>4, TypePartsPrimed
<1>6. ASSUME NEW k \in {"newest", "older"}, QueryFeed(k) \/ QueryTimeline(k) PROVE TypeOK'
    <2>1. PICK matching \in SUBSET rows : \E page \in Pages(matching) :
              request' = [request EXCEPT ![k].step = "answered", ![k].rows = page]
        BY <1>6, QueryPages
    <2>2. PICK page \in Pages(matching) :
              request' = [request EXCEPT ![k].step = "answered", ![k].rows = page]
        BY <2>1
    <2>3. /\ request[k] # None
          /\ first' = IF k = "newest" /\ raw = <<>> THEN rows ELSE first
          /\ UNCHANGED <<list, rows, lastId, filter, raw, cursor, more, failed>>
        BY <1>6, QueryPages
    <2>4. page \in Seq(Row)
        BY <1>0, PageFacts DEF StoreOK
    <2>5. RequestOK'
        BY <2>2, <2>3, <2>4, QueryType
    <2>6. ShownOK'
        BY <1>0, <2>3 DEF ShownOK
    <2>7. StoreOK'
        BY <1>0, <2>3 DEF StoreOK
    <2> QED
        BY <2>5, <2>6, <2>7, TypePartsPrimed
<1>7. ASSUME NEW k \in {"newest", "older"}, Ready(k) PROVE TypeOK'
    <2>1. RequestOK' /\ UNCHANGED <<list, rows, lastId, filter, first, failed>>
        BY <1>7, ReadyList
    <2>2. StoreOK'
        BY <1>0, <2>1 DEF StoreOK
    <2>3. CASE k = "older"
        <3>1. UNCHANGED <<raw, cursor, more>>
            BY <1>7, <2>3, ReadyList
        <3>2. ShownOK'
            BY <1>0, <3>1 DEF ShownOK
        <3> QED
            BY <2>1, <2>2, <3>2, TypePartsPrimed
    <2>4. CASE k = "newest"
        <3> DEFINE page == request.newest.rows
        <3>1. /\ page \in Seq(Row)
              /\ raw' = raw \o page
              /\ cursor' = IF page = <<>> THEN cursor ELSE Last(page)
              /\ more' = MoreAfter(page)
            BY <1>7, <2>4, ReadyList
        <3>2. raw \in Seq(Row)
            BY <1>0 DEF ShownOK
        <3>3. raw' \in Seq(Row)
            BY <3>1, <3>2, Concatenation
        <3>4. more' \in BOOLEAN
            BY <3>1, Zenon DEF MoreAfter
        <3>5. cursor' = IF raw' = <<>> THEN None ELSE Last(raw')
            <4> HIDE DEF page
            <4>1. CASE page = <<>>
                <5>1. raw' = raw
                    BY <3>1, <3>2, <4>1, ConcatEmptySeq
                <5> QED
                    BY <1>0, <3>1, <4>1, <5>1 DEF ShownOK
            <4>2. CASE page # <<>>
                <5>1. /\ Len(page) \in 1..Len(page) /\ Len(page) \in Nat
                      /\ Last(page) = page[Len(page)]
                    BY <3>1, <4>2, LastRow
                <5>2. Len(raw') = Len(raw) + Len(page) /\ raw'[Len(raw) + Len(page)] = page[Len(page)]
                    BY <3>1, <3>2, <5>1, Concatenation
                <5>3. Len(raw) \in Nat
                    BY <3>2, LenProperties
                <5>4. raw' # <<>>
                    BY <5>1, <5>2, <5>3, EmptySeq
                <5>5. Last(raw') = raw'[Len(raw')]
                    BY <3>3, <5>4, LastRow
                <5> QED
                    BY <3>1, <4>2, <5>1, <5>2, <5>4, <5>5
            <4> QED
                BY <4>1, <4>2
        <3>6. ShownOK'
            BY <3>3, <3>4, <3>5 DEF ShownOK
        <3> QED
            BY <2>1, <2>2, <3>6, TypePartsPrimed
    <2> QED
        BY <2>3, <2>4
<1>8. CASE UNCHANGED vars
    <2>1. StoreOK' /\ ShownOK' /\ RequestOK'
        BY <1>0, <1>8 DEF vars, database, feed, StoreOK, ShownOK, RequestOK
    <2> QED
        BY <2>1, TypePartsPrimed
<1> QED
    BY <1>1, <1>2, <1>3, <1>4, <1>5, <1>6, <1>7, <1>8 DEF Next

\* The feed and the timeline keep lists of evidence with the cursor at their
\* end, and every request asks for a page of it.
THEOREM TypeInvariant == Spec => []TypeOK
BY TypeInit, TypeStep, PTL DEF Spec

-----------------------------------------------------------------------------
(* The steps that change the list, or what its next page depends on.       *)

\* A refresh starts the list anew.
LEMMA ResetStep ==
    ASSUME IInv, NEW f \in Filters, Reset(f)
    PROVE  IInv'
<1>1. TypeOK /\ [Next]_vars
    BY DEF IInv, Next
<1>2. TypeOK'
    BY <1>1, TypeStep
<1>3. /\ raw' = <<>> /\ cursor' = None /\ first' = {} /\ filter' = f
      /\ request'.newest = Asked(f, None)
    BY <1>1, SubmitType DEF Reset
<1>4. AskedNow' /\ AnswerContinues'
    BY <1>3 DEF AskedNow, AnswerContinues, Asked
<1>5. InOrder'
    BY <1>3 DEF InOrder, Sorted
<1>6. LacksOnlyOlder' /\ NothingOlder'
    BY <1>3 DEF LacksOnlyOlder, NothingOlder
<1> QED
    BY <1>2, <1>4, <1>5, <1>6 DEF IInv

\* The next page is asked for at the cursor.
LEMMA LoadMoreStep ==
    ASSUME IInv, LoadMore
    PROVE  IInv'
<1>1. TypeOK /\ [Next]_vars
    BY DEF IInv, Next
<1>2. TypeOK'
    BY <1>1, TypeStep
<1>3. filter \in Filters /\ Submit(filter, cursor)
    BY <1>1 DEF TypeOK, LoadMore
<1>4. request'.newest = Asked(filter, cursor)
    BY <1>1, <1>3, CursorType, SubmitType
<1>5. UNCHANGED <<raw, cursor, more, filter, first>> /\ more
    BY DEF LoadMore, feed
<1>6. AskedNow' /\ AnswerContinues'
    BY <1>4, <1>5 DEF AskedNow, AnswerContinues, Asked
<1>7. InOrder' /\ LacksOnlyOlder'
    BY <1>5 DEF IInv, InOrder, LacksOnlyOlder
<1>8. NothingOlder'
    BY <1>5 DEF NothingOlder
<1> QED
    BY <1>2, <1>6, <1>7, <1>8 DEF IInv

\* A query that fails leaves the list as it is.
LEMMA FailsStep ==
    ASSUME IInv, FeedFails \/ TimelineFails
    PROVE  IInv'
<1>1. TypeOK /\ [Next]_vars
    BY DEF IInv, Next
<1>2. TypeOK'
    BY <1>1, TypeStep
<1>3. /\ request.newest # None /\ request.newest.step = "sent"
      /\ UNCHANGED <<list, raw, cursor, filter, first>> /\ failed' = TRUE
      /\ request' = [request EXCEPT !.newest = None]
      /\ list = "timeline" \/ more' = more
    BY DEF FeedFails, TimelineFails, Fails
<1>4. request'.newest = None
    BY <1>1, <1>3 DEF TypeOK
<1>5. AskedNow' /\ AnswerContinues'
    BY <1>4 DEF AskedNow, AnswerContinues
<1>6. InOrder' /\ LacksOnlyOlder'
    BY <1>3 DEF IInv, InOrder, LacksOnlyOlder
<1>7. CASE list = "timeline"
    BY <1>2, <1>3, <1>4, <1>5, <1>6, <1>7 DEF IInv, NothingOlder
<1>8. CASE more' = more
    <2>1. ~more => first = {}
        BY <1>3 DEF IInv, NothingOlder
    <2>2. NothingOlder'
        BY <1>3, <1>4, <1>8, <2>1 DEF NothingOlder
    <2> QED
        BY <1>2, <1>5, <1>6, <2>2 DEF IInv
<1> QED
    BY <1>3, <1>7, <1>8

\* The answer to the newest query continues the list.
LEMMA QueryStep ==
    ASSUME IInv, NEW k \in {"newest", "older"}, QueryFeed(k) \/ QueryTimeline(k)
    PROVE  IInv'
<1>1. TypeOK /\ [Next]_vars
    BY DEF IInv, Next
<1>2. TypeOK'
    BY <1>1, TypeStep
<1>3. PICK matching \in SUBSET rows :
          /\ k = "newest" /\ AskedNow =>
                matching = {r \in rows : Matches(r, filter) /\ Older(r, cursor)}
          /\ \E page \in Pages(matching) :
                request' = [request EXCEPT ![k].step = "answered", ![k].rows = page]
    BY <1>1, QueryPages
<1>4. PICK page \in Pages(matching) :
          request' = [request EXCEPT ![k].step = "answered", ![k].rows = page]
    BY <1>3
<1>5. /\ request[k] # None /\ request[k].step = "sent"
      /\ first' = IF k = "newest" /\ raw = <<>> THEN rows ELSE first
      /\ UNCHANGED <<list, rows, lastId, filter, raw, cursor, more, failed>>
    BY <1>1, QueryPages
<1>6. matching \in SUBSET Row
    BY <1>1, <1>3 DEF TypeOK
<1>7. page \in Seq(Row)
    BY <1>6, PageFacts
<1>8. InOrder'
    BY <1>5 DEF IInv, InOrder
<1>9. CASE k = "older"
    <2>1. request'.newest = request.newest /\ first' = first
        BY <1>1, <1>4, <1>5, <1>7, <1>9, QueryType
    <2>2. AskedNow' /\ LacksOnlyOlder'
        BY <1>5, <2>1 DEF IInv, AskedNow, LacksOnlyOlder
    <2>3. AnswerContinues'
        BY <1>5, <2>1 DEF IInv, AnswerContinues, Continues
    <2>4. NothingOlder'
        BY <1>5, <2>1 DEF IInv, NothingOlder
    <2> QED
        BY <1>2, <1>8, <2>2, <2>3, <2>4 DEF IInv
<1>10. CASE k = "newest"
    <2>1. /\ request'.newest # None /\ request'.newest.step = "answered"
          /\ request'.newest.rows = page
          /\ request'.newest.filter = request.newest.filter
          /\ request'.newest.before = request.newest.before
        BY <1>1, <1>4, <1>5, <1>7, <1>10, QueryType
    <2>2. AskedNow /\ AskedNow'
        BY <1>5, <1>10, <2>1 DEF IInv, AskedNow
    <2>3. matching = {r \in rows : Matches(r, filter) /\ Older(r, cursor)}
        BY <1>3, <1>10, <2>2
    <2>4. first' \subseteq rows
        BY <1>1, <1>5 DEF TypeOK
    <2>5. /\ Sorted(page)
          /\ \A i \in DOMAIN page : page[i] \in matching
          /\ \A r \in matching \ Range(page) : Len(page) = PageSize /\ Before(Last(page), r)
        BY <1>6, PageFacts
    <2>6. Continues(page)'
        BY <1>5, <2>3, <2>4, <2>5 DEF Continues
    <2>7. AnswerContinues'
        BY <2>1, <2>6 DEF AnswerContinues
    <2>8. LacksOnlyOlder'
        <3>1. CASE raw = <<>>
            BY <1>1, <1>5, <3>1 DEF TypeOK, LacksOnlyOlder, Older
        <3>2. CASE raw # <<>>
            BY <1>5, <3>2 DEF IInv, LacksOnlyOlder
        <3> QED
            BY <3>1, <3>2
    <2>9. NothingOlder'
        BY <1>5, <1>10, <2>1 DEF IInv, NothingOlder
    <2> QED
        BY <1>2, <1>8, <2>2, <2>7, <2>8, <2>9 DEF IInv
<1> QED
    BY <1>9, <1>10

\* The page that continues the list is appended to it, and the cursor moves to
\* its end; what the list still lacks lies beyond it, and a page that is not
\* full was the last.
LEMMA ReadyStep ==
    ASSUME IInv, NEW k \in {"newest", "older"}, Ready(k)
    PROVE  IInv'
<1>1. TypeOK /\ [Next]_vars
    BY DEF IInv, Next
<1>2. TypeOK'
    BY <1>1, TypeStep
<1>3. /\ request[k] # None /\ request[k].step = "answered"
      /\ request'[k] = None
      /\ UNCHANGED <<list, rows, lastId, filter, first, failed>>
    BY <1>1, ReadyList
<1>4. CASE k = "older"
    <2>1. UNCHANGED <<raw, cursor, more>> /\ request'.newest = request.newest
        BY <1>1, <1>4, ReadyList
    <2>2. AskedNow' /\ LacksOnlyOlder' /\ InOrder'
        BY <1>3, <2>1 DEF IInv, AskedNow, LacksOnlyOlder, InOrder
    <2>3. AnswerContinues'
        BY <1>3, <2>1 DEF IInv, AnswerContinues, Continues
    <2>4. NothingOlder'
        BY <1>3, <2>1 DEF IInv, NothingOlder
    <2> QED
        BY <1>2, <2>2, <2>3, <2>4 DEF IInv
<1>5. CASE k = "newest"
    <2>1. PICK page \in Seq(Row) :
              /\ page = request.newest.rows
              /\ raw' = raw \o page
              /\ cursor' = IF page = <<>> THEN cursor ELSE Last(page)
              /\ more' = MoreAfter(page)
        BY <1>1, <1>5, ReadyList
    <2>2. raw \in Seq(Row) /\ Len(raw) \in Nat /\ Len(page) \in Nat
            /\ DOMAIN raw = 1..Len(raw) /\ DOMAIN page = 1..Len(page)
        BY <1>1, <2>1, LenProperties DEF TypeOK
    <2>3. Continues(page)
        BY <1>3, <1>5, <2>1 DEF IInv, AnswerContinues
    <2>4. /\ raw' \in Seq(Row) /\ DOMAIN raw' = 1..Len(raw) + Len(page)
          /\ Range(raw') = Range(raw) \cup Range(page)
          /\ \A i \in 1..Len(raw) : raw'[i] = raw[i]
          /\ \A i \in 1..Len(page) : raw'[Len(raw) + i] = page[i]
        BY <2>1, <2>2, Concatenation, LenProperties
    <2>5. \A i \in DOMAIN raw' : \/ i \in DOMAIN raw /\ raw'[i] = raw[i]
                                 \/ /\ i - Len(raw) \in DOMAIN page /\ i > Len(raw)
                                    /\ raw'[i] = page[i - Len(raw)]
        <3>1. ASSUME NEW i \in DOMAIN raw', i \notin DOMAIN raw
              PROVE  /\ i - Len(raw) \in DOMAIN page /\ i > Len(raw)
                     /\ raw'[i] = page[i - Len(raw)]
            <4>1. i - Len(raw) \in 1..Len(page) /\ i > Len(raw) /\ Len(raw) + (i - Len(raw)) = i
                BY <2>2, <2>4, <3>1
            <4> QED
                BY <2>2, <2>4, <4>1
        <3> QED
            BY <2>2, <2>4, <3>1
    <2>6. InOrder'
        <3>1. \A i \in DOMAIN raw' : Matches(raw'[i], filter')
            BY <1>3, <2>3, <2>5 DEF IInv, InOrder, Continues
        <3>2. ASSUME NEW i \in DOMAIN raw', NEW j \in DOMAIN raw', i < j
              PROVE  Before(raw'[i], raw'[j])
            <4>1. CASE i \in DOMAIN raw /\ j \in DOMAIN raw
                BY <2>2, <2>4, <3>2, <4>1 DEF IInv, InOrder, Sorted
            <4>2. CASE i \in DOMAIN raw /\ j \notin DOMAIN raw
                <5>1. j - Len(raw) \in DOMAIN page /\ raw'[j] = page[j - Len(raw)]
                    BY <2>5, <4>2
                <5>2. raw # <<>> /\ cursor = Last(raw) /\ cursor \in Row /\ cursor # None
                    BY <1>1, <2>2, <4>2, LastRow DEF TypeOK
                <5>3. Before(cursor, raw'[j])
                    BY <2>3, <5>1, <5>2 DEF Continues, Older
                <5>4. raw'[i] = raw[i] /\ raw[i] \in Range(raw) /\ raw[i] \in Row
                        /\ raw'[j] \in Row
                    BY <2>1, <2>2, <2>5, <4>2, <5>1, RowAt
                <5>5. raw[i] = cursor \/ Before(raw[i], cursor)
                    BY <2>2, <5>2, <5>4, LastIsOldest DEF IInv, InOrder
                <5> QED
                    BY <5>2, <5>3, <5>4, <5>5, BeforeTransitive
            <4>3. CASE i \notin DOMAIN raw
                <5>1. i - Len(raw) \in DOMAIN page /\ raw'[i] = page[i - Len(raw)]
                        /\ i > Len(raw)
                    BY <2>5, <4>3
                <5>2. j \notin DOMAIN raw /\ i - Len(raw) < j - Len(raw)
                    BY <2>2, <2>4, <3>2, <5>1
                <5>3. j - Len(raw) \in DOMAIN page /\ raw'[j] = page[j - Len(raw)]
                    BY <2>5, <5>2
                <5> QED
                    BY <2>3, <5>1, <5>2, <5>3 DEF Continues, Sorted
            <4> QED
                BY <4>1, <4>2, <4>3
        <3> QED
            BY <3>1, <3>2 DEF InOrder, Sorted
    <2>7. AskedNow' /\ AnswerContinues'
        BY <1>3, <1>5 DEF AskedNow, AnswerContinues
    <2>8. ASSUME NEW r \in first', Matches(r, filter'), r \notin Range(raw')
          PROVE  Len(page) = PageSize /\ Before(Last(page), r)
        <3>1. r \in first /\ Matches(r, filter) /\ r \notin Range(raw) /\ r \notin Range(page)
            BY <1>3, <2>4, <2>8
        <3>2. Older(r, cursor)
            BY <3>1 DEF IInv, LacksOnlyOlder
        <3> QED
            BY <2>3, <3>1, <3>2 DEF Continues
    <2>9. LacksOnlyOlder'
        <3>1. ASSUME NEW r \in first', Matches(r, filter'), r \notin Range(raw')
              PROVE  Older(r, cursor')
            <4>1. Len(page) = PageSize /\ Before(Last(page), r)
                BY <2>8, <3>1
            <4>2. page # <<>>
                BY <4>1, EmptySeq, FeedAssumption
            <4> QED
                BY <2>1, <4>1, <4>2 DEF Older
        <3> QED
            BY <3>1 DEF LacksOnlyOlder
    <2>10. NothingOlder'
        <3>1. ASSUME ~more', NEW r \in first', Matches(r, filter') PROVE r \in Range(raw')
            <4>1. Len(page) # PageSize
                BY <2>1, <3>1 DEF MoreAfter
            <4> QED
                BY <2>8, <3>1, <4>1
        <3>2. request'.newest = None
            BY <1>3, <1>5
        <3> QED
            BY <3>1, <3>2 DEF NothingOlder
    <2> QED
        BY <1>2, <2>6, <2>7, <2>9, <2>10 DEF IInv
<1> QED
    BY <1>4, <1>5

-----------------------------------------------------------------------------
(* The invariant.                                                          *)

LEMMA IInvInit == Init => IInv
<1> SUFFICES ASSUME Init PROVE IInv
    OBVIOUS
<1>1. TypeOK
    BY TypeInit
<1>2. /\ raw = <<>> /\ cursor = None /\ more = TRUE /\ first = {}
      /\ request.newest = Asked(filter, None)
    BY DEF Init
<1>3. AskedNow /\ AnswerContinues
    BY <1>2 DEF AskedNow, AnswerContinues, Asked
<1>4. InOrder /\ LacksOnlyOlder /\ NothingOlder
    BY <1>2 DEF InOrder, Sorted, LacksOnlyOlder, NothingOlder
<1> QED
    BY <1>1, <1>3, <1>4 DEF IInv

\* New evidence is not in what the first page's reading saw.
LEMMA EvidenceStep ==
    ASSUME IInv, Evidence
    PROVE  IInv'
<1>1. TypeOK'
    BY TypeStep DEF IInv, Next
<1>2. UNCHANGED <<list, filter, raw, cursor, more, request, first, failed>>
    BY DEF Evidence, feed
<1>3. AskedNow' /\ InOrder' /\ LacksOnlyOlder' /\ NothingOlder'
    BY <1>2 DEF IInv, AskedNow, InOrder, LacksOnlyOlder, NothingOlder
<1>4. AnswerContinues'
    BY <1>2 DEF IInv, AnswerContinues, Continues
<1> QED
    BY <1>1, <1>3, <1>4 DEF IInv

\* What is pruned need not be shown any more.
LEMMA PruneStep ==
    ASSUME IInv, Prune
    PROVE  IInv'
<1>1. TypeOK'
    BY TypeStep DEF IInv, Next
<1>2. UNCHANGED <<list, filter, raw, cursor, more, request, failed>> /\ first' \subseteq first
    BY DEF Prune, feed
<1>3. AskedNow' /\ InOrder' /\ LacksOnlyOlder' /\ NothingOlder'
    BY <1>2 DEF IInv, AskedNow, InOrder, LacksOnlyOlder, NothingOlder
<1>4. AnswerContinues'
    BY <1>2 DEF IInv, AnswerContinues, Continues
<1> QED
    BY <1>1, <1>3, <1>4 DEF IInv

LEMMA IInvStep == IInv /\ [Next]_vars => IInv'
<1> SUFFICES ASSUME IInv, [Next]_vars PROVE IInv'
    OBVIOUS
<1>1. CASE UNCHANGED vars
    <2>1. TypeOK'
        BY TypeStep DEF IInv
    <2>2. UNCHANGED <<list, filter, raw, cursor, more, request, first, failed>>
        BY <1>1 DEF vars, feed
    <2>3. AskedNow' /\ InOrder' /\ LacksOnlyOlder' /\ NothingOlder'
        BY <2>2 DEF IInv, AskedNow, InOrder, LacksOnlyOlder, NothingOlder
    <2>4. AnswerContinues'
        BY <2>2 DEF IInv, AnswerContinues, Continues
    <2> QED
        BY <2>1, <2>3, <2>4 DEF IInv
<1> QED
    BY <1>1, EvidenceStep, PruneStep, ResetStep, LoadMoreStep, FailsStep, QueryStep, ReadyStep
    DEF Next

THEOREM Invariant == Spec => []IInv
BY IInvInit, IInvStep, PTL DEF Spec

-----------------------------------------------------------------------------
(* What it implies.                                                        *)

LEMMA CompleteFollows == IInv => FeedComplete
<1> SUFFICES ASSUME IInv PROVE FeedComplete
    OBVIOUS
<1>1. raw \in Seq(Row) /\ Len(raw) \in Nat /\ DOMAIN raw = 1..Len(raw)
    BY LenProperties DEF IInv, TypeOK
<1>2. ASSUME NEW i \in 2..Len(raw) PROVE Before(raw[i - 1], raw[i])
    <2>1. i - 1 \in DOMAIN raw /\ i \in DOMAIN raw /\ i - 1 < i
        BY <1>1
    <2> QED
        BY <2>1 DEF IInv, InOrder, Sorted
<1>3. \A i \in DOMAIN raw : Matches(raw[i], filter)
    BY DEF IInv, InOrder
<1>4. \A r \in first :
          Matches(r, filter) /\ cursor # None /\ ~Older(r, cursor) => r \in Range(raw)
    BY DEF IInv, LacksOnlyOlder
<1> QED
    BY <1>2, <1>3, <1>4 DEF FeedComplete

LEMMA EndFollows == IInv => EndIsTheEnd
BY DEF IInv, NothingOlder, EndIsTheEnd

\* The list is in order, without repetition and as the controls ask, and lacks
\* nothing above its cursor that its first page could have seen.
THEOREM ListIsComplete == Spec => []FeedComplete
BY Invariant, CompleteFollows, PTL

\* When no older events are offered there are none, but for a timeline whose
\* newest query has failed.
THEOREM EndOfList == Spec => []EndIsTheEnd
BY Invariant, EndFollows, PTL

-----------------------------------------------------------------------------
(* The bursts.  What the recursive functions FlattenSeq and Bursts compute   *)
(* is a function that satisfies their recursion; it exists, and FlattenSeq's *)
(* is the only one.                                                          *)

\* Induction on the naturals, stated of a set.
LEMMA Induct ==
    ASSUME NEW S, 0 \in S, \A n \in Nat : n \in S => n + 1 \in S
    PROVE  Nat \subseteq S
<1> SUFFICES ASSUME Nat \ S # {} PROVE FALSE
    OBVIOUS
<1>1. PICK x \in Nat \ S : \A y \in Nat \ S : ~(<<y, x>> \in OpToRel(<, Nat))
    BY NatLessThanWellFounded, WFMin
<1>2. x - 1 \in Nat /\ x - 1 \notin S
    <2>1. x # 0
        OBVIOUS
    <2>2. x - 1 \in Nat /\ (x - 1) + 1 = x
        BY <2>1
    <2> QED
        BY <2>2
<1>3. <<x - 1, x>> \in OpToRel(<, Nat)
    BY <1>2 DEF OpToRel
<1> QED
    BY <1>1, <1>2, <1>3

\* The functions that FlattenSeq and Bursts build, step by step.
Flattens(f, b) ==
    f = [i \in 1..Len(b) |-> IF i = 1 THEN b[i] ELSE f[i - 1] \o b[i]]

Collapses(f, s) ==
    f = [n \in 0..Len(s) |-> IF n = 0 THEN <<>> ELSE Taken(f[n - 1], s[n])]

\* f is such a function up to n.
FlattensTo(f, b, n) ==
    \A i \in 1..n : f[i] = IF i = 1 THEN b[i] ELSE f[i - 1] \o b[i]

\* Every sequence has its function.
LEMMA FlatteningExists ==
    ASSUME NEW b, Len(b) \in Nat
    PROVE  \E f : Flattens(f, b)
<1> DEFINE S == {n \in Nat : \E f : f = [i \in 1..n |-> IF i = 1 THEN b[i] ELSE f[i - 1] \o b[i]]}
<1>1. 0 \in S
    <2>1. [i \in 1..0 |-> b] =
              [i \in 1..0 |-> IF i = 1 THEN b[i] ELSE [j \in 1..0 |-> b][i - 1] \o b[i]]
        OBVIOUS
    <2> QED
        BY <2>1
<1>2. ASSUME NEW n \in Nat, n \in S PROVE n + 1 \in S
    <2>1. PICK f : f = [i \in 1..n |-> IF i = 1 THEN b[i] ELSE f[i - 1] \o b[i]]
        BY <1>2
    <2> DEFINE next == IF n + 1 = 1 THEN b[n + 1] ELSE f[n] \o b[n + 1]
               g    == [i \in 1..n + 1 |-> IF i = n + 1 THEN next ELSE f[i]]
    <2>2. ASSUME NEW i \in 1..n + 1
          PROVE  g[i] = IF i = 1 THEN b[i] ELSE g[i - 1] \o b[i]
        <3>1. CASE i = n + 1
            <4>1. i # 1 => i - 1 \in 1..n + 1 /\ i - 1 # n + 1
                BY <3>1
            <4>2. i # 1 => g[i - 1] = f[i - 1]
                BY <4>1
            <4> QED
                BY <3>1, <4>2
        <3>2. CASE i # n + 1
            <4>1. i \in 1..n /\ (i # 1 => i - 1 \in 1..n + 1 /\ i - 1 # n + 1)
                BY <3>2
            <4>2. g[i] = f[i]
                BY <4>1
            <4>3. f[i] = IF i = 1 THEN b[i] ELSE f[i - 1] \o b[i]
                BY <2>1, <4>1
            <4>4. i # 1 => g[i - 1] = f[i - 1]
                BY <4>1
            <4> QED
                BY <4>2, <4>3, <4>4
        <3> QED
            BY <3>1, <3>2
    <2> HIDE DEF g
    <2>3. g = [i \in 1..n + 1 |-> g[i]]
        BY DEF g
    <2>4. g = [i \in 1..n + 1 |-> IF i = 1 THEN b[i] ELSE g[i - 1] \o b[i]]
        BY <2>2, <2>3
    <2>5. \E h : h = [i \in 1..n + 1 |-> IF i = 1 THEN b[i] ELSE h[i - 1] \o b[i]]
        BY <2>4
    <2>6. n + 1 \in Nat
        OBVIOUS
    <2> QED
        BY <2>5, <2>6, Zenon
<1> HIDE DEF S
<1>3. Len(b) \in S
    BY <1>1, <1>2, Induct
<1> QED
    BY <1>3 DEF S, Flattens

\* And only one.
LEMMA FlatteningUnique ==
    ASSUME NEW b, NEW n \in Nat, NEW f, NEW g,
           FlattensTo(f, b, n), FlattensTo(g, b, n)
    PROVE  \A i \in 1..n : f[i] = g[i]
<1> DEFINE S == {i \in Nat : i \in 1..n => f[i] = g[i]}
<1>1. 0 \in S
    OBVIOUS
<1>2. ASSUME NEW i \in Nat, i \in S PROVE i + 1 \in S
    <2>1. CASE i + 1 \in 1..n
        <3>1. (i + 1) - 1 = i /\ (i + 1 # 1 => i \in 1..n)
            BY <2>1
        <3> QED
            BY <1>2, <2>1, <3>1 DEF FlattensTo
    <2> QED
        BY <2>1
<1> HIDE DEF S
<1>3. Nat \subseteq S
    BY <1>1, <1>2, Induct
<1> QED
    BY <1>3 DEF S

\* FlattenSeq is what the function of its sequence ends with.
LEMMA FlattenIs ==
    ASSUME NEW b, Len(b) \in Nat \ {0}, NEW f, Flattens(f, b)
    PROVE  FlattenSeq(b) = f[Len(b)]
<1> DEFINE flatten[i \in 1..Len(b)] == IF i = 1 THEN b[i] ELSE flatten[i - 1] \o b[i]
<1>1. flatten = [i \in 1..Len(b) |-> IF i = 1 THEN b[i] ELSE flatten[i - 1] \o b[i]]
    BY Zenon DEF flatten, Flattens
<1>2. FlattenSeq(b) = flatten[Len(b)]
    BY Zenon DEF FlattenSeq, flatten
<1> HIDE DEF flatten
<1>3. \A i \in 1..Len(b) : flatten[i] = f[i]
    <2>1. FlattensTo(flatten, b, Len(b))
        BY <1>1 DEF FlattensTo
    <2>2. FlattensTo(f, b, Len(b))
        BY DEF Flattens, FlattensTo
    <2>3. Len(b) \in Nat
        OBVIOUS
    <2> QED
        BY <2>1, <2>2, <2>3, FlatteningUnique, SMTT(20)
<1> QED
    BY <1>2, <1>3

\* The function that takes one row after the other exists.
LEMMA CollapsingExists ==
    ASSUME NEW s, Len(s) \in Nat
    PROVE  \E f : Collapses(f, s)
<1> DEFINE S == {n \in Nat :
                    \E f : f = [i \in 0..n |-> IF i = 0 THEN <<>> ELSE Taken(f[i - 1], s[i])]}
<1>1. 0 \in S
    <2>1. [i \in 0..0 |-> <<>>] =
              [i \in 0..0 |-> IF i = 0 THEN <<>> ELSE Taken([j \in 0..0 |-> <<>>][i - 1], s[i])]
        OBVIOUS
    <2> QED
        BY <2>1
<1>2. ASSUME NEW n \in Nat, n \in S PROVE n + 1 \in S
    <2>1. PICK f : f = [i \in 0..n |-> IF i = 0 THEN <<>> ELSE Taken(f[i - 1], s[i])]
        BY <1>2
    <2> DEFINE g == [i \in 0..n + 1 |-> IF i = n + 1 THEN Taken(f[n], s[n + 1]) ELSE f[i]]
    <2>2. ASSUME NEW i \in 0..n + 1
          PROVE  g[i] = IF i = 0 THEN <<>> ELSE Taken(g[i - 1], s[i])
        <3>1. CASE i = n + 1
            <4>1. i # 0 /\ i - 1 = n /\ n \in 0..n + 1 /\ n # n + 1
                BY <3>1
            <4>2. g[i - 1] = f[n] /\ g[i] = Taken(f[n], s[n + 1])
                BY <3>1, <4>1
            <4> QED
                BY <3>1, <4>1, <4>2
        <3>2. CASE i # n + 1
            <4>1. i \in 0..n /\ (i # 0 => i - 1 \in 0..n + 1 /\ i - 1 # n + 1)
                BY <3>2
            <4>2. g[i] = f[i]
                BY <4>1
            <4>3. f[i] = IF i = 0 THEN <<>> ELSE Taken(f[i - 1], s[i])
                BY <2>1, <4>1
            <4>4. i # 0 => g[i - 1] = f[i - 1]
                BY <4>1
            <4> QED
                BY <4>2, <4>3, <4>4
        <3> QED
            BY <3>1, <3>2
    <2> HIDE DEF g
    <2>3. g = [i \in 0..n + 1 |-> g[i]]
        BY DEF g
    <2>4. g = [i \in 0..n + 1 |-> IF i = 0 THEN <<>> ELSE Taken(g[i - 1], s[i])]
        BY <2>2, <2>3
    <2> QED
        BY <2>4
<1> HIDE DEF S
<1>3. Len(s) \in S
    BY <1>1, <1>2, Induct
<1> QED
    BY <1>3 DEF S, Collapses

\* Bursts is what it ends with.
LEMMA BurstsCollapse ==
    ASSUME NEW s, Len(s) \in Nat
    PROVE  \E f : Collapses(f, s) /\ Bursts(s) = f[Len(s)]
<1> DEFINE after[n \in 0..Len(s)] == IF n = 0 THEN <<>> ELSE Taken(after[n - 1], s[n])
<1>1. PICK f : Collapses(f, s)
    BY CollapsingExists
<1>2. Collapses(after, s)
    BY <1>1, Zenon DEF after, Collapses
<1>3. Bursts(s) = after[Len(s)]
    BY Zenon DEF Bursts, after
<1> QED
    BY <1>2, <1>3

\* No bursts have no rows.
LEMMA FlattenEmpty == FlattenSeq(<<>>) = <<>>
<1>1. Len(<<>>) = 0
    BY EmptySeq
<1> QED
    BY <1>1, Zenon DEF FlattenSeq

\* The rows of bursts are a list of rows.
LEMMA FlattenType ==
    ASSUME NEW b \in Seq(Seq(Row))
    PROVE  FlattenSeq(b) \in Seq(Row)
<1>1. Len(b) \in Nat /\ DOMAIN b = 1..Len(b) /\ \A i \in 1..Len(b) : b[i] \in Seq(Row)
    BY LenProperties, ElementOfSeq
<1>2. PICK f : Flattens(f, b)
    BY <1>1, FlatteningExists
<1>3. FlattensTo(f, b, Len(b))
    BY <1>2 DEF Flattens, FlattensTo
<1> DEFINE S == {i \in Nat : i \in 1..Len(b) => f[i] \in Seq(Row)}
<1>4. ASSUME NEW i \in Nat, i \in S PROVE i + 1 \in S
    <2>1. CASE i + 1 \in 1..Len(b)
        <3>1. (i + 1) - 1 = i /\ (i + 1 # 1 => i \in 1..Len(b))
            BY <2>1
        <3>2. b[i + 1] \in Seq(Row)
            BY <1>1, <2>1
        <3>3. CASE i + 1 = 1
            <4>1. f[i + 1] = b[i + 1]
                BY <1>3, <2>1, <3>3 DEF FlattensTo
            <4> QED
                BY <3>2, <4>1
        <3>4. CASE i + 1 # 1
            <4>1. f[i + 1] = f[i] \o b[i + 1]
                BY <1>3, <2>1, <3>1, <3>4 DEF FlattensTo
            <4>2. f[i] \in Seq(Row)
                BY <1>4, <3>1, <3>4
            <4>3. f[i] \o b[i + 1] \in Seq(Row)
                BY <3>2, <4>2, ConcatProperties
            <4>4. f[i + 1] \in Seq(Row) /\ i + 1 \in Nat
                BY <4>1, <4>3
            <4> QED
                BY <4>4
        <3> QED
            BY <3>3, <3>4
    <2> QED
        BY <2>1
<1>5. 0 \in S
    OBVIOUS
<1> HIDE DEF S
<1>6. Nat \subseteq S
    BY <1>4, <1>5, Induct
<1>7. CASE b = <<>>
    BY <1>7, FlattenEmpty, EmptySeq
<1>8. CASE b # <<>>
    <2>1. Len(b) \in Nat \ {0}
        BY <1>8, EmptySeq
    <2>2. FlattenSeq(b) = f[Len(b)]
        BY <1>2, <2>1, FlattenIs
    <2>3. Len(b) \in S /\ Len(b) \in 1..Len(b)
        BY <1>6, <2>1
    <2> QED
        BY <2>2, <2>3 DEF S
<1> QED
    BY <1>7, <1>8

\* Another burst adds its rows to those of the bursts before it.
LEMMA FlattenAppend ==
    ASSUME NEW b \in Seq(Seq(Row)), NEW x \in Seq(Row)
    PROVE  FlattenSeq(Append(b, x)) = FlattenSeq(b) \o x
<1> DEFINE c == Append(b, x)
<1>1. /\ Len(b) \in Nat /\ c \in Seq(Seq(Row)) /\ Len(c) = Len(b) + 1
      /\ \A i \in 1..Len(b) : c[i] = b[i]
      /\ c[Len(b) + 1] = x
    BY LenProperties, AppendProperties
<1> HIDE DEF c
<1>2. PICK f : Flattens(f, c)
    BY <1>1, FlatteningExists
<1>3. FlattenSeq(c) = f[Len(b) + 1]
    BY <1>1, <1>2, FlattenIs
<1>4. FlattensTo(f, c, Len(b) + 1)
    BY <1>1, <1>2 DEF Flattens, FlattensTo
<1>5. CASE b = <<>>
    <2>1. Len(b) = 0
        BY <1>5, EmptySeq
    <2>2. f[Len(b) + 1] = x
        BY <1>1, <1>4, <2>1 DEF FlattensTo
    <2>3. FlattenSeq(b) \o x = x
        BY <1>5, FlattenEmpty, ConcatEmptySeq
    <2> QED
        BY <1>3, <2>2, <2>3 DEF c
<1>6. CASE b # <<>>
    <2>1. Len(b) \in Nat \ {0}
        BY <1>6, EmptySeq
    <2>2. PICK g : Flattens(g, b)
        BY <1>1, FlatteningExists
    <2>3. FlattenSeq(b) = g[Len(b)]
        BY <2>1, <2>2, FlattenIs
    <2>4. FlattensTo(g, b, Len(b))
        BY <2>2 DEF Flattens, FlattensTo
    <2>5. FlattensTo(f, b, Len(b))
        BY <1>1, <1>4 DEF FlattensTo
    <2>6. f[Len(b)] = g[Len(b)]
        <3>1. \A i \in 1..Len(b) : f[i] = g[i]
            <4>1. Len(b) \in Nat
                BY <1>1
            <4> QED
                BY <2>4, <2>5, <4>1, FlatteningUnique, SMTT(20)
        <3> QED
            BY <2>1, <3>1
    <2>7. f[Len(b) + 1] = f[Len(b)] \o x
        <3>1. Len(b) + 1 \in 1..Len(b) + 1 /\ Len(b) + 1 # 1 /\ (Len(b) + 1) - 1 = Len(b)
            BY <2>1
        <3> QED
            BY <1>1, <1>4, <3>1 DEF FlattensTo
    <2> QED
        BY <1>3, <2>3, <2>6, <2>7 DEF c
<1> QED
    BY <1>5, <1>6

\* A function of the first n naturals is a sequence of that length.
LEMMA FunctionIsList ==
    ASSUME NEW S, NEW n \in Nat, NEW f \in [1..n -> S]
    PROVE  f \in Seq(S) /\ Len(f) = n
<1>1. f \in Seq(S)
    BY SeqDef
<1>2. DOMAIN f = 1..n /\ DOMAIN f = 1..Len(f) /\ Len(f) \in Nat
    BY <1>1, LenProperties
<1> QED
    BY <1>1, <1>2

\* What is appended to the second of two lists ends both.
LEMMA AppendToConcat ==
    ASSUME NEW s \in Seq(Row), NEW t \in Seq(Row), NEW r \in Row
    PROVE  s \o Append(t, r) = Append(s \o t, r)
<1>1. <<r>> \in Seq(Row) /\ s \o t \in Seq(Row)
    BY ConcatProperties
<1>2. Append(t, r) = t \o <<r>> /\ Append(s \o t, r) = (s \o t) \o <<r>>
    BY <1>1, AppendIsConcat
<1>3. (s \o t) \o <<r>> = s \o (t \o <<r>>)
    BY <1>1, ConcatAssociative
<1> QED
    BY <1>2, <1>3

\* The last of the bursts grows by a row.
LEMMA FlattenGrown ==
    ASSUME NEW b \in Seq(Seq(Row)), b # <<>>, NEW r \in Row
    PROVE  LET grown == [b EXCEPT ![Len(b)] = Append(@, r)] IN
           /\ grown \in Seq(Seq(Row)) /\ Len(grown) = Len(b)
           /\ \A i \in 1..Len(b) :
                 grown[i] = IF i = Len(b) THEN Append(b[Len(b)], r) ELSE b[i]
           /\ FlattenSeq(grown) = Append(FlattenSeq(b), r)
<1> DEFINE grown == [b EXCEPT ![Len(b)] = Append(@, r)]
           last  == b[Len(b)]
           front == [i \in 1..Len(b) - 1 |-> b[i]]
<1>1. Len(b) \in Nat \ {0} /\ Len(b) \in 1..Len(b) /\ Len(b) - 1 \in Nat
    BY EmptySeq
<1>2. \A i \in 1..Len(b) : b[i] \in Seq(Row)
    BY ElementOfSeq
<1>3. last \in Seq(Row) /\ Append(last, r) \in Seq(Row)
    BY <1>1, <1>2, AppendProperties
<1>4. front \in Seq(Seq(Row)) /\ Len(front) = Len(b) - 1
    <2>1. front \in [1..Len(b) - 1 -> Seq(Row)]
        BY <1>1, <1>2
    <2> HIDE DEF front
    <2> QED
        BY <1>1, <2>1, FunctionIsList
<1>5. /\ grown \in Seq(Seq(Row)) /\ Len(grown) = Len(b)
      /\ \A i \in 1..Len(b) : grown[i] = IF i = Len(b) THEN Append(last, r) ELSE b[i]
    BY <1>1, <1>3, ExceptSeq
<1>6. \A i \in 1..Len(b) - 1 : front[i] = b[i] /\ i \in 1..Len(b) /\ i # Len(b)
    BY <1>1
<1> HIDE DEF grown, front, last
<1>7. ASSUME NEW y \in Seq(Row)
      PROVE  /\ Append(front, y) \in Seq(Seq(Row)) /\ Len(Append(front, y)) = Len(b)
             /\ \A i \in 1..Len(b) :
                   Append(front, y)[i] = IF i = Len(b) THEN y ELSE b[i]
    <2>1. /\ Append(front, y) \in Seq(Seq(Row)) /\ Len(Append(front, y)) = Len(front) + 1
          /\ \A i \in 1..Len(front) : Append(front, y)[i] = front[i]
          /\ Append(front, y)[Len(front) + 1] = y
        BY <1>4, AppendProperties
    <2>2. \A i \in 1..Len(b) : i # Len(b) => i \in 1..Len(b) - 1
        BY <1>1
    <2>3. Len(front) + 1 = Len(b)
        BY <1>1, <1>4
    <2> QED
        BY <1>4, <1>6, <2>1, <2>2, <2>3
<1>8. b = Append(front, last)
    <2>1. \A i \in 1..Len(b) : b[i] = Append(front, last)[i]
        BY <1>3, <1>7 DEF last
    <2>2. Append(front, last) \in Seq(Seq(Row)) /\ Len(b) = Len(Append(front, last))
        BY <1>3, <1>7
    <2> QED
        BY <2>1, <2>2, SeqEqual
<1>9. grown = Append(front, Append(last, r))
    <2>1. \A i \in 1..Len(b) : grown[i] = Append(front, Append(last, r))[i]
        BY <1>3, <1>5, <1>7
    <2>2. /\ Append(front, Append(last, r)) \in Seq(Seq(Row))
          /\ Len(Append(front, Append(last, r))) = Len(b)
        BY <1>3, <1>7
    <2> QED
        BY <1>5, <2>1, <2>2, SeqEqual
<1>10. FlattenSeq(front) \in Seq(Row) /\ FlattenSeq(b) \in Seq(Row)
    BY <1>4, FlattenType
<1>11. FlattenSeq(b) = FlattenSeq(front) \o last
    BY <1>3, <1>4, <1>8, FlattenAppend
<1>12. FlattenSeq(grown) = FlattenSeq(front) \o Append(last, r)
    BY <1>3, <1>4, <1>9, FlattenAppend
<1>13. FlattenSeq(grown) = Append(FlattenSeq(b), r)
    BY <1>3, <1>10, <1>11, <1>12, AppendToConcat
<1> QED
    BY <1>5, <1>13 DEF grown, last

\* The first n rows of a list.
Prefix(s, n) == [i \in 1..n |-> s[i]]

\* A burst of the first n rows of a list: it says one thing, and its first row is
\* the newest and bounds its span.
GoodBurst(c, s, n) ==
    /\ c # <<>>
    /\ \A j \in DOMAIN c :
          /\ \E m \in 1..n : c[j] = s[m]
          /\ c[j].says = c[1].says /\ c[j].at <= c[1].at /\ c[1].at - c[j].at <= BurstSpan

\* Bursts of all of them, in order, none of which could have been longer.
GoodBursts(b, s, n) ==
    /\ b \in Seq(Seq(Row))
    /\ FlattenSeq(b) = Prefix(s, n)
    /\ \A i \in 1..Len(b) : GoodBurst(b[i], s, n)
    /\ \A i \in 2..Len(b) : ~Joins(b[i - 1], b[i][1])

\* A good burst stays one as more rows are read.
LEMMA GoodBurstLater ==
    ASSUME NEW c, NEW s, NEW n \in Nat, GoodBurst(c, s, n)
    PROVE  GoodBurst(c, s, n + 1)
<1>1. \A m \in 1..n : m \in 1..n + 1
    OBVIOUS
<1> QED
    BY <1>1 DEF GoodBurst

\* A row of a sorted list is no newer than a row before it.
LEMMA NoNewer ==
    ASSUME NEW s \in Seq(Row), Sorted(s), NEW n \in Nat, n + 1 \in 1..Len(s), NEW m \in 1..n
    PROVE  s[m] \in Row /\ s[n + 1] \in Row /\ s[n + 1].at <= s[m].at
<1>1. m \in DOMAIN s /\ n + 1 \in DOMAIN s /\ m < n + 1
    BY LenProperties
<1>2. s[m] \in Row /\ s[n + 1] \in Row
    BY <1>1, RowAt
<1>3. Before(s[m], s[n + 1])
    BY <1>1 DEF Sorted
<1>4. s[m].at \in Int /\ s[n + 1].at \in Int
    BY <1>2, FeedAssumption DEF Row
<1> QED
    BY <1>2, <1>3, <1>4 DEF Before

\* One more row is appended.
LEMMA PrefixGrows ==
    ASSUME NEW s \in Seq(Row), NEW n \in Nat, n + 1 \in 1..Len(s)
    PROVE  Prefix(s, n) \in Seq(Row) /\ Prefix(s, n + 1) = Append(Prefix(s, n), s[n + 1])
<1>1. \A i \in 1..n + 1 : s[i] \in Row
    BY LenProperties, ElementOfSeq
<1>2. Prefix(s, n) \in [1..n -> Row] /\ Prefix(s, n + 1) \in [1..n + 1 -> Row]
    BY <1>1 DEF Prefix
<1>3. /\ Prefix(s, n) \in Seq(Row) /\ Len(Prefix(s, n)) = n
      /\ Prefix(s, n + 1) \in Seq(Row) /\ Len(Prefix(s, n + 1)) = n + 1
    BY <1>2, FunctionIsList
<1>4. s[n + 1] \in Row
    BY <1>1
<1>5. /\ Append(Prefix(s, n), s[n + 1]) \in Seq(Row)
      /\ Len(Append(Prefix(s, n), s[n + 1])) = n + 1
      /\ \A i \in 1..n : Append(Prefix(s, n), s[n + 1])[i] = Prefix(s, n)[i]
      /\ Append(Prefix(s, n), s[n + 1])[n + 1] = s[n + 1]
    BY <1>3, <1>4, AppendProperties
<1>6. ASSUME NEW i \in 1..n + 1
      PROVE  Prefix(s, n + 1)[i] = Append(Prefix(s, n), s[n + 1])[i]
    <2>1. Prefix(s, n + 1)[i] = s[i] /\ (i \in 1..n => Prefix(s, n)[i] = s[i])
        BY DEF Prefix
    <2>2. i \in 1..n \/ i = n + 1
        OBVIOUS
    <2> QED
        BY <1>5, <2>1, <2>2
<1> QED
    BY <1>3, <1>5, <1>6, SeqEqual

\* Each row taken keeps the bursts good: it joins the last one or starts another.
LEMMA TakenIsGood ==
    ASSUME NEW s \in Seq(Row), Sorted(s), NEW n \in Nat, n + 1 \in 1..Len(s),
           NEW b, GoodBursts(b, s, n)
    PROVE  GoodBursts(Taken(b, s[n + 1]), s, n + 1)
<1> DEFINE r == s[n + 1]
<1>1. r \in Row /\ r.at \in Int
    <2>1. r \in Row
        BY ElementOfSeq
    <2> QED
        BY <2>1, FeedAssumption DEF Row
<1>2. b \in Seq(Seq(Row)) /\ Len(b) \in Nat /\ \A i \in 1..Len(b) : b[i] \in Seq(Row)
    BY LenProperties, ElementOfSeq DEF GoodBursts
<1>3. Prefix(s, n + 1) = Append(FlattenSeq(b), r) /\ FlattenSeq(b) \in Seq(Row)
    BY PrefixGrows DEF GoodBursts
<1>4. n + 1 \in 1..n + 1 /\ r = s[n + 1]
    OBVIOUS
<1>5. \A i \in 1..Len(b) : GoodBurst(b[i], s, n + 1)
    BY GoodBurstLater DEF GoodBursts
<1>6. ASSUME NEW i \in 1..Len(b)
      PROVE  /\ b[i] \in Seq(Row) /\ b[i] # <<>> /\ 1 \in DOMAIN b[i] /\ b[i][1] \in Row
             /\ r.at <= b[i][1].at
    <2>1. b[i] \in Seq(Row) /\ GoodBurst(b[i], s, n)
        BY <1>2 DEF GoodBursts
    <2>2. 1 \in DOMAIN b[i]
        BY <2>1, EmptySeq, LenProperties DEF GoodBurst
    <2>3. PICK m \in 1..n : b[i][1] = s[m]
        BY <2>1, <2>2 DEF GoodBurst
    <2> QED
        BY <2>1, <2>2, <2>3, NoNewer DEF GoodBurst
<1>7. b # <<>> => Len(b) \in 1..Len(b) /\ Last(b) = b[Len(b)]
    BY <1>2, EmptySeq DEF Last
<1> HIDE DEF r
<1>8. CASE b # <<>> /\ Joins(Last(b), r)
    <2> DEFINE k == Len(b)  grown == [b EXCEPT ![Len(b)] = Append(@, r)]
    <2>1. Taken(b, r) = grown
        BY <1>8 DEF Taken
    <2>2. /\ grown \in Seq(Seq(Row)) /\ Len(grown) = Len(b)
          /\ \A i \in 1..Len(b) : grown[i] = IF i = Len(b) THEN Append(b[Len(b)], r) ELSE b[i]
          /\ FlattenSeq(grown) = Append(FlattenSeq(b), r)
        BY <1>1, <1>2, <1>8, FlattenGrown
    <2>3. k \in 1..Len(b) /\ Joins(b[k], r)
        BY <1>7, <1>8
    <2>4. /\ b[k] \in Seq(Row) /\ b[k] # <<>> /\ 1 \in DOMAIN b[k] /\ b[k][1] \in Row
          /\ r.at <= b[k][1].at /\ Len(b[k]) \in Nat \ {0} /\ DOMAIN b[k] = 1..Len(b[k])
        BY <1>6, <2>3, EmptySeq, LenProperties
    <2> HIDE DEF grown, k
    <2>5. /\ Append(b[k], r) # <<>> /\ DOMAIN Append(b[k], r) = 1..Len(b[k]) + 1
          /\ \A j \in 1..Len(b[k]) : Append(b[k], r)[j] = b[k][j]
          /\ Append(b[k], r)[Len(b[k]) + 1] = r
          /\ Append(b[k], r)[1] = b[k][1]
        <3>1. Append(b[k], r) \in Seq(Row) /\ Len(Append(b[k], r)) = Len(b[k]) + 1
            BY <1>1, <2>4, AppendProperties
        <3>2. DOMAIN Append(b[k], r) = 1..Len(b[k]) + 1
            BY <3>1, LenProperties
        <3>3. 1 \in 1..Len(b[k])
            BY <2>4
        <3> QED
            BY <1>1, <2>4, <3>2, <3>3, AppendProperties
    <2>6. GoodBurst(Append(b[k], r), s, n + 1)
        <3>1. GoodBurst(b[k], s, n + 1)
            BY <1>5, <2>3
        <3>2. r.says = b[k][1].says /\ b[k][1].at - r.at <= BurstSpan
            BY <2>3 DEF Joins
        <3>3. ASSUME NEW j \in DOMAIN Append(b[k], r)
              PROVE  /\ \E m \in 1..n + 1 : Append(b[k], r)[j] = s[m]
                     /\ Append(b[k], r)[j].says = b[k][1].says
                     /\ Append(b[k], r)[j].at <= b[k][1].at
                     /\ b[k][1].at - Append(b[k], r)[j].at <= BurstSpan
            <4>1. CASE j \in 1..Len(b[k])
                BY <2>4, <2>5, <3>1, <4>1 DEF GoodBurst
            <4>2. CASE j = Len(b[k]) + 1
                BY <1>4, <2>4, <2>5, <3>2, <4>2
            <4>3. j \in 1..Len(b[k]) \/ j = Len(b[k]) + 1
                BY <2>4, <2>5
            <4> QED
                BY <4>1, <4>2, <4>3
        <3> QED
            BY <2>5, <3>3 DEF GoodBurst
    <2>7. \A i \in 1..Len(grown) : GoodBurst(grown[i], s, n + 1)
        BY <1>5, <2>2, <2>6 DEF k
    <2>8. ASSUME NEW i \in 2..Len(grown) PROVE ~Joins(grown[i - 1], grown[i][1])
        <3>1. i \in 1..Len(b) /\ i - 1 \in 1..Len(b) /\ i - 1 # Len(b) /\ i \in 2..Len(b)
            BY <1>2, <2>2
        <3>2. grown[i - 1] = b[i - 1] /\ grown[i][1] = b[i][1]
            BY <2>2, <2>5, <3>1 DEF k
        <3> QED
            BY <3>1, <3>2 DEF GoodBursts
    <2> QED
        BY <1>3, <2>1, <2>2, <2>7, <2>8 DEF GoodBursts, r
<1>9. CASE ~(b # <<>> /\ Joins(Last(b), r))
    <2> DEFINE longer == Append(b, <<r>>)
    <2>1. Taken(b, r) = longer
        BY <1>9 DEF Taken
    <2>2. <<r>> \in Seq(Row) /\ Len(<<r>>) = 1 /\ <<r>>[1] = r /\ DOMAIN <<r>> = {1}
        BY <1>1
    <2>3. /\ longer \in Seq(Seq(Row)) /\ Len(longer) = Len(b) + 1
          /\ \A i \in 1..Len(b) : longer[i] = b[i]
          /\ longer[Len(b) + 1] = <<r>>
        BY <1>2, <2>2, AppendProperties
    <2>4. FlattenSeq(longer) = Append(FlattenSeq(b), r)
        <3>1. FlattenSeq(longer) = FlattenSeq(b) \o <<r>>
            BY <1>2, <2>2, FlattenAppend
        <3> QED
            BY <1>1, <1>3, <3>1, AppendIsConcat
    <2> HIDE DEF longer
    <2>5. GoodBurst(<<r>>, s, n + 1)
        <3>1. r.at <= r.at /\ r.at - r.at <= BurstSpan
            BY <1>1, FeedAssumption
        <3>2. \E m \in 1..n + 1 : r = s[m]
            BY <1>4
        <3>3. <<r>> # <<>>
            OBVIOUS
        <3> QED
            BY <2>2, <3>1, <3>2, <3>3 DEF GoodBurst
    <2>6. \A i \in 1..Len(longer) : GoodBurst(longer[i], s, n + 1)
        <3>1. \A i \in 1..Len(longer) : i \in 1..Len(b) \/ i = Len(b) + 1
            BY <1>2, <2>3
        <3> QED
            BY <1>5, <2>3, <2>5, <3>1
    <2>7. ASSUME NEW i \in 2..Len(longer) PROVE ~Joins(longer[i - 1], longer[i][1])
        <3>1. CASE i \in 2..Len(b)
            <4>1. i \in 1..Len(b) /\ i - 1 \in 1..Len(b)
                BY <1>2, <3>1
            <4> QED
                BY <2>3, <3>1, <4>1 DEF GoodBursts
        <3>2. CASE i = Len(b) + 1
            <4>1. b # <<>> /\ i - 1 = Len(b)
                BY <1>2, <3>2, EmptySeq
            <4>2. longer[i - 1] = Last(b) /\ longer[i][1] = r
                BY <1>7, <2>2, <2>3, <3>2, <4>1
            <4> QED
                BY <1>9, <4>1, <4>2
        <3>3. i \in 2..Len(b) \/ i = Len(b) + 1
            BY <1>2, <2>3
        <3> QED
            BY <3>1, <3>2, <3>3
    <2> QED
        BY <1>3, <2>1, <2>3, <2>4, <2>6, <2>7 DEF GoodBursts, r
<1> QED
    BY <1>8, <1>9

\* The bursts of a sorted list are good.
LEMMA BurstsAreGood ==
    ASSUME NEW s \in Seq(Row), Sorted(s)
    PROVE  GoodBursts(Bursts(s), s, Len(s))
<1>1. Len(s) \in Nat
    BY LenProperties
<1>2. PICK f : Collapses(f, s) /\ Bursts(s) = f[Len(s)]
    BY <1>1, BurstsCollapse
<1> DEFINE S == {n \in Nat : n \in 0..Len(s) => GoodBursts(f[n], s, n)}
<1>3. 0 \in S
    <2>1. f[0] = <<>>
        BY <1>1, <1>2 DEF Collapses
    <2>2. <<>> \in Seq(Seq(Row)) /\ Len(<<>>) = 0
        BY EmptySeq
    <2>3. Prefix(s, 0) = <<>>
        BY DEF Prefix
    <2>4. GoodBursts(<<>>, s, 0)
        BY <2>2, <2>3, FlattenEmpty DEF GoodBursts
    <2> QED
        BY <2>1, <2>4
<1>4. ASSUME NEW n \in Nat, n \in S PROVE n + 1 \in S
    <2>1. CASE n + 1 \in 0..Len(s)
        <3>1. n \in 0..Len(s) /\ n + 1 \in 1..Len(s) /\ n + 1 # 0 /\ (n + 1) - 1 = n
            BY <1>1, <2>1
        <3>2. f[n + 1] = Taken(f[n], s[n + 1])
            BY <1>2, <2>1, <3>1 DEF Collapses
        <3>3. GoodBursts(f[n], s, n)
            BY <1>4, <3>1
        <3>4. GoodBursts(f[n + 1], s, n + 1)
            BY <3>1, <3>2, <3>3, TakenIsGood
        <3> QED
            BY <3>4
    <2> QED
        BY <2>1
<1> HIDE DEF S
<1>5. Len(s) \in S
    BY <1>1, <1>3, <1>4, Induct
<1>6. GoodBursts(f[Len(s)], s, Len(s))
    BY <1>1, <1>5 DEF S
<1> QED
    BY <1>2, <1>6

\* The list is sorted, and so its bursts are good.
LEMMA BurstsFollow == IInv => BurstsFaithful
<1> SUFFICES ASSUME IInv PROVE BurstsFaithful
    OBVIOUS
<1>1. raw \in Seq(Row) /\ Sorted(raw)
    BY DEF IInv, TypeOK, InOrder
<1> DEFINE b == Bursts(raw)
<1>2. GoodBursts(b, raw, Len(raw))
    BY <1>1, BurstsAreGood
<1> HIDE DEF b
<1>3. Len(b) \in Nat /\ DOMAIN b = 1..Len(b) /\ \A i \in 1..Len(b) : b[i] \in Seq(Row)
    BY <1>2, LenProperties, ElementOfSeq DEF GoodBursts
<1>4. FlattenSeq(b) = raw
    <2>1. raw = [i \in 1..Len(raw) |-> raw[i]]
        BY <1>1, LenProperties
    <2> QED
        BY <1>2, <2>1 DEF GoodBursts, Prefix
<1>5. ASSUME NEW i \in 1..Len(b), NEW j \in DOMAIN b[i], NEW k \in DOMAIN b[i]
      PROVE  b[i][j].says = b[i][k].says /\ b[i][j].at - b[i][k].at <= BurstSpan
    <2>1. b[i] \in Seq(Row) /\ GoodBurst(b[i], raw, Len(raw))
        BY <1>2, <1>3 DEF GoodBursts
    <2>2. 1 \in DOMAIN b[i]
        BY <2>1, EmptySeq, LenProperties DEF GoodBurst
    <2>3. b[i][1].at \in Int /\ b[i][j].at \in Int /\ b[i][k].at \in Int /\ BurstSpan \in Int
        <3>1. b[i][1] \in Row /\ b[i][j] \in Row /\ b[i][k] \in Row
            BY <2>1, <2>2, RowAt
        <3> QED
            BY <3>1, FeedAssumption DEF Row
    <2>4. b[i][j].says = b[i][k].says
        BY <2>1 DEF GoodBurst
    <2>5. b[i][j].at <= b[i][1].at /\ b[i][1].at - b[i][k].at <= BurstSpan
        BY <2>1 DEF GoodBurst
    <2> QED
        BY <2>3, <2>4, <2>5
<1>6. ASSUME NEW i \in 2..Len(b)
      PROVE  \E r \in Range(b[i - 1]) :
                 r.says # b[i][1].says \/ r.at - b[i][1].at > BurstSpan
    <2>1. i - 1 \in 1..Len(b) /\ i \in 1..Len(b)
        BY <1>3
    <2>2. /\ ~Joins(b[i - 1], b[i][1])
          /\ b[i - 1] \in Seq(Row) /\ b[i - 1] # <<>> /\ b[i] \in Seq(Row) /\ b[i] # <<>>
        BY <1>2, <1>3, <2>1 DEF GoodBursts, GoodBurst
    <2>3. 1 \in DOMAIN b[i - 1] /\ 1 \in DOMAIN b[i]
        BY <2>2, EmptySeq, LenProperties
    <2>4. /\ b[i - 1][1] \in Row /\ b[i][1] \in Row
          /\ b[i - 1][1] \in Range(b[i - 1])
        BY <2>2, <2>3, RowAt
    <2>5. b[i - 1][1].at \in Int /\ b[i][1].at \in Int /\ BurstSpan \in Int
        BY <2>4, FeedAssumption DEF Row
    <2>6. b[i - 1][1].says # b[i][1].says \/ b[i - 1][1].at - b[i][1].at > BurstSpan
        BY <2>2, <2>5 DEF Joins
    <2> QED
        BY <2>4, <2>6
<1>7. \A c \in Range(b) : \E i \in 1..Len(b) : c = b[i]
    BY <1>3 DEF Range
<1>8. \A c \in Range(b) :
          \A j, k \in DOMAIN c : c[j].says = c[k].says /\ c[j].at - c[k].at <= BurstSpan
    BY <1>5, <1>7
<1> QED
    BY <1>4, <1>6, <1>8 DEF BurstsFaithful, b

\* The bursts are the rows of the list in their order, each says one thing and
\* spans at most BurstSpan, and none could have been longer, for lists of any length.
THEOREM BurstsHideNothing == Spec => []BurstsFaithful
BY Invariant, BurstsFollow, PTL

-----------------------------------------------------------------------------
(* A query has one answer: Pages, which says what a page is, determines it.  *)

\* No two pieces of evidence have the same id.
OneOfEachId == \A r, q \in rows : r.id = q.id => r = q

\* Whether the evidence in a set can be told apart by the order of a page.
Ordered(matching) ==
    \A r, q \in matching : r # q => (Before(r, q) <=> ~Before(q, r))

\* Their ids do.
LEMMA IdsOrder ==
    ASSUME NEW matching \in SUBSET Row, \A r, q \in matching : r.id = q.id => r = q
    PROVE  Ordered(matching)
<1> SUFFICES ASSUME NEW r \in matching, NEW q \in matching, r # q
             PROVE  Before(r, q) <=> ~Before(q, r)
    BY DEF Ordered
<1>1. r.id # q.id
    OBVIOUS
<1>2. r.at \in Int /\ q.at \in Int /\ r.id \in Int /\ q.id \in Int
    BY FeedAssumption DEF Row
<1> QED
    BY <1>1, <1>2 DEF Before

\* A set of naturals that is not empty has a greatest element below a bound.
LEMMA Greatest ==
    ASSUME NEW N \in Nat, NEW T \in SUBSET (0..N), T # {}
    PROVE  \E m \in T : \A k \in T : k <= m
<1> DEFINE D == {d \in Nat : N - d \in T}
<1>1. PICK m \in T : TRUE
    OBVIOUS
<1>2. N - m \in Nat /\ N - (N - m) = m
    OBVIOUS
<1>3. D \subseteq Nat /\ D # {}
    BY <1>1, <1>2
<1>4. PICK d \in D : \A e \in D : ~(<<e, d>> \in OpToRel(<, Nat))
    BY <1>3, NatLessThanWellFounded, WFMin
<1>5. ASSUME NEW k \in T PROVE k <= N - d
    <2>1. k \in 0..N /\ N - k \in Nat /\ N - (N - k) = k
        OBVIOUS
    <2>2. N - k \in D
        BY <2>1
    <2>3. ~(N - k < d)
        BY <1>4, <2>1, <2>2 DEF OpToRel
    <2> QED
        BY <2>1, <2>3
<1> QED
    BY <1>5

\* Evidence that is not empty has a newest piece.
LEMMA Newest ==
    ASSUME NEW matching \in SUBSET Row, matching # {}, Ordered(matching)
    PROVE  \E r \in matching : \A q \in matching : r = q \/ Before(r, q)
<1> DEFINE times == {r.at : r \in matching}
<1>1. MaxTime \in Nat /\ MaxEvidence \in Nat
    BY FeedAssumption
<1>2. \A r \in matching : r.at \in 0..MaxTime /\ r.id \in 0..MaxEvidence
    BY <1>1 DEF Row
<1>3. PICK t \in times : \A u \in times : u <= t
    <2>1. times \in SUBSET (0..MaxTime) /\ times # {}
        BY <1>2
    <2> HIDE DEF times
    <2> QED
        BY <1>1, <2>1, Greatest
<1> DEFINE ids == {r.id : r \in {q \in matching : q.at = t}}
<1>4. PICK n \in ids : \A k \in ids : k <= n
    <2>1. ids \in SUBSET (0..MaxEvidence) /\ ids # {}
        BY <1>2, <1>3
    <2> HIDE DEF ids
    <2> QED
        BY <1>1, <2>1, Greatest
<1>5. PICK r \in matching : r.at = t /\ r.id = n
    BY <1>4
<1>6. ASSUME NEW q \in matching, r # q PROVE Before(r, q)
    <2>1. r.at \in Int /\ q.at \in Int /\ r.id \in Int /\ q.id \in Int
        BY <1>1, <1>2
    <2>2. q.at <= r.at
        BY <1>3, <1>5
    <2>3. q.at = r.at => q.id <= r.id
        BY <1>4, <1>5
    <2>4. ~Before(q, r)
        BY <2>1, <2>2, <2>3 DEF Before
    <2> QED
        BY <1>6, <2>4 DEF Ordered
<1> QED
    BY <1>6

\* A page of at most n rows, all that precede the rest.
Cut(matching, n) ==
    {page \in Seq(matching) :
        /\ Len(page) <= n
        /\ Sorted(page)
        /\ \A r \in matching \ Range(page) :
              Len(page) = n /\ \A i \in DOMAIN page : Before(page[i], r)}

\* There is one for each n: the newest of the rest goes on it next.
LEMMA CutExists ==
    ASSUME NEW matching \in SUBSET Row, Ordered(matching), NEW n \in Nat
    PROVE  Cut(matching, n) # {}
<1> DEFINE S == {k \in Nat : Cut(matching, k) # {}}
<1>1. 0 \in S
    <2>1. <<>> \in Seq(matching) /\ Len(<<>>) = 0 /\ DOMAIN <<>> = {}
        BY EmptySeq
    <2>2. <<>> \in Cut(matching, 0)
        BY <2>1 DEF Cut, Sorted
    <2> QED
        BY <2>2
<1>2. ASSUME NEW k \in Nat, k \in S PROVE k + 1 \in S
    <2>1. PICK page \in Seq(matching) : page \in Cut(matching, k)
        BY <1>2 DEF Cut
    <2>2. Len(page) \in Nat /\ DOMAIN page = 1..Len(page)
            /\ \A i \in 1..Len(page) : page[i] \in matching
        BY LenProperties, ElementOfSeq
    <2> DEFINE rest == matching \ Range(page)
    <2>3. CASE rest = {}
        <3>1. Len(page) <= k /\ Sorted(page)
            BY <2>1 DEF Cut
        <3>2. Len(page) <= k + 1
            BY <2>2, <3>1
        <3>3. page \in Cut(matching, k + 1)
            BY <2>3, <3>1, <3>2 DEF Cut
        <3> QED
            BY <3>3
    <2>4. CASE rest # {}
        <3>1. rest \in SUBSET Row /\ Ordered(rest)
            BY DEF Ordered
        <3>2. PICK r \in rest : \A q \in rest : r = q \/ Before(r, q)
            BY <2>4, <3>1, Newest
        <3>3. r \in matching /\ Len(page) = k /\ \A i \in DOMAIN page : Before(page[i], r)
            BY <2>1 DEF Cut
        <3> DEFINE longer == Append(page, r)
        <3>4. /\ longer \in Seq(matching) /\ Len(longer) = k + 1
              /\ \A i \in 1..k : longer[i] = page[i]
              /\ longer[k + 1] = r
            BY <3>3, AppendProperties
        <3>5. DOMAIN longer = 1..k + 1
            BY <3>4, LenProperties
        <3> HIDE DEF longer
        <3>6. \A i \in DOMAIN longer : i \in DOMAIN page \/ i = k + 1
            BY <2>2, <3>3, <3>5
        <3>7. Sorted(longer)
            <4>1. ASSUME NEW i \in DOMAIN longer, NEW j \in DOMAIN longer, i < j
                  PROVE  Before(longer[i], longer[j])
                <5>1. i \in 1..k /\ i \in DOMAIN page /\ longer[i] = page[i]
                    BY <2>2, <3>3, <3>4, <3>5, <4>1
                <5>2. CASE j \in DOMAIN page
                    BY <2>1, <2>2, <3>3, <3>4, <4>1, <5>1, <5>2 DEF Cut, Sorted
                <5>3. CASE j = k + 1
                    BY <3>3, <3>4, <5>1, <5>3
                <5> QED
                    BY <3>6, <5>2, <5>3
            <4> QED
                BY <4>1 DEF Sorted
        <3>8. Range(longer) = Range(page) \cup {r}
            <4>1. \A i \in DOMAIN page : i \in DOMAIN longer /\ longer[i] = page[i]
                BY <2>2, <3>3, <3>4, <3>5
            <4>2. k + 1 \in DOMAIN longer
                BY <3>5
            <4> QED
                BY <3>4, <3>6, <4>1, <4>2 DEF Range
        <3>9. ASSUME NEW q \in matching \ Range(longer), NEW i \in DOMAIN longer
              PROVE  Before(longer[i], q)
            <4>1. q \in rest /\ q # r
                BY <3>8
            <4>2. CASE i \in DOMAIN page
                BY <2>1, <2>2, <3>3, <3>4, <4>1, <4>2 DEF Cut
            <4>3. CASE i = k + 1
                BY <3>2, <3>4, <4>1, <4>3
            <4> QED
                BY <3>6, <4>2, <4>3
        <3>10. Len(longer) <= k + 1
            BY <3>4
        <3>11. longer \in Cut(matching, k + 1)
            BY <3>4, <3>7, <3>9, <3>10 DEF Cut
        <3> QED
            BY <3>11
    <2> QED
        BY <2>3, <2>4
<1> HIDE DEF S
<1>3. n \in S
    BY <1>1, <1>2, Induct
<1> QED
    BY <1>3 DEF S

\* And so there is a page.
LEMMA PageExists ==
    ASSUME NEW matching \in SUBSET Row, Ordered(matching)
    PROVE  \E page : page \in Pages(matching)
<1>1. PageSize \in Nat /\ PageSize # 0
    BY FeedAssumption
<1>2. PICK page \in Seq(matching) : page \in Cut(matching, PageSize)
    BY <1>1, CutExists DEF Cut
<1>3. Len(page) \in 0..PageSize /\ page \in [1..Len(page) -> matching]
    BY <1>1, <1>2, LenProperties DEF Cut
<1>4. page \in Seq(Row)
    BY SeqMonotonic
<1>5. ASSUME NEW r \in matching \ Range(page)
      PROVE  Len(page) = PageSize /\ Before(Last(page), r)
    <2>1. Len(page) = PageSize /\ \A i \in DOMAIN page : Before(page[i], r)
        BY <1>2 DEF Cut
    <2>2. page # <<>>
        BY <1>1, <2>1, EmptySeq
    <2> QED
        BY <1>4, <2>1, <2>2, LastRow
<1>6. Sorted(page)
    BY <1>2 DEF Cut
<1>7. page \in UNION {[1..k -> matching] : k \in 0..PageSize}
    BY <1>3
<1>8. page \in Pages(matching)
    BY <1>5, <1>6, <1>7 DEF Pages
<1> QED
    BY <1>8

\* No row comes before itself, nor two before each other.
LEMMA BeforeStrict ==
    ASSUME NEW r \in Row, NEW q \in Row, Before(r, q)
    PROVE  r # q /\ ~Before(q, r)
<1>1. r.at \in Int /\ q.at \in Int /\ r.id \in Int /\ q.id \in Int
    BY FeedAssumption DEF Row
<1> QED
    BY <1>1 DEF Before

\* Where two pages have agreed so far, neither has a row before the other's next.
LEMMA NextIsNotBefore ==
    ASSUME NEW matching \in SUBSET Row, NEW p \in Pages(matching), NEW q \in Pages(matching),
           NEW i \in Nat, i \in DOMAIN p, i \in DOMAIN q, \A j \in 1..i - 1 : p[j] = q[j]
    PROVE  ~Before(p[i], q[i])
<1> SUFFICES ASSUME Before(p[i], q[i]) PROVE FALSE
    OBVIOUS
<1>1. /\ p \in Seq(Row) /\ Sorted(p) /\ q \in Seq(Row) /\ Sorted(q)
      /\ p[i] \in matching /\ p[i] \in Row /\ q[i] \in Row /\ q[i] \in Range(q)
    BY PageFacts DEF Range
<1>2. DOMAIN p = 1..Len(p) /\ DOMAIN q = 1..Len(q) /\ Len(p) \in Nat /\ Len(q) \in Nat
    BY <1>1, LenProperties
<1>3. ASSUME NEW k \in DOMAIN q, p[i] = q[k] PROVE FALSE
    <2>1. CASE k < i
        <3>1. k \in 1..i - 1 /\ k \in DOMAIN p
            BY <1>2, <2>1
        <3>2. Before(p[k], p[i]) /\ p[k] = p[i] /\ p[k] \in Row
            BY <1>1, <1>3, <2>1, <3>1 DEF Sorted
        <3> QED
            BY <1>1, <3>2, BeforeStrict
    <2>2. CASE k = i
        BY <1>1, <1>3, <2>2, BeforeStrict
    <2>3. CASE k > i
        <3>1. Before(q[i], q[k])
            BY <1>2, <1>1, <2>3 DEF Sorted
        <3> QED
            BY <1>1, <1>3, <3>1, BeforeStrict
    <2> QED
        BY <1>2, <2>1, <2>2, <2>3
<1>4. p[i] \in matching \ Range(q)
    BY <1>1, <1>3 DEF Range
<1>5. Before(Last(q), p[i])
    BY <1>4, PageFacts
<1>6. q # <<>> /\ (q[i] = Last(q) \/ Before(q[i], Last(q)))
    BY <1>1, LastIsOldest
<1>7. Last(q) \in Row
    BY <1>1, <1>6, LastRow
<1>8. Before(q[i], p[i])
    BY <1>1, <1>5, <1>6, <1>7, BeforeTransitive
<1> QED
    BY <1>1, <1>8, BeforeStrict

\* A page that agrees with a longer one has all there is, or is full.
LEMMA NoShorter ==
    ASSUME NEW matching \in SUBSET Row, NEW p \in Pages(matching), NEW q \in Pages(matching),
           \A j \in 1..Len(p) : j \in DOMAIN q => p[j] = q[j]
    PROVE  Len(q) <= Len(p)
<1>1. /\ p \in Seq(Row) /\ q \in Seq(Row) /\ Sorted(q)
      /\ \A i \in DOMAIN q : q[i] \in matching /\ q[i] \in Row
    BY PageFacts
<1>2. DOMAIN p = 1..Len(p) /\ DOMAIN q = 1..Len(q) /\ Len(p) \in Nat /\ Len(q) \in Nat
    BY <1>1, LenProperties
<1>3. Len(q) <= PageSize
    <2>1. PICK n \in 0..PageSize : q \in [1..n -> matching]
        BY DEF Pages
    <2>2. n \in Nat /\ q \in [1..n -> Row]
        BY <2>1, FeedAssumption
    <2>3. Len(q) = n
        BY <2>2, FunctionIsList
    <2> QED
        BY <2>1, <2>3, FeedAssumption
<1> SUFFICES ASSUME Len(p) < Len(q) PROVE FALSE
    BY <1>2
<1> DEFINE i == Len(p) + 1
<1>4. i \in DOMAIN q /\ \A k \in DOMAIN p : k \in DOMAIN q /\ k < i
    BY <1>2
<1>5. ASSUME NEW k \in DOMAIN p PROVE p[k] # q[i]
    <2>1. p[k] = q[k] /\ Before(q[k], q[i]) /\ q[k] \in Row /\ q[i] \in Row
        BY <1>1, <1>2, <1>4 DEF Sorted
    <2> QED
        BY <2>1, BeforeStrict
<1>6. q[i] \in matching \ Range(p)
    BY <1>1, <1>4, <1>5 DEF Range
<1>7. Len(p) = PageSize
    BY <1>6, PageFacts
<1> QED
    BY <1>2, <1>3, <1>7, FeedAssumption

\* Two pages of the same evidence agree row by row.
LEMMA PageUnique ==
    ASSUME NEW matching \in SUBSET Row, Ordered(matching),
           NEW p \in Pages(matching), NEW q \in Pages(matching)
    PROVE  p = q
<1>1. /\ p \in Seq(Row) /\ q \in Seq(Row)
      /\ \A i \in DOMAIN p : p[i] \in matching
      /\ \A i \in DOMAIN q : q[i] \in matching
    BY PageFacts
<1>2. DOMAIN p = 1..Len(p) /\ DOMAIN q = 1..Len(q) /\ Len(p) \in Nat /\ Len(q) \in Nat
    BY <1>1, LenProperties
<1> DEFINE S == {n \in Nat : \A i \in 1..n : i \in DOMAIN p /\ i \in DOMAIN q => p[i] = q[i]}
<1>3. 0 \in S
    OBVIOUS
<1>4. ASSUME NEW n \in Nat, n \in S PROVE n + 1 \in S
    <2>1. CASE n + 1 \in DOMAIN p /\ n + 1 \in DOMAIN q
        <3>1. (n + 1) - 1 = n /\ \A j \in 1..n : j \in DOMAIN p /\ j \in DOMAIN q
            BY <1>2, <2>1
        <3>2. \A j \in 1..(n + 1) - 1 : p[j] = q[j] /\ q[j] = p[j]
            BY <1>4, <3>1
        <3>3. ~Before(p[n + 1], q[n + 1]) /\ ~Before(q[n + 1], p[n + 1])
            BY <2>1, <3>2, NextIsNotBefore
        <3>4. p[n + 1] = q[n + 1]
            BY <1>1, <2>1, <3>3 DEF Ordered
        <3>5. \A i \in 1..n + 1 : i \in 1..n \/ i = n + 1
            OBVIOUS
        <3> QED
            BY <1>4, <3>4, <3>5
    <2>2. CASE ~(n + 1 \in DOMAIN p /\ n + 1 \in DOMAIN q)
        <3>1. \A i \in 1..n + 1 : i \in 1..n \/ i = n + 1
            OBVIOUS
        <3> QED
            BY <1>4, <2>2, <3>1
    <2> QED
        BY <2>1, <2>2
<1> HIDE DEF S
<1>5. Nat \subseteq S
    BY <1>3, <1>4, Induct
<1>6. \A i \in Nat : i \in DOMAIN p /\ i \in DOMAIN q => p[i] = q[i]
    <2>1. ASSUME NEW i \in Nat, i \in DOMAIN p, i \in DOMAIN q PROVE p[i] = q[i]
        <3>1. i \in S /\ i \in 1..i
            BY <1>2, <1>5, <2>1
        <3> QED
            BY <2>1, <3>1 DEF S
    <2> QED
        BY <2>1
<1>7. Len(q) <= Len(p)
    BY <1>2, <1>6, NoShorter
<1>8. Len(p) <= Len(q)
    BY <1>2, <1>6, NoShorter
<1>9. Len(p) = Len(q) /\ \A i \in 1..Len(p) : p[i] = q[i]
    <2>1. Len(p) = Len(q)
        <3>1. Len(p) \in Nat /\ Len(q) \in Nat
            BY <1>2
        <3> QED
            BY <3>1, <1>7, <1>8
    <2>2. \A i \in 1..Len(p) : i \in Nat /\ i \in DOMAIN p /\ i \in DOMAIN q
        BY <1>2, <2>1
    <2>3. ASSUME NEW i \in 1..Len(p) PROVE p[i] = q[i]
        <3>1. i \in Nat /\ i \in DOMAIN p /\ i \in DOMAIN q
            BY <2>2
        <3> QED
            BY <1>6, <3>1, Zenon
    <2> QED
        BY <2>1, <2>3, Zenon
<1> QED
    BY <1>1, <1>9, SeqEqual

\* ORDER BY ... LIMIT: exactly one page answers a query.
LEMMA OnePage ==
    ASSUME NEW matching \in SUBSET Row, \A r, q \in matching : r.id = q.id => r = q
    PROVE  \E page \in Seq(Row) : Pages(matching) = {page}
<1>1. Ordered(matching)
    BY IdsOrder
<1>2. PICK page : page \in Pages(matching)
    BY <1>1, PageExists
<1>3. \A q \in Pages(matching) : q = page
    BY <1>1, <1>2, PageUnique
<1>4. page \in Seq(Row)
    BY <1>2, PageFacts
<1> QED
    BY <1>2, <1>3, <1>4

\* Whatever has been stored and pruned, each query has exactly one answer.
OneAnswer ==
    \A f \in Filters, c \in Row \cup {None} :
        /\ \E page \in Seq(Row) : EventPages(f, c) = {page}
        /\ \E page \in Seq(Row) : IncidentEvidence(c) = {page}

\* It follows from the ids.
LEMMA OneAnswerFollows == TypeOK /\ OneOfEachId => OneAnswer
<1> SUFFICES ASSUME TypeOK, OneOfEachId, NEW f \in Filters, NEW c \in Row \cup {None}
             PROVE  /\ \E page \in Seq(Row) : EventPages(f, c) = {page}
                    /\ \E page \in Seq(Row) : IncidentEvidence(c) = {page}
    BY DEF OneAnswer
<1>1. rows \subseteq Row
    BY DEF TypeOK
<1>2. \E page \in Seq(Row) : EventPages(f, c) = {page}
    <2> DEFINE matching == {r \in rows : Matches(r, f) /\ Older(r, c)}
    <2>1. matching \in SUBSET Row /\ \A r, q \in matching : r.id = q.id => r = q
        BY <1>1 DEF OneOfEachId
    <2> QED
        BY <2>1, OnePage DEF EventPages
<1>3. \E page \in Seq(Row) : IncidentEvidence(c) = {page}
    <2> DEFINE matching == {r \in rows : r.says = "this" /\ Older(r, c)}
    <2>1. matching \in SUBSET Row /\ \A r, q \in matching : r.id = q.id => r = q
        BY <1>1 DEF OneOfEachId
    <2> QED
        BY <2>1, OnePage DEF IncidentEvidence
<1> QED
    BY <1>2, <1>3

\* AUTOINCREMENT gives no id twice.
LEMMA IdsStep == TypeOK /\ OneOfEachId /\ [Next]_vars => OneOfEachId'
<1> SUFFICES ASSUME TypeOK, OneOfEachId, [Next]_vars PROVE OneOfEachId'
    OBVIOUS
<1>1. CASE Evidence
    <2>1. PICK r \in Row : r.id = lastId + 1 /\ rows' = rows \cup {r}
        BY <1>1 DEF Evidence
    <2>2. ASSUME NEW q \in rows PROVE q.id # r.id
        <3>1. q.id <= lastId /\ q.id \in Int /\ lastId \in Int
            BY FeedAssumption DEF TypeOK, Row
        <3> QED
            BY <2>1, <3>1
    <2> QED
        BY <2>1, <2>2 DEF OneOfEachId
<1>2. CASE Prune
    BY <1>2 DEF Prune, OneOfEachId
<1>3. CASE ~Evidence /\ ~Prune
    <2>1. rows' = rows
        <3>1. CASE UNCHANGED vars
            BY <3>1 DEF vars, database
        <3>2. CASE \E f \in Filters : Reset(f)
            BY <3>2 DEF Reset, Submit, database
        <3>3. CASE LoadMore
            BY <3>3 DEF LoadMore, Submit, database
        <3>4. CASE FeedFails \/ TimelineFails
            BY <3>4 DEF FeedFails, TimelineFails, Fails, database
        <3>5. CASE \E k \in {"newest", "older"} : QueryFeed(k) \/ QueryTimeline(k)
            BY <3>5 DEF QueryFeed, QueryTimeline, Query, database
        <3>6. CASE \E k \in {"newest", "older"} : Ready(k)
            BY <3>6 DEF Ready, database
        <3> QED
            BY <1>3, <3>1, <3>2, <3>3, <3>4, <3>5, <3>6 DEF Next
    <2> QED
        BY <2>1 DEF OneOfEachId
<1> QED
    BY <1>1, <1>2, <1>3

\* Whatever has been stored and pruned, each of the two queries has exactly one
\* answer, for pages of any size.
THEOREM QueriesHaveOneAnswer == Spec => []OneAnswer
<1>1. Init => OneOfEachId
    BY DEF Init, OneOfEachId
<1>2. Spec => []OneOfEachId
    BY <1>1, IdsStep, TypeInvariant, PTL DEF Spec
<1> QED
    BY <1>2, TypeInvariant, OneAnswerFollows, PTL
=============================================================================
