----------------------------- MODULE EventFeed -----------------------------
(***************************************************************************)
(* The event feed and the timeline of an incident's inspector: pages of    *)
(* evidence, newest first, that the window (app/pc_diagnostics.py) fetches *)
(* by keyset and appends to what it has (app/pcdiag_presenters.py), and    *)
(* the bursts the feed collapses them into.                                *)
(*                                                                         *)
(* Evidence arrives at any time, older than what is shown too, and is      *)
(* pruned or cleared.  DiagnosticsWindow says when the feed is refreshed;  *)
(* here it may be at any time.  What a row says stands for its incident    *)
(* and normalised message, which a filter tells apart.                     *)
(***************************************************************************)
EXTENDS Integers, Sequences, SequencesExt

CONSTANTS
    PageSize,     \* EVENT_PAGE_SIZE, TIMELINE_PAGE_SIZE
    BurstSpan,    \* BURST_WINDOW_US
    MaxTime,      \* bound: when evidence occurs
    MaxEvidence,  \* bound: pieces of evidence
    None

Row     == [id : 1..MaxEvidence, at : 1..MaxTime, says : {"this", "that"}]
Filters == {"all", "this"}
Request == [step : {"sent", "answered"}, filter : Filters, before : Row \cup {None},
            rows : Seq(Row)]

ASSUME FeedAssumption ==
    /\ PageSize \in Nat \ {0} /\ BurstSpan \in Nat
    /\ MaxTime \in Nat \ {0} /\ MaxEvidence \in Nat
    /\ None \notin Row \cup Request

VARIABLES
    list,      \* which of the two lists this is
    rows,      \* evidence: its id, when it occurred and what it says
    lastId,    \* the last id AUTOINCREMENT has given
    filter,    \* what the page's controls ask for
    raw,       \* live_raw, timeline_store
    cursor,    \* live_cursor, timeline_cursor
    more,      \* the Load older button is sensitive
    request,   \* the newest request, and a superseded one whose answer is due
    first,     \* history: the evidence there was when the first page was read
    failed     \* history: the newest query has failed

database == <<rows, lastId>>
feed     == <<raw, cursor, more>>
vars     == <<list, database, filter, feed, request, first, failed>>

TypeOK ==
    /\ list \in {"feed", "timeline"} /\ failed \in BOOLEAN
    /\ rows \subseteq Row /\ lastId \in 0..MaxEvidence
    /\ \A r \in rows : r.id <= lastId
    /\ filter \in Filters
    /\ raw \in Seq(Row) /\ more \in BOOLEAN
    /\ cursor = IF raw = <<>> THEN None ELSE Last(raw)
    /\ request \in [newest : Request \cup {None}, older : Request \cup {None}]
    /\ first \subseteq rows
    /\ list = "timeline" => filter = "this"

-----------------------------------------------------------------------------
(* Paging and bursts.                                                      *)

\* Newest first: ORDER BY occurred_us DESC, id DESC.
Before(a, b) == a.at > b.at \/ (a.at = b.at /\ a.id > b.id)

\* Faulty variant: evidence of the same moment as the cursor is not older.
OlderInTime(r, c) == c = None \/ r.at < c.at

\* The keyset condition.
Older(r, c) == c = None \/ Before(c, r)

Matches(r, f) == f = "all" \/ r.says = f

Sorted(s) == \A i, j \in DOMAIN s : i < j => Before(s[i], s[j])

\* ORDER BY ... LIMIT: what is left out comes after a full page.
Pages(matching) ==
    {page \in UNION {[1..n -> matching] : n \in 0..PageSize} :
        /\ Sorted(page)
        /\ \A r \in matching \ Range(page) :
              Len(page) = PageSize /\ Before(Last(page), r)}

\* fetch_event_page
EventPages(f, c) == Pages({r \in rows : Matches(r, f) /\ Older(r, c)})

\* fetch_incident_evidence, of the incident that "this" stands for
IncidentEvidence(c) == Pages({r \in rows : r.says = "this" /\ Older(r, c)})

\* Faulty variant: a row is compared with the one before it only.
JoinsLast(burst, r) ==
    burst[Len(burst)].says = r.says /\ burst[Len(burst)].at - r.at <= BurstSpan

\* Whether a row joins a burst: the burst's whole span is bounded.
Joins(burst, r) == burst[1].says = r.says /\ burst[1].at - r.at <= BurstSpan

\* The bursts once a row has been taken.
Taken(bursts, r) ==
    IF bursts # <<>> /\ Joins(Last(bursts), r)
    THEN [bursts EXCEPT ![Len(bursts)] = Append(@, r)]
    ELSE Append(bursts, <<r>>)

\* collapse_event_bursts, as the sequence of the rows each burst collapses.
Bursts(s) ==
    LET after[n \in 0..Len(s)] == IF n = 0 THEN <<>> ELSE Taken(after[n - 1], s[n])
    IN  after[Len(s)]

-----------------------------------------------------------------------------

Asked(f, before) == [step |-> "sent", filter |-> f, before |-> before, rows |-> <<>>]

\* The first page is asked for when the events page is first shown, or when the
\* inspector of an incident opens.
Init ==
    /\ list \in {"feed", "timeline"}
    /\ rows = {} /\ lastId = 0
    /\ filter = IF list = "feed" THEN "all" ELSE "this"
    /\ raw = <<>> /\ cursor = None /\ more = TRUE
    /\ request = [newest |-> Asked(filter, None), older |-> None]
    /\ first = {} /\ failed = FALSE

\* record_incident
Evidence ==
    /\ lastId < MaxEvidence
    /\ lastId' = lastId + 1
    /\ \E r \in Row : r.id = lastId + 1 /\ rows' = rows \cup {r}
    /\ UNCHANGED <<list, filter, feed, request, first, failed>>

\* prune_v2; clear_retained_data deletes all of it.
Prune ==
    /\ \E t \in 1..MaxTime : rows' = {r \in rows : r.at > t}
    /\ first' = first \cap rows'
    /\ UNCHANGED <<list, lastId, filter, feed, request, failed>>

\* What is submitted becomes the newest request.
Submit(f, before) ==
    /\ request' = [newest |-> Asked(f, before),
                   older  |-> IF request.newest = None THEN request.older ELSE request.newest]
    /\ failed' = FALSE
    /\ UNCHANGED <<list, database>>

\* Faulty variant: the rows are dropped and the cursor is kept.
ResetKeepsCursor(f) ==
    /\ list = "feed"
    /\ raw' = <<>> /\ first' = {} /\ UNCHANGED <<cursor, more>>
    /\ Submit(f, cursor)
    /\ filter' = f

\* _load_live(True): the page is refreshed, or its filter has changed.
Reset(f) ==
    /\ list = "feed"
    /\ raw' = <<>> /\ cursor' = None /\ first' = {} /\ UNCHANGED more
    /\ Submit(f, None)
    /\ filter' = f

\* _load_live(False), _load_timeline(False)
LoadMore ==
    /\ more
    /\ Submit(filter, cursor)
    /\ UNCHANGED <<filter, feed, first>>

\* On a thread of the pool; requests are answered in any order.
Query(k, pages) ==
    /\ request[k] # None /\ request[k].step = "sent"
    /\ \E page \in pages :
          request' = [request EXCEPT ![k].step = "answered", ![k].rows = page]
    /\ first' = IF k = "newest" /\ raw = <<>> THEN rows ELSE first
    /\ UNCHANGED <<list, database, filter, feed, failed>>

\* _query_live_events
QueryFeed(k) ==
    /\ list = "feed"
    /\ Query(k, EventPages(request[k].filter, request[k].before))

\* _query_timeline
QueryTimeline(k) ==
    /\ list = "timeline"
    /\ Query(k, IncidentEvidence(request[k].before))

Fails ==
    /\ request.newest # None /\ request.newest.step = "sent"
    /\ request' = [request EXCEPT !.newest = None]
    /\ failed' = TRUE
    /\ UNCHANGED <<list, database, filter, raw, cursor, first>>

\* The feed stays as it is when its query fails.
FeedFails == list = "feed" /\ Fails /\ UNCHANGED more

\* To the timeline a failed query is one without rows: no older events.
TimelineFails == list = "timeline" /\ Fails /\ more' = FALSE

\* Faulty variant: the request's number is not looked at.
SupersededNever(k) == FALSE

\* A result whose request number is not the newest is dropped.
Superseded(k) == k = "older"

\* Faulty variant: a full page counts as the last one.
MoreIfMany(page) == Len(page) > PageSize

\* Whether there may be another page.
MoreAfter(page) == Len(page) = PageSize

\* _live_ready, _timeline_ready
Ready(k) ==
    /\ request[k] # None /\ request[k].step = "answered"
    /\ request' = [request EXCEPT ![k] = None]
    /\ LET page == request[k].rows IN
       IF Superseded(k) THEN UNCHANGED feed
       ELSE /\ raw' = raw \o page
            /\ cursor' = IF page = <<>> THEN cursor ELSE Last(page)
            /\ more' = MoreAfter(page)
    /\ UNCHANGED <<list, database, filter, first, failed>>

Next ==
    \/ Evidence \/ Prune
    \/ \E f \in Filters : Reset(f)
    \/ LoadMore \/ FeedFails \/ TimelineFails
    \/ \E k \in {"newest", "older"} : QueryFeed(k) \/ QueryTimeline(k) \/ Ready(k)

Spec == Init /\ [][Next]_vars

-----------------------------------------------------------------------------
(* Properties.                                                             *)

\* The list is in order, without repetition, all as the controls ask, and down
\* to its cursor it has all the evidence there was when its first page was
\* read, however much arrives or is superseded between two pages.
FeedComplete ==
    /\ \A i \in 2..Len(raw) : Before(raw[i - 1], raw[i])
    /\ \A i \in DOMAIN raw : Matches(raw[i], filter)
    /\ \A r \in first :
          Matches(r, filter) /\ cursor # None /\ ~Older(r, cursor) => r \in Range(raw)

\* When no older events are offered there are none: the list has all that its
\* first page's reading could see, unless the timeline's newest query has failed.
EndIsTheEnd ==
    request.newest = None /\ ~more /\ ~(list = "timeline" /\ failed) =>
        \A r \in first : Matches(r, filter) => r \in Range(raw)

\* Bursts hide nothing: they are the feed's rows in their order, each says one
\* thing and spans at most BurstSpan, and none could have been longer.
BurstsFaithful ==
    LET bursts == Bursts(raw) IN
    /\ FlattenSeq(bursts) = raw
    /\ \A b \in Range(bursts) :
          \A i, j \in DOMAIN b : b[i].says = b[j].says /\ b[i].at - b[j].at <= BurstSpan
    /\ \A i \in 2..Len(bursts) :
          LET b == bursts[i - 1] next == bursts[i][1]
          IN  \E r \in Range(b) : r.says # next.says \/ r.at - next.at > BurstSpan
=============================================================================
