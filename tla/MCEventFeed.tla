---------------------------- MODULE MCEventFeed ----------------------------
(* The model-checking instance of EventFeed. *)
EXTENDS EventFeed, FiniteSets

\* The evidence there can be, with ids AUTOINCREMENT gave.
Evidences ==
    {S \in UNION {kSubset(n, Row) : n \in 0..MaxEvidence} :
        \A r, s \in S : r.id = s.id => r = s}

\* The page that sorting the matching evidence and cutting it off gives.
SortedPage(matching) ==
    LET sorted == SetToSortSeq(matching, Before)
    IN  SubSeq(sorted, 1, IF Len(sorted) < PageSize THEN Len(sorted) ELSE PageSize)

\* A query has one answer, whatever the evidence: ORDER BY ... LIMIT is computed.
ASSUME PageIsTheSortedOne ==
    \A S \in Evidences : Pages(S) = {SortedPage(S)}
=============================================================================
