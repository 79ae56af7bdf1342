------------------------ MODULE JournalIngestProofs ------------------------
(***************************************************************************)
(* Type correctness of JournalIngest, and that the stored journal offset   *)
(* never overtakes the stored evidence, for every journal length, batch    *)
(* size and overlap.                                                       *)
(***************************************************************************)
EXTENDS JournalIngest, FiniteSetTheorems, TLAPS

\* What a reader has passed is recorded, or staged in its transaction.
ReaderCovered ==
    pc \in Reading =>
        \A p \in Storable : tail <= p /\ p < pos => p \in Recorded \cup staged

\* The offset a reader may store lies before its position, and a cursor that
\* is not empty names the same record as the timestamp stored with it.
ReaderOrder ==
    /\ pc \in Reading => last < pos
    /\ pc = "account" => pos > 1
    /\ pc = "alert" => pos > 1
    /\ cursor \in {0, at}

\* The counters that tell a reader whether its transaction is open.
TransactionCounted ==
    /\ pc = "follow" /\ pending = 0 => staged = {}
    /\ pc = "backfill" /\ processed = 0 => staged = {}
    /\ pc = "follow" /\ pending > 0 => last # 0
    /\ pc = "backfill" /\ processed > 0 => last # 0

\* The inductive invariant behind OffsetCovered and NoTransactionLeft.
IInv ==
    /\ TypeOK
    /\ OffsetCovered
    /\ ReaderCovered
    /\ ReaderOrder
    /\ TransactionCounted
    /\ NoTransactionLeft

-----------------------------------------------------------------------------

\* The initial states, with nothing stored and no reader, satisfy IInv.
LEMMA InitIInv == Init => IInv
  BY JournalAssumption
     DEF Init, IInv, TypeOK, OffsetCovered, ReaderCovered, ReaderOrder,
         TransactionCounted, NoTransactionLeft, Position, Reasons, Reading

\* What JournalAssumption says of the sets of positions, in the form the
\* steps below use.
LEMMA PositionFacts ==
    /\ MaxRecords \in Nat
    /\ MaxRecords > 0
    /\ \A p \in Storable : p \in Nat /\ p >= 1 /\ p <= MaxRecords
  BY JournalAssumption DEF Position

\* The next line lies in the journal and not before the reader's position.
LEMMA NextLineFacts ==
    ASSUME TypeOK, NextLine <= head
    PROVE  /\ NextLine \in 1..MaxRecords
           /\ pos <= NextLine
           /\ tail <= NextLine
           /\ \A p \in Storable : tail <= p /\ p < NextLine + 1 => p < pos \/ p = NextLine
  BY PositionFacts DEF TypeOK, NextLine, Later

\* Every position "--since" may start at is a position.
LEMMA SinceFacts ==
    ASSUME NEW p \in 0..(MaxRecords + 1), NEW overlap \in Nat,
           NEW q \in SinceBefore(p, overlap)
    PROVE  q \in 1..(MaxRecords + 1) /\ (p >= 1 => q <= p)
  BY PositionFacts DEF SinceBefore, Later

-----------------------------------------------------------------------------
(* One lemma per conjunct of IInv: every step preserves it.                *)

\* Every step of journald, the reader and the rest keeps the types.
LEMMA TypeStep ==
    ASSUME TypeOK, Next
    PROVE  TypeOK'
<1> USE PositionFacts DEF TypeOK, Reading, Reasons
<1>1. CASE Append
  BY <1>1 DEF Append, database, reader, history
<1>2. CASE Rotate
  BY <1>2 DEF Rotate, database, reader, history
<1>3. CASE Launch
  BY <1>3 DEF Launch, journal, database, reader, history
<1>4. CASE BackfillFromCursor
  BY <1>4 DEF BackfillFromCursor, StartReading, Unrecorded, journal, database
<1>5. CASE BackfillFromEvidence
  <2>1. PICK latest \in evidence \cup {synthetic} :
          \E p \in SinceBefore(latest, BackfillOverlap) :
             StartReading(p, "backfill", "evidence")
    BY <1>5 DEF BackfillFromEvidence
  <2>2. PICK p \in 1..(MaxRecords + 1) : StartReading(p, "backfill", "evidence")
    BY <2>1, SinceFacts, JournalAssumption
  <2> QED
    BY <1>5, <2>2 DEF BackfillFromEvidence, StartReading, Unrecorded, journal, database
<1>6. CASE BackfillExpired
  BY <1>6 DEF BackfillExpired, journal, reader, history
<1>7. CASE BackfillCannotStart
  BY <1>7 DEF BackfillCannotStart, Fault, journal, database, reader, history
<1>8. CASE BackfillRead
  BY <1>8, NextLineFacts DEF BackfillRead, StoreOffset, Inserted, journal, history
<1>9. CASE BackfillDrop
  BY <1>9, NextLineFacts DEF BackfillDrop, Unrecorded, journal, database
<1>10. CASE BackfillEnd
  BY <1>10 DEF BackfillEnd, Commit, StoreOffset, journal, reader, history, offset
<1>11. CASE BackfillError
  BY <1>11 DEF BackfillError, Fault, Rollback, journal, reader, history
<1>12. CASE FollowFromCursor
  BY <1>12 DEF FollowFromCursor, StartReading, Unrecorded, journal, database
<1>13. CASE FollowFromTimestamp
  <2>1. PICK p \in 1..(MaxRecords + 1) : StartReading(p, "follow", "timestamp")
    BY <1>13, SinceFacts, JournalAssumption DEF FollowFromTimestamp
  <2> QED
    BY <1>13, <2>1 DEF FollowFromTimestamp, StartReading, Unrecorded, journal, database
<1>14. CASE FollowFresh
  <2>1. PICK p \in 1..(MaxRecords + 1) : StartReading(p, "follow", "fresh")
    BY <1>14, SinceFacts, JournalAssumption DEF FollowFresh
  <2> QED
    BY <1>14, <2>1 DEF FollowFresh, StartReading, Unrecorded, journal, database
<1>15. CASE FollowExpired
  BY <1>15 DEF FollowExpired, journal, reader, history
<1>16. CASE FollowRead
  BY <1>16, NextLineFacts DEF FollowRead, Inserted, journal, database, history
<1>17. CASE Alert
  BY <1>17 DEF Alert, Commit, journal, reader, history
<1>18. CASE Account
  BY <1>18 DEF Account, Commit, StoreOffset, journal, history
<1>19. CASE FollowEof
  BY <1>19 DEF FollowEof, Fault, Commit, journal, reader, history
<1>20. CASE FollowError
  BY <1>20 DEF FollowError, Fault, Rollback, journal, reader, history
<1>21. CASE Crash
  BY <1>21 DEF Crash, Fault, Rollback, journal, reader, history
<1>22. CASE SyntheticEvidence
  BY <1>22 DEF SyntheticEvidence, journal, reader, history
<1>23. CASE Erase
  BY <1>23 DEF Erase, journal, reader
<1>24. CASE BackfillFirst
  <2>1. PICK p \in 1..(MaxRecords + 1) : StartReading(p, "backfill", "old")
    BY <1>24, SinceFacts, JournalAssumption DEF BackfillFirst
  <2> QED
    BY <1>24, <2>1 DEF BackfillFirst, StartReading, Unrecorded, journal, database
<1> QED
  BY <1>1, <1>2, <1>3, <1>4, <1>5, <1>6, <1>7, <1>8, <1>9, <1>10, <1>11, <1>12,
     <1>13, <1>14, <1>15, <1>16, <1>17, <1>18, <1>19, <1>20, <1>21, <1>22, <1>23,
     <1>24
     DEF Next, Progress, Disruption

-----------------------------------------------------------------------------

\* A reader that starts where the offset says, or that notes what it passes
\* over, leaves both coverage invariants true.
LEMMA StartCovers ==
    ASSUME TypeOK, OffsetCovered, cursor \in {0, at},
           NEW p \in 1..(MaxRecords + 1), NEW where \in Reading, NEW reason,
           StartReading(p, where, reason),
           reason \in Reasons \/ p <= at + 1,
           UNCHANGED <<tail, evidence, cursor, at, erased, staged>>
    PROVE  OffsetCovered' /\ ReaderCovered'
<1>1. missed' \in [Reasons -> SUBSET Storable] /\ Recorded \subseteq Recorded'
  BY DEF StartReading, TypeOK, Recorded, Missed, Unrecorded, Reasons
<1>2. OffsetCovered'
  BY <1>1 DEF OffsetCovered
<1>3. ASSUME NEW q \in Storable, tail <= q, q < p
      PROVE  q \in Recorded'
  <2>1. CASE reason \in Reasons
    <3>1. q \in Recorded \/ q \in missed'[reason]
      BY <1>3, <2>1 DEF StartReading, Unrecorded, TypeOK
    <3> QED
      BY <3>1, <2>1, <1>1 DEF Recorded, Missed, Reasons
  <2>2. CASE p <= at + 1
    <3>1. q <= at
      BY <1>3, <2>2, PositionFacts DEF TypeOK
    <3> QED
      BY <3>1, <1>3, <1>1 DEF OffsetCovered
  <2> QED
    BY <2>1, <2>2
<1> QED
  BY <1>2, <1>3 DEF ReaderCovered, StartReading

\* Every step keeps the coverage of the stored offset and of the reader.
LEMMA CoverStep ==
    ASSUME IInv, Next
    PROVE  OffsetCovered' /\ ReaderCovered'
<1> USE PositionFacts DEF IInv, TypeOK, OffsetCovered, ReaderCovered, ReaderOrder,
        Recorded, Missed, Reasons
<1>1. CASE Append
  BY <1>1 DEF Append, database, reader, history
<1>2. CASE Rotate
  BY <1>2 DEF Rotate, database, reader, history
<1>3. CASE Launch
  BY <1>3 DEF Launch, journal, database, reader, history, Reading
<1>4. CASE BackfillFromCursor
  BY <1>4, StartCovers DEF BackfillFromCursor, journal, database, Reading
<1>5. CASE BackfillFromEvidence
  <2>1. PICK latest \in evidence \cup {synthetic} :
          \E p \in SinceBefore(latest, BackfillOverlap) :
             StartReading(p, "backfill", "evidence")
    BY <1>5 DEF BackfillFromEvidence
  <2>2. PICK p \in 1..(MaxRecords + 1) : StartReading(p, "backfill", "evidence")
    BY <2>1, SinceFacts, JournalAssumption
  <2> QED
    BY <1>5, <2>2, StartCovers DEF BackfillFromEvidence, journal, database, Reading
<1>6. CASE BackfillExpired
  BY <1>6 DEF BackfillExpired, journal, reader, history, Reading
<1>7. CASE BackfillCannotStart
  BY <1>7 DEF BackfillCannotStart, journal, database, reader, history, Reading
<1>8. CASE BackfillRead
  BY <1>8, NextLineFacts DEF BackfillRead, StoreOffset, Inserted, journal, history, Reading
<1>9. CASE BackfillDrop
  BY <1>9, NextLineFacts DEF BackfillDrop, Unrecorded, journal, database, Reading
<1>10. CASE BackfillEnd
  BY <1>10 DEF BackfillEnd, Commit, StoreOffset, journal, reader, history, offset, Reading
<1>11. CASE BackfillError
  BY <1>11 DEF BackfillError, Rollback, journal, reader, history, Reading
<1>12. CASE FollowFromCursor
  BY <1>12, StartCovers DEF FollowFromCursor, journal, database, Reading
<1>13. CASE FollowFromTimestamp
  <2>1. PICK p \in 1..(MaxRecords + 1) : p <= at /\ StartReading(p, "follow", "timestamp")
    BY <1>13, SinceFacts, JournalAssumption DEF FollowFromTimestamp
  <2> QED
    BY <1>13, <2>1, StartCovers DEF FollowFromTimestamp, journal, database, Reading
<1>14. CASE FollowFresh
  <2>1. PICK p \in 1..(MaxRecords + 1) : StartReading(p, "follow", "fresh")
    BY <1>14, SinceFacts, JournalAssumption DEF FollowFresh
  <2> QED
    BY <1>14, <2>1, StartCovers DEF FollowFresh, journal, database, Reading
<1>15. CASE FollowExpired
  BY <1>15 DEF FollowExpired, journal, reader, history, Reading
<1>16. CASE FollowRead
  BY <1>16, NextLineFacts DEF FollowRead, Inserted, journal, database, history, Reading
<1>17. CASE Alert
  BY <1>17 DEF Alert, Commit, journal, reader, history, Reading
<1>18. CASE Account
  BY <1>18 DEF Account, Commit, StoreOffset, journal, history, Reading
<1>19. CASE FollowEof
  BY <1>19 DEF FollowEof, Commit, journal, reader, history, Reading
<1>20. CASE FollowError
  BY <1>20 DEF FollowError, Rollback, journal, reader, history, Reading
<1>21. CASE Crash
  BY <1>21 DEF Crash, Rollback, journal, reader, history, Reading
<1>22. CASE SyntheticEvidence
  BY <1>22 DEF SyntheticEvidence, journal, reader, history
<1>23. CASE Erase
  BY <1>23 DEF Erase, journal, reader
<1>24. CASE BackfillFirst
  <2>1. PICK p \in 1..(MaxRecords + 1) : StartReading(p, "backfill", "old")
    BY <1>24, SinceFacts, JournalAssumption DEF BackfillFirst
  <2> QED
    BY <1>24, <2>1, StartCovers DEF BackfillFirst, journal, database, Reading
<1> QED
  BY <1>1, <1>2, <1>3, <1>4, <1>5, <1>6, <1>7, <1>8, <1>9, <1>10, <1>11, <1>12,
     <1>13, <1>14, <1>15, <1>16, <1>17, <1>18, <1>19, <1>20, <1>21, <1>22, <1>23,
     <1>24
     DEF Next, Progress, Disruption

\* Every step keeps the reader in order and its transaction accounted for.
LEMMA OrderStep ==
    ASSUME IInv, Next
    PROVE  ReaderOrder' /\ TransactionCounted' /\ NoTransactionLeft'
<1> USE PositionFacts DEF IInv, TypeOK, ReaderOrder, TransactionCounted,
        NoTransactionLeft, Reading
<1>1. CASE Append
  BY <1>1 DEF Append, database, reader, history
<1>2. CASE Rotate
  BY <1>2 DEF Rotate, database, reader, history
<1>3. CASE Launch
  BY <1>3 DEF Launch, journal, database, reader, history
<1>4. CASE BackfillFromCursor
  BY <1>4 DEF BackfillFromCursor, StartReading, journal, database
<1>5. CASE BackfillFromEvidence
  <2>1. PICK latest \in evidence \cup {synthetic} :
          \E p \in SinceBefore(latest, BackfillOverlap) :
             StartReading(p, "backfill", "evidence")
    BY <1>5 DEF BackfillFromEvidence
  <2>2. PICK p \in 1..(MaxRecords + 1) : StartReading(p, "backfill", "evidence")
    BY <2>1, SinceFacts, JournalAssumption
  <2> QED
    BY <1>5, <2>2 DEF BackfillFromEvidence, StartReading, journal, database
<1>6. CASE BackfillExpired
  BY <1>6 DEF BackfillExpired, journal, reader, history
<1>7. CASE BackfillCannotStart
  BY <1>7 DEF BackfillCannotStart, journal, database, reader, history
<1>8. CASE BackfillRead
  BY <1>8, NextLineFacts DEF BackfillRead, StoreOffset, Inserted, journal, history
<1>9. CASE BackfillDrop
  BY <1>9, NextLineFacts DEF BackfillDrop, journal, database
<1>10. CASE BackfillEnd
  BY <1>10 DEF BackfillEnd, Commit, StoreOffset, journal, reader, history, offset
<1>11. CASE BackfillError
  BY <1>11 DEF BackfillError, Rollback, journal, reader, history
<1>12. CASE FollowFromCursor
  BY <1>12 DEF FollowFromCursor, StartReading, journal, database
<1>13. CASE FollowFromTimestamp
  <2>1. PICK p \in 1..(MaxRecords + 1) : StartReading(p, "follow", "timestamp")
    BY <1>13, SinceFacts, JournalAssumption DEF FollowFromTimestamp
  <2> QED
    BY <1>13, <2>1 DEF FollowFromTimestamp, StartReading, journal, database
<1>14. CASE FollowFresh
  <2>1. PICK p \in 1..(MaxRecords + 1) : StartReading(p, "follow", "fresh")
    BY <1>14, SinceFacts, JournalAssumption DEF FollowFresh
  <2> QED
    BY <1>14, <2>1 DEF FollowFresh, StartReading, journal, database
<1>15. CASE FollowExpired
  BY <1>15 DEF FollowExpired, journal, reader, history
<1>16. CASE FollowRead
  BY <1>16, NextLineFacts DEF FollowRead, journal, database, history
<1>17. CASE Alert
  BY <1>17 DEF Alert, Commit, journal, reader, history
<1>18. CASE Account
  BY <1>18 DEF Account, Commit, StoreOffset, journal, history
<1>19. CASE FollowEof
  BY <1>19 DEF FollowEof, Commit, journal, reader, history
<1>20. CASE FollowError
  BY <1>20 DEF FollowError, Rollback, journal, reader, history
<1>21. CASE Crash
  BY <1>21 DEF Crash, Rollback, journal, reader, history
<1>22. CASE SyntheticEvidence
  BY <1>22 DEF SyntheticEvidence, journal, reader, history
<1>23. CASE Erase
  BY <1>23 DEF Erase, journal, reader
<1>24. CASE BackfillFirst
  <2>1. PICK p \in 1..(MaxRecords + 1) : StartReading(p, "backfill", "old")
    BY <1>24, SinceFacts, JournalAssumption DEF BackfillFirst
  <2> QED
    BY <1>24, <2>1 DEF BackfillFirst, StartReading, journal, database
<1> QED
  BY <1>1, <1>2, <1>3, <1>4, <1>5, <1>6, <1>7, <1>8, <1>9, <1>10, <1>11, <1>12,
     <1>13, <1>14, <1>15, <1>16, <1>17, <1>18, <1>19, <1>20, <1>21, <1>22, <1>23,
     <1>24
     DEF Next, Progress, Disruption

-----------------------------------------------------------------------------

\* IInv is inductive.
LEMMA NextIInv == IInv /\ [Next]_vars => IInv'
<1>1. IInv /\ Next => IInv'
  BY TypeStep, CoverStep, OrderStep DEF IInv
<1>2. IInv /\ UNCHANGED vars => IInv'
  BY DEF IInv, TypeOK, OffsetCovered, ReaderCovered, ReaderOrder,
         TransactionCounted, NoTransactionLeft, Recorded, Missed,
         vars, journal, database, reader, history
<1> QED
  BY <1>1, <1>2

\* IInv holds in every reachable state.
LEMMA IInvInvariant == Spec => []IInv
  BY InitIInv, NextIInv, PTL DEF Spec

\* Type correctness of the ingestion model.
THEOREM TypeCorrect == Spec => []TypeOK
<1>1. IInv => TypeOK
  BY DEF IInv
<1> QED
  BY <1>1, IInvInvariant, PTL

\* The stored offset never overtakes the stored evidence, whatever crashes,
\* rollbacks, mid-batch commits, expired cursors and cleanups occur: resuming
\* after the offset loses no record but those passed over for a named reason.
THEOREM OffsetSafe == Spec => []OffsetCovered
<1>1. IInv => OffsetCovered
  BY DEF IInv
<1> QED
  BY <1>1, IInvInvariant, PTL

\* No reader leaves its transaction, and with it SQLite's write lock, behind.
THEOREM TransactionsEnd == Spec => []NoTransactionLeft
<1>1. IInv => NoTransactionLeft
  BY DEF IInv
<1> QED
  BY <1>1, IInvInvariant, PTL

-----------------------------------------------------------------------------
(* The backfill's checkpoints.                                             *)

\* The records since the last checkpoint are counted: before the first one by
\* processed as well, and from then on they are the ones not yet stored.  What
\* the reader has passed since the last record was rotated away or oversized.
BatchCounted ==
    pc = "backfill" =>
        /\ pending < CheckpointRecords
        /\ processed < CheckpointRecords => pending = processed
        /\ processed > 0 =>
              \A p \in (last + 1)..(pos - 1) : p < tail \/ p \in Oversized
        /\ processed >= CheckpointRecords => Cardinality(Unstored) <= pending

\* The unstored records are a finite set, and so are those after a step.
LEMMA UnstoredFinite ==
    ASSUME TypeOK
    PROVE  IsFiniteSet(Unstored) /\ Cardinality(Unstored) \in Nat
<1>1. IsFiniteSet((at + 1)..last)
  BY FS_Interval, PositionFacts DEF TypeOK
<1>2. Unstored \subseteq (at + 1)..last
  BY DEF Unstored
<1> QED BY <1>1, <1>2, FS_Subset, FS_CardinalityType

\* The unstored records do not become more while the reader reads nothing.
LEMMA UnstoredShrinks ==
    ASSUME TypeOK, at' = at, last' = last, tail' \in Nat, tail' >= tail
    PROVE  Cardinality(Unstored') <= Cardinality(Unstored) /\ Cardinality(Unstored') \in Nat
<1>1. Unstored' \subseteq Unstored
  BY PositionFacts DEF Unstored, TypeOK
<1> QED BY <1>1, UnstoredFinite, FS_Subset, FS_CardinalityType

\* A step that is not the backfill's keeps the count.
LEMMA CountKept ==
    ASSUME TypeOK, BatchCounted, tail' \in Nat, tail' >= tail,
           UNCHANGED <<at, reader>>, pc' = "backfill" => pc = "backfill"
    PROVE  BatchCounted'
  BY UnstoredShrinks, UnstoredFinite, PositionFacts, JournalAssumption
     DEF BatchCounted, TypeOK, reader

\* A reader that starts has counted nothing.
LEMMA CountStarts ==
    ASSUME NEW p, NEW where, NEW reason, StartReading(p, where, reason)
    PROVE  BatchCounted'
  BY JournalAssumption DEF BatchCounted, StartReading

\* A line the backfill reads is counted, or completes a batch that is stored.
LEMMA ReadCounts ==
    ASSUME IInv, BatchCounted, BackfillRead
    PROVE  BatchCounted'
<1> DEFINE n == NextLine
<1>1. TypeOK /\ pc = "backfill" /\ pc' = "backfill" /\ n <= head /\ n \notin Oversized
  BY DEF BackfillRead, IInv
<1>2. /\ n \in 1..MaxRecords /\ pos <= n /\ tail <= n /\ tail' = tail
      /\ last' = n /\ pos' = n + 1 /\ processed' = processed + 1
  BY <1>1, NextLineFacts DEF BackfillRead, journal
<1>3. \A p \in (last' + 1)..(pos' - 1) : FALSE
  BY <1>2
<1>4. CASE BatchFull(pending + 1)
  <2>1. pending' = 0 /\ at' = n
    BY <1>4 DEF BackfillRead, StoreOffset
  <2>2. Unstored' = {}
    BY <1>2, <2>1 DEF Unstored
  <2>3. Cardinality(Unstored') = 0
    BY <2>2, FS_EmptySet
  <2>4. processed' < CheckpointRecords => pending' = processed'
    BY <1>1, <1>2, <1>4, <2>1, JournalAssumption DEF BatchFull, BatchCounted, TypeOK
  <2> QED BY <1>3, <2>1, <2>3, <2>4, JournalAssumption DEF BatchCounted
<1>5. CASE ~BatchFull(pending + 1)
  <2>1. pending' = pending + 1 /\ at' = at /\ pending + 1 < CheckpointRecords
    BY <1>1, <1>5, JournalAssumption DEF BackfillRead, BatchFull, TypeOK
  <2>2. processed' < CheckpointRecords => pending' = processed'
    BY <1>1, <1>2, <2>1, JournalAssumption DEF BatchCounted, TypeOK
  <2>3. ASSUME processed' >= CheckpointRecords
        PROVE  Cardinality(Unstored') <= pending'
    <3>1. processed >= CheckpointRecords /\ processed > 0
      BY <1>1, <1>2, <2>1, <2>3, JournalAssumption DEF BatchCounted, TypeOK
    <3>2. \A p \in (last + 1)..(pos - 1) : p < tail \/ p \in Oversized
      BY <1>1, <3>1 DEF BatchCounted
    <3>3. \A p \in pos..(n - 1) : p < tail
      BY <1>1, <1>2 DEF NextLine, Later, TypeOK
    <3>4. Unstored' \subseteq Unstored \cup {n}
      <4> SUFFICES ASSUME NEW p \in Unstored', p # n PROVE p \in Unstored
        OBVIOUS
      <4>1. p \in Int /\ at + 1 <= p /\ p < n /\ tail <= p /\ p \notin Oversized
        BY <1>1, <1>2, <2>1 DEF Unstored, TypeOK
      <4>2. ~(p \in (last + 1)..(pos - 1)) /\ ~(p \in pos..(n - 1))
        BY <1>1, <3>2, <3>3, <4>1 DEF TypeOK
      <4>3. p <= last
        BY <1>1, <1>2, <4>1, <4>2 DEF TypeOK
      <4> QED BY <1>1, <4>1, <4>3 DEF Unstored, TypeOK
    <3>5. /\ IsFiniteSet(Unstored \cup {n})
          /\ Cardinality(Unstored \cup {n}) <= Cardinality(Unstored) + 1
          /\ Cardinality(Unstored \cup {n}) \in Nat
      <4>1. CASE n \in Unstored
        <5>1. Unstored \cup {n} = Unstored
          BY <4>1
        <5> QED BY <1>1, <5>1, UnstoredFinite
      <4>2. CASE n \notin Unstored
        <5>1. IsFiniteSet(Unstored) /\ Cardinality(Unstored) \in Nat
          BY <1>1, UnstoredFinite
        <5>2. /\ IsFiniteSet(Unstored \cup {n})
              /\ Cardinality(Unstored \cup {n}) = Cardinality(Unstored) + 1
          BY <4>2, <5>1, FS_AddElement
        <5> QED BY <5>1, <5>2
      <4> QED BY <4>1, <4>2
    <3>6. Cardinality(Unstored') <= Cardinality(Unstored) + 1
      <4>1. Cardinality(Unstored') <= Cardinality(Unstored \cup {n})
        BY <3>4, <3>5, FS_Subset
      <4>2. Cardinality(Unstored') \in Nat
        BY <3>4, <3>5, FS_Subset, FS_CardinalityType
      <4> QED BY <1>1, <3>5, <4>1, <4>2, UnstoredFinite
    <3>7. Cardinality(Unstored) <= pending
      BY <1>1, <3>1 DEF BatchCounted
    <3>8. Cardinality(Unstored') \in Nat
      BY <3>4, <3>5, FS_Subset, FS_CardinalityType
    <3> QED BY <1>1, <2>1, <3>6, <3>7, <3>8, UnstoredFinite DEF TypeOK
  <2> QED BY <1>3, <2>1, <2>2, <2>3 DEF BatchCounted
<1> QED BY <1>4, <1>5

\* Every step keeps the count.
LEMMA BatchStep ==
    ASSUME IInv, BatchCounted, [Next]_vars
    PROVE  BatchCounted'
<1> USE DEF IInv
<1>1. CASE Append \/ Rotate
  BY <1>1, CountKept DEF Append, Rotate, database, TypeOK
<1>2. CASE SyntheticEvidence \/ Erase
  BY <1>2, CountKept DEF SyntheticEvidence, Erase, journal, offset, TypeOK
<1>3. CASE BackfillFromCursor
  BY <1>3, CountStarts DEF BackfillFromCursor
<1>4. CASE BackfillFromEvidence \/ BackfillFirst
  BY <1>4, CountStarts DEF BackfillFromEvidence, BackfillFirst
<1>5. CASE BackfillRead
  BY <1>5, ReadCounts
<1>6. CASE BackfillDrop
  <2>1. /\ NextLine \in Oversized /\ NextLine \in 1..MaxRecords /\ pos <= NextLine
        /\ pos' = NextLine + 1 /\ pc = "backfill"
        /\ UNCHANGED <<at, tail, last, pending, processed>>
    BY <1>6, NextLineFacts DEF BackfillDrop, journal, database
  <2>2. \A p \in pos..(NextLine - 1) : p < tail
    BY <2>1 DEF NextLine, Later, TypeOK
  <2>3. processed > 0 => \A p \in (last + 1)..(pos' - 1) : p < tail \/ p \in Oversized
    BY <2>1, <2>2 DEF BatchCounted, TypeOK
  <2>4. Unstored' = Unstored
    BY <2>1 DEF Unstored
  <2> QED BY <2>1, <2>3, <2>4 DEF BatchCounted
<1>7. CASE UNCHANGED vars
  BY <1>7, CountKept DEF vars, journal, database, TypeOK
<1>8. CASE \/ Launch \/ BackfillExpired \/ BackfillEnd \/ BackfillCannotStart \/ BackfillError
           \/ FollowFromCursor \/ FollowFromTimestamp \/ FollowFresh \/ FollowExpired
           \/ FollowRead \/ Alert \/ Account \/ FollowEof \/ FollowError \/ Crash
  <2>1. pc' # "backfill"
    BY <1>8
       DEF Launch, BackfillExpired, BackfillEnd, BackfillCannotStart, BackfillError,
           FollowFromCursor, FollowFromTimestamp, FollowFresh, FollowExpired, FollowRead,
           Alert, Account, FollowEof, FollowError, Crash, StartReading
  <2> QED BY <2>1 DEF BatchCounted
<1> QED
  BY <1>1, <1>2, <1>3, <1>4, <1>5, <1>6, <1>7, <1>8 DEF Next, Progress, Disruption

\* A backfill that has handled a batch has stored its progress, whatever is
\* appended, rotated away and deleted while it reads.
THEOREM ProgressStored == Spec => []BackfillProgressStored
<1>1. Init => BatchCounted
  BY DEF Init, BatchCounted
<1>2. IInv /\ BatchCounted => BackfillProgressStored
  BY UnstoredFinite, JournalAssumption
     DEF IInv, TypeOK, BatchCounted, BackfillProgressStored
<1>3. IInv /\ BatchCounted /\ [Next]_vars => BatchCounted'
  BY BatchStep
<1> QED
  BY <1>1, <1>2, <1>3, IInvInvariant, PTL DEF Spec

=============================================================================
