--------------------------- MODULE JournalIngest ---------------------------
(***************************************************************************)
(* How the collector turns the systemd journal into stored evidence: the   *)
(* bounded backfill a launch runs first, and the follower thread that runs *)
(* for the rest of the process's life (app/pcdiag_collector.py).           *)
(*                                                                         *)
(* A journal record is its position 1, 2, 3, ...; positions also stand for *)
(* the records' timestamps, so "since T" is a position too, and the small  *)
(* overlap windows the code subtracts from a timestamp are a number of     *)
(* positions (any number up to the constant: the code subtracts seconds).  *)
(* Evidence that a transaction has inserted but not committed is `staged'; *)
(* a SQLite transaction is open exactly while `staged' is not empty.       *)
(***************************************************************************)
EXTENDS Integers, FiniteSets

CONSTANTS
    MaxRecords,        \* bound: records journald ever writes
    MaxFaults,         \* bound: crashes, errors and journalctl exits
    Storable,          \* positions whose record is evidence (has a message, and
                       \* a priority of warning or worse or a matching rule)
    Oversized,         \* positions whose line exceeds MAX_JOURNAL_RECORD_CHARS
    CheckpointRecords, \* BACKFILL_CHECKPOINT_RECORDS
    RecordLimit,       \* BACKFILL_RECORD_LIMIT
    FollowBatch,       \* records after which the follower commits (100)
    BackfillAge,       \* records within the 30 days a first backfill reads back
    BackfillOverlap,   \* records within the backfill's 60 s overlap
    FollowOverlap      \* records within the follower's 2 s overlap

Position == 1..MaxRecords

ASSUME JournalAssumption ==
    /\ MaxRecords \in Nat \ {0}
    /\ MaxFaults \in Nat
    /\ Storable \subseteq Position
    /\ Oversized \subseteq Position
    /\ CheckpointRecords \in Nat \ {0}
    /\ RecordLimit \in Nat \ {0}
    /\ FollowBatch \in Nat \ {0}
    /\ BackfillAge \in Nat
    /\ BackfillOverlap \in Nat
    /\ FollowOverlap \in Nat

VARIABLES
    \* journald
    head,       \* last position written, 0 while the journal is empty
    tail,       \* first position rotation has left in the journal
    \* the database, as committed
    evidence,   \* positions with a row in evidence
    cursor,     \* source_offsets.cursor, 0 for the empty string
    at,         \* source_offsets.occurred_us, 0 while there is no row
    synthetic,  \* newest evidence the probes recorded, 0 while there is none
    \* the collector
    pc,         \* where the journal thread of control is
    pos,        \* position of the next line journalctl prints
    saved,      \* saved_cursor of this reader
    last,       \* last_cursor, 0 for the empty string
    pending,    \* records since the last commit
    processed,  \* records this backfill has handled
    staged,     \* evidence inserted by the open transaction
    \* history
    faults,     \* crashes, errors and journalctl exits so far
    erased,     \* evidence a cleanup or retention has deleted
    missed      \* storable records passed over, by reason

journal   == <<head, tail>>
offset    == <<cursor, at>>
database  == <<evidence, cursor, at, synthetic>>
reader    == <<pos, saved, last, pending, processed>>
history   == <<erased, missed>>
vars      == <<journal, database, pc, reader, staged, faults, history>>

Reasons == {"fresh",      \* a follower with no stored offset started at now-2s
            "old",        \* a backfill with neither a cursor nor any evidence
                          \* started 30 days ago
            "evidence",   \* a backfill without a cursor started at the latest
                          \* evidence, which a probe may have recorded
            "oversized"}  \* the backfill's line limit

Reading == {"backfill", "follow", "alert", "account"}

Missed     == missed["fresh"] \cup missed["old"]
                  \cup missed["evidence"] \cup missed["oversized"]
Recorded   == evidence \cup erased \cup Missed
Unrecorded == Storable \ Recorded

TypeOK ==
    /\ head \in 0..MaxRecords
    /\ tail \in 1..(MaxRecords + 1)
    /\ evidence \subseteq Storable
    /\ cursor \in 0..MaxRecords
    /\ at \in 0..MaxRecords
    /\ synthetic \in 0..MaxRecords
    /\ pc \in Reading \cup {"down", "backfillStart", "followStart"}
    /\ pos \in 1..(MaxRecords + 1)
    /\ saved \in 0..MaxRecords
    /\ last \in 0..MaxRecords
    /\ pending \in Nat
    /\ processed \in Nat
    /\ staged \subseteq Storable
    /\ faults \in Nat
    /\ erased \subseteq Storable
    /\ missed \in [Reasons -> SUBSET Storable]

Init ==
    /\ head \in 0..MaxRecords
    /\ tail = 1
    /\ evidence = {}
    /\ cursor = 0
    /\ at = 0
    /\ synthetic = 0
    /\ pc = "down"
    /\ pos = 1
    /\ saved = 0
    /\ last = 0
    /\ pending = 0
    /\ processed = 0
    /\ staged = {}
    /\ faults = 0
    /\ erased = {}
    /\ missed = [r \in Reasons |-> {}]

-----------------------------------------------------------------------------
(* journald: records are appended, and rotation drops the oldest ones.     *)

Append ==
    /\ head < MaxRecords
    /\ head' = head + 1
    /\ UNCHANGED <<tail, database, pc, reader, staged, faults, history>>

Rotate ==
    /\ tail <= head
    /\ tail' = tail + 1
    /\ UNCHANGED <<head, database, pc, reader, staged, faults, history>>

-----------------------------------------------------------------------------
(* Pieces the handlers share.                                              *)

Later(a, b) == IF a >= b THEN a ELSE b

\* The position of the line journalctl prints next: rotation may have
\* removed the one the reader was about to read.
NextLine == Later(pos, tail)

\* journalctl cannot seek to a cursor whose entry has been rotated away.
CursorExpired == cursor # 0 /\ cursor < tail

\* The positions "--since T" may start at, for a T that lies up to `overlap'
\* records before the record at position p.
SinceBefore(p, overlap) == Later(1, p - overlap)..Later(1, p)

\* A reader starts at position p, having resumed for the given reason.
StartReading(p, where, reason) ==
    /\ pc' = where
    /\ pos' = p
    /\ last' = 0
    /\ pending' = 0
    /\ processed' = 0
    /\ missed' = IF reason \in Reasons
                 THEN [missed EXCEPT ![reason] =
                          @ \cup {q \in Unrecorded : tail <= q /\ q < p}]
                 ELSE missed

\* Faulty variant: every record is stored, whatever its priority and message.
InsertedUnfiltered(p) == {q \in {p} : q \notin evidence}

\* ingest_journal_record: a storable record whose cursor is new becomes evidence.
Inserted(p) == {q \in {p} : q \in Storable /\ q \notin evidence}

StoreOffset(p) ==
    /\ cursor' = p
    /\ at' = p

Fault ==
    /\ faults < MaxFaults
    /\ faults' = faults + 1

Commit ==
    /\ evidence' = evidence \cup staged
    /\ staged' = {}

Rollback ==
    /\ staged' = {}
    /\ UNCHANGED <<evidence, cursor, at>>

-----------------------------------------------------------------------------
(* Backfill.                                                               *)

Launch ==
    /\ pc = "down"
    /\ pc' = "backfillStart"
    /\ UNCHANGED <<journal, database, reader, staged, faults, history>>

BackfillFromCursor ==
    /\ pc = "backfillStart"
    /\ cursor # 0
    /\ ~CursorExpired
    /\ saved' = cursor
    /\ StartReading(cursor + 1, "backfill", "cursor")
    /\ UNCHANGED <<journal, database, staged, faults, erased>>

\* Without a cursor the start is taken from the newest evidence of any kind.
BackfillFromEvidence ==
    /\ pc = "backfillStart"
    /\ cursor = 0
    /\ saved' = 0
    /\ \E latest \in (evidence \cup {synthetic}) \ {0} :
          /\ \A e \in evidence : e <= latest
          /\ synthetic <= latest
          /\ \E p \in SinceBefore(latest, BackfillOverlap) :
                StartReading(p, "backfill", "evidence")
    /\ UNCHANGED <<journal, database, staged, faults, erased>>

\* With neither a cursor nor evidence the start is 30 days before now.
BackfillFirst ==
    /\ pc = "backfillStart"
    /\ cursor = 0 /\ evidence = {} /\ synthetic = 0
    /\ saved' = 0
    /\ \E p \in SinceBefore(head + 1, BackfillAge) : StartReading(p, "backfill", "old")
    /\ UNCHANGED <<journal, database, staged, faults, erased>>

\* journalctl exits at once, having printed nothing: the cursor is forgotten.
BackfillExpired ==
    /\ pc = "backfillStart"
    /\ CursorExpired
    /\ cursor' = 0
    /\ pc' = "followStart"
    /\ UNCHANGED <<journal, evidence, at, synthetic, reader, staged, faults, history>>

BackfillCannotStart ==
    /\ pc = "backfillStart"
    /\ Fault
    /\ pc' = "followStart"
    /\ UNCHANGED <<journal, database, reader, staged, history>>

\* Faulty variant: the checkpoint comes one record late.
BatchOverfull(records) == records > CheckpointRecords

BatchFull(records) == records >= CheckpointRecords

\* One line of the backfill: ingest, and checkpoint when a batch is full.
BackfillRead ==
    /\ pc = "backfill"
    /\ NextLine <= head
    /\ NextLine \notin Oversized
    /\ processed < RecordLimit
    /\ pos' = NextLine + 1
    /\ last' = NextLine
    /\ processed' = processed + 1
    /\ IF BatchFull(pending + 1)
       THEN /\ pending' = 0
            /\ evidence' = evidence \cup staged \cup Inserted(NextLine)
            /\ staged' = {}
            /\ StoreOffset(NextLine)
       ELSE /\ pending' = pending + 1
            /\ staged' = staged \cup Inserted(NextLine)
            /\ UNCHANGED <<evidence, cursor, at>>
    /\ UNCHANGED <<journal, synthetic, pc, saved, faults, history>>

\* The reader thread drops a line that is too long.
BackfillDrop ==
    /\ pc = "backfill"
    /\ NextLine <= head
    /\ NextLine \in Oversized
    /\ pos' = NextLine + 1
    /\ missed' = [missed EXCEPT !["oversized"] = @ \cup ({NextLine} \cap Unrecorded)]
    /\ UNCHANGED <<journal, database, pc, saved, last, pending, processed,
                   staged, faults, erased>>

\* The loop ends: at the end of the journal, at the record limit, or at the
\* deadline, which may strike at any time.  A journalctl that had to be
\* terminated, or failed, has a nonzero return code.
BackfillEnd ==
    /\ pc = "backfill"
    /\ pc' = "followStart"
    /\ \E terminated \in BOOLEAN :
          IF saved # 0 /\ processed = 0 /\ terminated
          THEN /\ cursor' = 0
               /\ UNCHANGED <<evidence, at, staged>>
          ELSE /\ Commit
               /\ IF last # 0 THEN StoreOffset(last) ELSE UNCHANGED offset
    /\ UNCHANGED <<journal, synthetic, reader, faults, history>>

\* sqlite3.Error, OSError, TypeError or ValueError while reading.
BackfillError ==
    /\ pc = "backfill"
    /\ Fault
    /\ Rollback
    /\ pc' = "followStart"
    /\ UNCHANGED <<journal, synthetic, reader, history>>

-----------------------------------------------------------------------------
(* The follower.                                                           *)

FollowFromCursor ==
    /\ pc = "followStart"
    /\ cursor # 0
    /\ ~CursorExpired
    /\ saved' = cursor
    /\ StartReading(cursor + 1, "follow", "cursor")
    /\ UNCHANGED <<journal, database, staged, faults, erased>>

\* Faulty variant: the timestamp resume starts after "now" instead of shortly
\* before the stored timestamp.
FollowFromNow ==
    /\ pc = "followStart"
    /\ cursor = 0
    /\ at # 0
    /\ saved' = 0
    /\ StartReading(head + 1, "follow", "timestamp")
    /\ UNCHANGED <<journal, database, staged, faults, erased>>

FollowFromTimestamp ==
    /\ pc = "followStart"
    /\ cursor = 0
    /\ at # 0
    /\ saved' = 0
    /\ \E p \in SinceBefore(at, FollowOverlap) : StartReading(p, "follow", "timestamp")
    /\ UNCHANGED <<journal, database, staged, faults, erased>>

\* No offset row: the follower starts two seconds before now.
FollowFresh ==
    /\ pc = "followStart"
    /\ at = 0
    /\ saved' = 0
    /\ \E p \in SinceBefore(head + 1, FollowOverlap) : StartReading(p, "follow", "fresh")
    /\ UNCHANGED <<journal, database, staged, faults, erased>>

\* Faulty variant: the follower keeps retrying a cursor that has expired.
FollowExpiredRetries ==
    /\ pc = "followStart"
    /\ CursorExpired
    /\ UNCHANGED vars

FollowExpired ==
    /\ pc = "followStart"
    /\ CursorExpired
    /\ cursor' = 0
    /\ UNCHANGED <<journal, evidence, at, synthetic, pc, reader, staged, faults, history>>

\* One line of the follower is ingested into the open transaction.
FollowRead ==
    /\ pc = "follow"
    /\ NextLine <= head
    /\ pos' = NextLine + 1
    /\ staged' = staged \cup Inserted(NextLine)
    /\ pc' = IF Inserted(NextLine) \ staged # {} THEN "alert" ELSE "account"
    /\ UNCHANGED <<journal, database, saved, last, pending, processed, faults, history>>

\* maybe_notify commits the transaction when an alert was delivered, and
\* leaves it open when none was due or delivery failed.
Alert ==
    /\ pc = "alert"
    /\ pc' = "account"
    /\ \E delivered \in BOOLEAN :
          IF delivered THEN Commit ELSE UNCHANGED <<evidence, staged>>
    /\ UNCHANGED <<journal, cursor, at, synthetic, reader, faults, history>>

\* Bookkeeping after a line.  The clock decides whether a second has passed
\* since the last commit; it always has for a reader's first line.
Account ==
    /\ pc = "account"
    /\ pc' = "follow"
    /\ last' = pos - 1
    /\ \E secondElapsed \in BOOLEAN :
          /\ last = 0 => secondElapsed
          /\ IF secondElapsed \/ pending + 1 >= FollowBatch
             THEN /\ pending' = 0
                  /\ StoreOffset(pos - 1)
                  /\ Commit
             ELSE /\ pending' = pending + 1
                  /\ UNCHANGED <<evidence, cursor, at, staged>>
    /\ UNCHANGED <<journal, synthetic, pos, saved, processed, faults, history>>

\* journalctl exits: what was read is committed, and after a failure of a
\* reader that had resumed from a cursor the cursor is forgotten.
FollowEof ==
    /\ pc = "follow"
    /\ Fault
    /\ pc' = "followStart"
    /\ IF pending > 0 THEN Commit ELSE UNCHANGED <<evidence, staged>>
    /\ \E failed \in BOOLEAN :
          /\ cursor' = IF saved # 0 /\ failed THEN 0
                       ELSE IF pending > 0 THEN last ELSE cursor
          /\ at' = IF pending > 0 THEN last ELSE at
    /\ UNCHANGED <<journal, synthetic, reader, history>>

\* Faulty variant: the handler forgets to roll back.
FollowErrorKeepsTransaction ==
    /\ pc \in {"follow", "alert", "account"}
    /\ Fault
    /\ pc' = "followStart"
    /\ UNCHANGED <<journal, database, staged, reader, history>>

FollowError ==
    /\ pc \in {"follow", "alert", "account"}
    /\ Fault
    /\ Rollback
    /\ pc' = "followStart"
    /\ UNCHANGED <<journal, synthetic, reader, history>>

-----------------------------------------------------------------------------
(* The process and the rest of the system.                                 *)

\* The process dies, or its main thread returns while the daemon thread is
\* still reading: SQLite discards the open transaction.
Crash ==
    /\ pc # "down"
    /\ Fault
    /\ Rollback
    /\ pc' = "down"
    /\ UNCHANGED <<journal, synthetic, reader, history>>

\* A probe of the collector's main thread records evidence of its own, dated
\* now.  Like every writer it waits while a transaction is open.
SyntheticEvidence ==
    /\ pc \in Reading \cup {"followStart"}
    /\ staged = {}
    /\ head > synthetic
    /\ synthetic' = head
    /\ UNCHANGED <<journal, evidence, cursor, at, pc, reader, staged, faults, history>>

\* Clear history (k = head) or retention (the evidence up to an age) deletes
\* evidence and keeps the stored offset.
Erase ==
    /\ staged = {}
    /\ \E k \in 1..head :
          /\ evidence' = {e \in evidence : e > k}
          /\ erased' = erased \cup (evidence \cap (1..k))
          /\ synthetic' = IF synthetic > k THEN synthetic ELSE 0
    /\ UNCHANGED <<journal, cursor, at, pc, reader, staged, faults, missed>>

-----------------------------------------------------------------------------

Progress ==
    \/ Launch
    \/ BackfillFromCursor
    \/ BackfillFromEvidence
    \/ BackfillFirst
    \/ BackfillExpired
    \/ BackfillRead
    \/ BackfillDrop
    \/ BackfillEnd
    \/ FollowFromCursor
    \/ FollowFromTimestamp
    \/ FollowFresh
    \/ FollowExpired
    \/ FollowRead
    \/ Alert
    \/ Account

Disruption ==
    \/ BackfillCannotStart
    \/ BackfillError
    \/ FollowEof
    \/ FollowError
    \/ Crash

Next ==
    \/ Append
    \/ Rotate
    \/ Progress
    \/ Disruption
    \/ SyntheticEvidence
    \/ Erase

Spec == Init /\ [][Next]_vars

\* The journal thread of control runs, and a launch is retried.
FairSpec == Spec /\ WF_vars(Progress)

-----------------------------------------------------------------------------
(* Properties.                                                             *)

\* The stored offset never overtakes the stored evidence: every storable record
\* at or before it that is still in the journal is in the database, or was
\* deleted from it, or was passed over for one of the named reasons.  This is
\* what makes it safe to resume after the offset, whatever crash, rollback,
\* mid-batch commit by an alert, or expired cursor came before.
OffsetCovered ==
    \A p \in Storable : tail <= p /\ p <= at => p \in Recorded

\* The records up to the last one handled that the stored offset does not cover
\* and that could be handled.
Unstored == {p \in (at + 1)..last : tail <= p /\ p \notin Oversized}

\* A backfill that has handled a batch has stored its progress: fewer
\* than a batch of the records it handled are not covered by the offset.
BackfillProgressStored ==
    pc = "backfill" /\ processed >= CheckpointRecords
        => Cardinality(Unstored) < CheckpointRecords

\* No transaction outlives its reader: while the follower waits to be started
\* again, nothing keeps the other writers of the database out.
NoTransactionLeft == pc \notin Reading => staged = {}

\* Every storable record of the journal is eventually ingested for good,
\* unless it is rotated away first or passed over for a named reason.
EventuallyIngested ==
    \A p \in Storable :
        (p <= head) ~> [](p \in Recorded \cup staged \/ p < tail)
=============================================================================
