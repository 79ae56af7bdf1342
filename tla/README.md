# Verification of PC Diagnostics

TLA+ models of PC Diagnostics: its collector, incident database, privileged
tuning helper and the window's background work, checked with TLC on small
instances and, where it matters most, proved with TLAPS for every value of the
constants. Every definition is translated from the Python source in `src/app`;
`PROJECT.json` maps each one to its lines.

## The system

PC Diagnostics collects evidence of hardware and system faults on a Linux
desktop, condenses it into incidents, and offers reversible CPU and GPU tuning.

```
 journald --> collector (main thread: launch, probes, pruning; thread: journal follower)
                 |  \                                   \
                 |   notify-send                         helper (root, read-only, one process per request)
                 v
              SQLite database  <---- window (GTK main loop; thread pool)
                                        |
                                        v
              tuning helper (root, one process per request) --> cpufreq, boost, nvidia-smi
                                                            --> baseline.json, lock file
```

| Component | State it keeps | Operations | Hard part | What makes it correct | Modelled by |
|---|---|---|---|---|---|
| Journal ingestion (`pcdiag_collector.py`) | `source_offsets`, `evidence`, the reader's position and open transaction | backfill, follow, checkpoint, commit, roll back, forget a cursor | crashes between insert and commit, rotation, three ways to resume, a commit in mid-batch | resuming after the stored offset loses nothing; no transaction outlives its reader; everything is ingested in the end | `JournalIngest` |
| Incident store (`pcdiag_engine.py`) | `incidents`, `evidence`, `forensic_cases` | file evidence, file a case, promote, reconcile, mark historical, prune, acknowledge, resolve, clear | evidence out of order, probe and follower at once, two transactions for one observation, a crash between them | an incident agrees with its evidence; severity never falls below it; every fault has a case; only newer evidence reopens | `IncidentStore` (not the migration) |
| Tuning helper (`pcdiag_tuning_helper.py`) | kernel and driver settings, baseline file, file lock | apply, restore, roll back | processes at once, a kill at any point, a write that fails midway, hotplug, reboot | whatever was tuned can be put back; the baseline is not replaced and not given up early | `TuningHelper`, `TuningBaseline` |
| Notifications (`maybe_notify`) | `notifications` | alert, escalate | two threads, failed delivery, cooldown, rate limit, crash after delivery | an alert is repeated only when due and held back only after enough was shown | `Notifications` |
| Condition probes (`_metric_anomalies`, `run_due_scans`) | threshold counters, open incidents, scan rows | observe, resolve | a restart forgets counters, a failed observation, time buckets | what persists is open, what is gone is closed, a failed scan resolves nothing | `ConditionProbe` |
| Tuning clients (window, safety restore) | the page's buttons and flags, each caller's request, the audit table | read the state, apply, restore, audit | a timeout while the helper is still at work, a refresh that is skipped, a window closed in between | heat ends tuning; the page offers to restore what there is to restore | `TuningClients` (not the audit) |
| Window requests (`pc_diagnostics.py`) | current page, request numbers, incident token | refresh, filter, poll, acknowledge, clear, close | late and superseded results, a token taken over without a refresh | a page never goes back, never answers another filter, settles on the database | `DiagnosticsWindow` |
| Event feed and timeline (`pcdiag_presenters.py`, window) | fetched rows, keyset cursor | first page, load older, collapse bursts | evidence arriving and pruned between pages | nothing skipped, repeated or hidden | `EventFeed` |
| Database writers | SQLite's write lock | transactions of the main thread, the follower and the window | a transaction kept open while the journal is quiet, busy timeout | no writer is shut out, no thread dies | not modelled |
| Parsers, rollups, read-only helper, schema, installer | none or append-only | text, bounded reads, migration | bounds, boundaries | results within their budget | not modelled |

## Modules

The components interact through the database and the helper's socket. Each
module takes what the others do to its state as actions of an environment that
may come at any time: `IncidentStore` has the follower, the probes and the
window as clients of the tables; `ConditionProbe` and `Notifications` abstract
the tables to what they read and write of them; `TuningClients` keeps of the
helper only the promise that `TuningHelper` is shown to implement;
`DiagnosticsWindow` abstracts the database to its version, one incident and what
the token is computed from.

### `JournalIngest`: from the journal to stored evidence

A journal record is its position, which also stands for its timestamp; "since
T" is any position within what the code subtracts (60 s from the newest
evidence or 30 days from now for the backfill, 2 s for the follower). The open SQLite transaction is `staged`, what
it has inserted so far.

- `Launch` is the part of `initialize` before the backfill; `BackfillFromCursor`,
  `BackfillFromEvidence`, `BackfillFirst`, `BackfillExpired` and `BackfillCannotStart`
  are the five ways `backfill` begins, `BackfillRead` and `BackfillDrop` handle a line,
  `BackfillEnd` is the end of the loop (journal exhausted, record limit or
  deadline) with the code's test for an expired cursor, `BackfillError` its
  exception handler.
- `FollowFromCursor`, `FollowFromTimestamp`, `FollowFresh` start the follower from
  what is stored; `FollowRead`, `Alert` and `Account` are one iteration, split
  where another thread or a crash can get in between: `Alert` is the commit
  `maybe_notify` makes when an alert was delivered. `FollowEof`, `FollowExpired`
  and `FollowError` are journalctl's exit, a pruned cursor, and the handler.
- `Crash` ends the process anywhere (also a clean shutdown: the thread is a
  daemon). `SyntheticEvidence` is a probe's record, `Erase` a cleanup or
  retention, `Append` and `Rotate` are journald.

`missed` names the records the code passes over by design, by reason: a
follower's first start two seconds before now, a backfill with neither a cursor
nor evidence that starts 30 days back in a journal of months, a backfill that
starts at the newest evidence, an oversized line. The safety properties say that nothing else is ever passed over.

journalctl is modelled as the code takes it to be: with a cursor whose entry has
been rotated away it prints nothing and fails (`CursorExpired`).

Not modelled: the queue between the backfill's reader thread and its loop (it
keeps the order and drops nothing but oversized lines), records without a
cursor, which journald does not emit, and an SQLite error at the follower's own
read of the offset (line 354), which would end the thread.

### `IncidentStore`: incidents, evidence and forensic cases

A step is one committed transaction. `main` walks the collector's launch
(`PromoteTop`, `Reconcile`, `MarkHistorical`, `PruneAtLaunch`, `BackfillDone`) and
a probe's observation (`Probe`, `RecordCase`, `OverrideStatus`); `Ingest` (backfill,
then follower), `HourlyPrune`, the user's `Acknowledge`, `ResolveIncident` and
`ClearHistory`, `Tick` (with reboots) and `Crash` come between. `FileIncident` is
`record_incident` with the UPSERT's rules for severity, first, last, boot, sample,
status and acknowledgement; `FileCase` is `record_forensic_case`.

A record is given by its incident, instant, severity, source and by whether its
text alone matches a top rule (what `promote_top_critical_incidents` looks at).
An incident is its fingerprint: row ids are never reused, and a case recorded
for an incident deleted in between is not recorded. A case is the set of
instants its window covers.

Abstracted: rule matching and scopes decide the record's fields outside the
model; the journal's boot id is the boot of the record's instant; occurrence
counts and texts other than the sample are left out. The legacy migration and
the backup at the very first launch are left out. Evidence may arrive in any
order, which is more than rotation and replays produce.

### `TuningHelper`, `TuningBaseline`: the privileged helper

One process per connection, each with a place `pc` and a local `job`. `Acquire` is
`flock`; `Check` validates the whole request and reads the state and the baseline;
`Save` is the atomic replacement of the baseline file; `StartCpu`, `WriteCpu` and
`WriteGpu` are `apply_cpu` and `apply_gpu`, one control at a time and validated again
as in the code; `Undo`, `Revert` and `Finish` are `restore_baseline` and what
follows it, shared by a restore and by an apply that failed. A control is what the
helper restores as a unit; a policy takes several file writes, so a failure or
a kill may leave it `Torn`.

`Disturbances` selects what happens around the helper: hotplug of CPUs and GPUs,
reboots, failing writes, a baseline that cannot be read for a moment. Helpers
may be killed at any step in every instance. `orig` is history: what each
setting was before any tuning. `late` are the controls tuned although they were
not exposed when the baseline was saved.

Assumed: other programs change these settings only while no tuning is in
effect or under way; an offline policy keeps its settings. A malformed
request, and one outside the limits, is the error branch of `Check`. `state` takes
no lock and changes nothing; it is left out.

`TuningBaseline` is the promise without processes, lock and failures: a setting
is tuned only while a baseline names it, the baseline is the settings before
any tuning, it is never replaced, and given up only when each setting it names is
back. `TuningHelper` implements it (`ImplementsPromise`) by mapping `original`,
`setting` and `saved` to `orig`, `ctl` and `baseline`.

### `Notifications`: what the desktop is shown

`maybe_notify` reads the incident and the `notifications` table (`Decide`), runs
notify-send (`Deliver` or `DeliveryFails`), and writes the table (`Record`); the
other thread, a crash and a cleanup from the window may come between. `File` is
the evidence that leads to the call. The main thread announces the probes'
incidents, the follower the journal's, and the follower files and announces in
one transaction, during which nobody else writes (`WriteLocked`). A delivery
lasts at most one tick, since notify-send is cut off after five seconds. `shown`
is history: the displays of each incident within the cooldown, the oldest first
(`NotOutdated` drops the others), and whether the table remembers them.

### `ConditionProbe`: from a measurement to an open or resolved incident

No condition's threshold, cursor or fingerprint touches another's, so the module
follows one condition of any kind: a CPU, memory or disk level, a sensor, a
network counter, a failed unit, a crash dump (the kernel's and the file
systems'), a drive, or a scan that only records its row. `SampleMetric`,
`SampleCounter` and `NoSample` are one round of `sample_metrics` with
`_count_threshold`; the `Scan...` actions are `run_due_scans` with the scan it
calls and each way that scan can fail. `Issue` is `synthetic_issue`: a cursor
that is already in `evidence` changes nothing, and for measured conditions the
cursor is the current time bucket, which `Roll` ends. `Down` is a crash or a
reboot, which forgets counters and earlier samples; `Launch` marks what an
earlier boot left open as historical. `observed` is history: whether the last
step saw the condition clear, active, or not at all. What a command prints is
abstracted to what the probe concludes from it.

### `TuningClients`: the Safe tuning page and the automatic restore

`Serve` and `GiveUp` are the two ends of `_socket_request`: an answer, or an error
or 30-second timeout, after which the helper may still perform the operation
(`overdue`, `ServeOverdue`). `Sample` counts hot samples as `_count_threshold`
does and sends a restore from the second critical one on; `RolledBack` is its
answer, `CollectorEnds` and `CollectorStarts` its process. Of the window there are
`Visit` and `StateReady` (`_refresh_tuning` and its result), `StatusReady`,
`ConfirmApply`, `ConfirmRestore` and `Decide` (the confirmations), `ActionReady`,
`Open` and `Close`. `behind` is history, and names every way in which the page
may rightly not know: the collector or an overdue operation has changed the
tuning, a refresh has failed, or one was skipped because another was in flight.

### `DiagnosticsWindow`: requests and late results

Pages have their own request numbers and share only the window and the
database, so the module follows one page of any kind. A request is submitted by
navigation, a filter, the ten-second tick, the poll of the incident token or the
end of an update (`Submit`), is run by the pool (`Query`), and its result is
handled in the main loop (`Ready`), which drops it when it is not the newest. Two
requests are kept: the newest and one it has superseded; a third changes nothing
that they do not. Of the database a query reads the `version`, the newest piece of
evidence and the incident (`View`); the incident is one of several, so that others
have evidence too, and `latest`, the newest time of them all, is in the token.
`Evidence`, `ConditionClears`, `ChangeIncident` and `ClearHistory` change the token.
`Prune` (`prune_v2`) and `Promote` (`promote_top_critical_incidents`) need not, and
`Settles` says what a polled page then still shows: after a promotion the old
severity and texts, after a pruning (`pruned` is its version) an incident or rows
that are gone, and, on other pages than the issues one, an acknowledgement that
was undone between two polls. `Poll`, `PollQuery` and `PollReady` are the five-second poll, with `Follow`
and with pages that are not shown; `ChangeIncident`, `ClearHistory` and `UpdateReady`
are acknowledgement, resolution and cleanup. `missed` is history: the newest query
failed, or the feed passed a change over because Follow was off. Pages that
blank on a failure are told from those that keep what they show.

### `EventFeed`: pages of evidence and their bursts

The event feed and the timeline of an incident's inspector, as two values of
`list`. `EventPages` and `IncidentEvidence` are the two keyset queries. `Pages` gives
`ORDER BY ... LIMIT` by what a page is: sorted, and full when it leaves anything
out, which then comes after it. That this determines the page is proved
(`QueriesHaveOneAnswer`), and `MCEventFeed` has TLC compare it with sorting the rows
and cutting them off. `Reset`, `LoadMore`, `QueryFeed`, `QueryTimeline` and `Ready` fetch
and append pages; evidence arrives (`Evidence`), older than what is shown too, and is
pruned (`Prune`) between any two. `Bursts` is `collapse_event_bursts`, a row at a
time, and `BurstsFaithful` says what it must make of every reachable list. Here
the feed may be refreshed at any time; `DiagnosticsWindow` says when it is.

## What is checked

TLC explores every reachable state of these instances. Each property of a
passing run is also known to fail for a faulty variant of the code, named
"Faulty variant" next to the definition it replaces and listed under `mutants`.

| Run | Instance | Shows |
|---|---|---|
| `journal` | 4 records (one noise, one oversized), batches of 2, record limit 3, a first backfill of 2 records, 1 fault, fair; 380 k states | `OffsetCovered`, `BackfillProgressStored`, `NoTransactionLeft`, `EventuallyIngested`, `TypeOK` |
| `tuning` | 2 helpers, policy and GPU with a rounded limit, hotplug, failing writes; 1.1 M (symmetric) | `Recoverable`, `BaselineNeverReplaced`, `BaselineGivenUpRestored` |
| `tuning_promise` | 2 helpers, 2 policies, boost, failing writes; 58 k | `ImplementsPromise`, `AppliedIsInEffect`, `TypeOK` |
| `tuning_live` | 2 helpers, policy and boost, reboots, failing writes and reads, fair; 175 k | `RequestAnswered` |
| `incidents` | xHCI failure with consequences, a sensor, a generic message that names a fault; 2 boots, 1 crash, fair; 65 k | `EvidenceAccounted`, `SeverityCovers`, `HistoricalIsPast`, `NewestEvidenceDecides`, `FaultsGetCases` |
| `incidents_dump` | process crashes, a sensor, dumps; 3 boots, 1 crash; 443 k | `CasesCoverEvidence`, `TypeOK` |
| `notifications` | 2 probed incidents and 1 of the journal, three severities, limit of 1, cooldown twice the ten minutes, 1 crash or cleanup; 2.3 M (symmetric) | `RateLimited`, `NoRepeat`, `HeldBackOnlyAfterDisplay`, `TypeOK` |
| `conditions` | one condition of each of the nine kinds, thresholds up to 3, 2 crashes or reboots, fair; 7.2 k | `ClearedIsClosed`, `PersistentIsOpen`, `GoneIsClosed`, `FailedScanResolvesNothing`, `TypeOK` |
| `conditions_blind` | the same conditions | `NeverResolvedBlindly` is violated, see below |
| `tuning_clients` | one action of the page, its refresh and the automatic restore, fair; 159 k | `PageCurrent`, `HotIsRestored`, `RefreshEnds`, `TypeOK` |
| `window` | a page of each kind, 2 changes of the database at 2 instants, 2 inputs or failures, fair; 680 k | `ShownAsAsked`, `NeverOlder`, `Settles`, `TypeOK` |
| `event_feed` | both lists, pages of 2, 3 pieces of evidence at 3 instants; 420 k | `FeedComplete`, `EndIsTheEnd`, `BurstsFaithful`, `TypeOK` |

The bounds are the smallest that let the interesting cases meet.

- `journal`: a full batch, a rotated cursor, an oversized line, a journal older than
  a first backfill reads back, and a crash after a resume; batches, limits and overlaps below the number of records make every
  branch of a comparison happen.
- `tuning...`: two helpers suffice for a conflict over one lock, and two controls
  let one be written and the other not.
- `incidents...`: the retention and the window are shorter than the clock, so
  evidence expires while its incident stays, windows overlap and do not, and a
  record can come before, with and after the newest.
- `notifications`: with a limit of one and two threads a second alert is held
  back, decided upon in parallel, escalated, and due again.
- `conditions`: counts reach and pass the threshold, a counter can rise, fall and
  restart from zero, two listings differ, and two interruptions put a crash
  after a reboot and the other way round.
- `tuning_clients`: more actions at once do not change what the safety properties
  depend on, which is proved; they hold for two as well (668 k states).
- `window`: two changes can fall between a query and its result and between a
  poll and its refresh, so that evidence can come and be pruned before the token
  is read again; two inputs suffice to leave a filter and return to it while
  requests are out. An acknowledgement that is undone takes a third change: with
  three changes at one instant the pages `overview`, `issues` and `events` have been
  checked one at a time (up to 1.2 M states), and with three inputs `issues`,
  `events` and `performance`.
- `event_feed`: a page boundary can fall between two rows of one instant, a full
  page can be the last one, and a row can arrive on either side of the cursor.

`symmetry` is used over the two helpers and over the two probed incidents, in
safety runs only.

Deadlock is checked except in `journal`, `notifications` and `window`, where
the system may stop: with the bounded journal written and the bounded faults
spent a follower waits for journalctl forever, the bounded clock ends, and a
window is closed for good.

### Fairness

- `JournalIngest`: weak fairness of the journal thread's own steps. systemd
  restarts the collector (`Restart=on-failure`), a loop that has a line to read
  reads it. Nothing is assumed of journald, of faults or of rotation.
- `TuningHelper`: weak fairness of a helper that has the lock, strong fairness of
  acquiring it: `flock` wakes the queue of waiting processes, so a process that
  keeps waiting is served when the lock becomes free again and again.
- `IncidentStore`: weak fairness of the launch and of a probe that has begun.
  Nothing is assumed of the clock, of evidence or of the user.
- `ConditionProbe`: weak fairness of the launch (systemd), of an observation (the
  loop comes round and commands work now and then) and of the bucket's end.
- `TuningClients`: weak fairness of samples, answers and the window's callbacks;
  every request is answered or times out. Strong fairness of a successful
  automatic restore: the helper is not broken for good.
- `DiagnosticsWindow`: weak fairness of queries, timers and idle callbacks, strong
  fairness of handling a result, since the tick supersedes a query that outlasts
  ten seconds, and not every query does. Nothing is assumed of the user.

## Where the code departs from its documents

One run shows a statement of the code's own comments violated by what the code
does (`findings` in `PROJECT.json` quotes it): in `conditions_blind`, systemctl runs
and exits with an error, `run_command` returns its message like any output, and
`scan_failed_services` resolves the incident of every failed unit, under a
comment that says this must never happen.

The others are visible in the models, as an action, an exception in a property
or a reason in a history variable.

- Journal. Once the cursor has been forgotten, the next backfill starts at the
  newest evidence, which a probe may just have recorded, and not at the stored
  timestamp, as the comment at `pcdiag_collector.py:332` suggests (`missed` has the
  records in between). On a first launch a journal of months (the
  comment at line 54 expects such) is read from 30 days ago, and what is older is
  never stored (`pcdiag_collector.py:241`, the reason `old`). With a
  cleared history and no cursor it replays the last 30 days as well,
  although `clear_retained_data` keeps the offset so that a cleanup cannot force
  an unbounded replay (`pcdiag_engine.py:519`). `BackfillEnd` forgets a good cursor when the
  deadline terminates journalctl before its first record.
- Tuning helper. A GPU that reports a limit but no range makes every restore fail
  and the baseline stay (`pcdiag_tuning_helper.py:292`). A baseline from before a
  reboot is taken for the state to return to, and a later apply saves nothing
  (line 360). With unreadable baselines an apply replaces the baseline by
  tuned settings. A control that appears after the baseline was saved (`late`)
  is tuned and not restored, and a fractional power limit comes back rounded.
- Incidents. The crash scan reopens a resolved incident every five minutes with no
  new evidence, where ARCHITECTURE.md has newer evidence reopen it. An old crash
  dump gets its forensic case only at a later launch, which is why the case
  properties except `Snapshot` incidents.
- Probes. A process's first CPU sample has no reading, counts as zero and
  resolves an open CPU incident. A crash helper that fails, with a fallback that
  sees nothing, resolves the storage incident, which an unchanged listing never
  reopens; a failed crash scan is recorded as "ok". Growth of a network
  counter across a restart goes unnoticed.
- Tuning page. A refresh after an action is skipped while one is in flight, so
  that the page may show no baseline although tuning is in effect, until the
  next visit. `state` loads the baseline before it asks the GPU, so its answer may
  be out of date. The status tick makes Apply sensitive again while an action
  runs, the confirmation does not look at the collector again, and an apply
  that timed out is performed later. The audit has no row of an action whose
  window was closed and of an automatic restore that failed, where
  `app/README.md` promises one of every request.
- Window. A query that fails uses up the token, and the page is not refreshed
  until something else changes; so does a change while Follow is off. A
  forensic case recorded after its evidence does not change the token, so the
  forensics page can miss it. `incident_change_token` promises to change for status
  updates (`pcdiag_engine.py:548`), but it only counts and sums: an
  acknowledgement that is undone before the next poll brings it back, and a page
  that was read in between, other than the issues page, keeps showing it; so
  do changes of two incidents that cancel out. The hourly pruning deletes
  incidents that are not open, and old rows, without changing it, and a promotion
  at a launch of the collector (`pcdiag_engine.py:797`) never changes it: a polled
  page that stays visible shows the old state until something else changes, or
  until it is left and shown again. The boots page says "No indexed boots" after a
  database error; the timeline then says there are no older events and
  disables its button. `_clear_history` drops the result of
  `clear_retained_data`, so its toast always announces a later compaction.

## What is proved

TLAPS checks every proof below to its last leaf, from the named assumption of
the module (`JournalAssumption`, `StoreAssumption`, `TuningAssumption`,
`NotificationsAssumption`, `ProbeAssumption`, `ClientAssumption`,
`WindowAssumption`, `FeedAssumption`), for any number of records, helpers,
controls, incidents, boots, alerts, actions, pages and faults. Every safety and
action property of a passing run is among them.

**`JournalIngestProofs`**: `TypeCorrect`, `OffsetSafe` (`OffsetCovered`),
`TransactionsEnd` (`NoTransactionLeft`) and `ProgressStored`
(`BackfillProgressStored`). `OffsetCovered` alone is not inductive: a commit moves
the offset to the reader's last line, so it has to be known that everything
before that line is stored, staged or passed over. `IInv` adds `ReaderCovered`
(all storable records before the reader's position are recorded or staged),
`ReaderOrder` (the offset is not after the reader's position, an empty cursor or
the stored position agree) and `TransactionCounted` (a staged record implies a
pending count, which is why journalctl's exit commits). `ProgressStored` rests on
`BatchCounted`: the records since the last checkpoint are at most the ones
counted, and what the reader skipped was rotated away or oversized. Stating it
for every journal is what showed that rotated records have to be left out of
the count, a case the instance of four records cannot reach.

**`TuningHelperProofs`**: `TypeCorrect`; `BaselineKept` and `BaselineGivenUpSafely`
while the baseline can be read; `RecoverableBetweenBoots` without reboots as well;
`PromiseKept`, the refinement, with failing writes and kills. The chain is
`TypedInv`, then `HeldInv` (only the lock's holder is at work, it works from the
saved baseline, and what it has reverted without an error is back), then
`NamedInv` (the baseline holds the original setting of each control it could
see; with `Recoverable` inductive between boots), and for the refinement
`StableInv` (without hotplug every control is exposed and named). The refinement
takes one lemma per action: it maps to `Capture`, `Tune`, `Discard`, `Change` or
a stutter. `AppliedInEffect` (the action property `AppliedIsInEffect`) needs no
hotplug, and holds with reboots, failing writes and unreadable baselines: its
`WrittenInv` says that the helper at work has the lock, and that each control it
was asked for and need not write any more is as it was asked to be.

**`IncidentStoreProofs`**: `TypeCorrect`, `EvidenceIsAccounted`, `SeverityIsCovering`,
`HistoricalIsOver`, `NewestEvidenceWins` (the action property) and
`CasesAreComplete`. Steps are grouped by what they do to the tables: settle a
status, file a record, prune, clear, promote, reconcile. Each group has a lemma
per invariant. `ProbeInv` ties the probe in progress to its record, and
`BootsPast` says that no evidence is of a later boot.

**`NotificationsProofs`**: `TypeInvariant`, `NoNeedlessRepeat` (`NoRepeat`),
`RateIsLimited` (`RateLimited`) and `HeldBackAfterDisplay` (the action property
`HeldBackOnlyAfterDisplay`). None is inductive, because an alert is decided upon,
delivered and recorded in three steps, with the other thread in between. In
`IInv`, `TableKnows` says that the table has each display it has not been made to
forget, `TableIsTrue` that a recorded alert is one the user was shown,
`RepeatsAreWorse` and `DeliveryIsWorse` order the displays of an incident with the
delivery under way, and `FewAlerted` counts: the incidents alerted within ten
minutes, together with the deliveries under way, exceed the limit by one at
most, since two threads can decide on the same count. From incidents to alerts
it is one step more: two ordinary displays of an incident are a cooldown apart,
so that ten minutes hold one of each.

**`EventFeedProofs`**: `TypeInvariant`, `ListIsComplete` (`FeedComplete`), `EndOfList`
(`EndIsTheEnd`), `BurstsHideNothing` (`BurstsFaithful`) and `QueriesHaveOneAnswer`. In
`IInv`, `AskedNow` says that the newest request is for what the controls and the
cursor still say, `LacksOnlyOlder` that what the list lacks of its first page's
reading lies beyond the cursor, `AnswerContinues` that an answer on its way lacks
only what comes after a full page, and `NothingOlder` what it means that no older
events are offered. The bursts are about lists of every length, by induction on
the rows taken (`TakenIsGood`): it is stated of a set of naturals (`Induct`, from the
well-foundedness of their order), the recursive functions are shown to exist,
and `FlattenSeq` of one more burst is computed. That a burst's span is bounded
both ways needs the list to be sorted, which `IInv` has. `QueriesHaveOneAnswer` says
that AUTOINCREMENT's ids make the order total, so that a page exists (the newest
of the rest goes on it next) and two pages agree row by row.

**`ConditionProbeProofs`**: `TypeCorrect`, `ClearIsClosed` (`ClearedIsClosed`) and
`FailureResolvesNothing` (the action property). A measurement below the
threshold resolves only when there was a count or it is the process's first; that
the incident is closed otherwise is `SeenClear`, an invariant of its own: a
process that has measured and counts nothing has no open incident.

**`TuningClientsProofs`**: `TypeCorrect`, which here includes that the buttons are
sensitive only when what they need is there and that the in-flight flag is set
exactly while a read is under way, and `PageShowsTuning` (`PageCurrent`). The
inductive `PageFollows` says what a page that is not behind is waiting for: an
action, which will be followed by a refresh; the answer of a refresh; or an
answer that tells what is in effect, which only a step of the page's own
actions can change without putting it behind.

**`DiagnosticsWindowProofs`**: `TypeCorrect`, `ShowsWhatIsAsked` (`ShownAsAsked`) and
`NeverGoesBack` (the action property `NeverOlder`). The newest request is always for
what the controls ask for (`AskedAsIs`), and what it has read is at least as new as
what is shown (`ReadInOrder`), because every older one is dropped.

Only model-checked: liveness (`EventuallyIngested`, `RequestAnswered`,
`FaultsGetCases`, `PersistentIsOpen`, `GoneIsClosed`, `HotIsRestored`,
`RefreshEnds`, `Settles`), which rests on fairness and is out of the prover's
reach. The hypotheses of the helper's theorems, where they have one, leave out
what the code does not promise: hotplug, reboots or a baseline that cannot be
read, with the consequences named above.

## What is not modelled

- SQLite's write lock as an actor between the main thread, the follower and the
  window, with the busy timeout: `JournalIngest` shows that a transaction ends with
  its reader, `IncidentStore` that what lies between two transactions does no
  harm, `Notifications` that the follower alone writes while its transaction is
  open. That a quiet journal may keep it open, and what the other writers make of
  a timeout, is left out; it needs their error paths in one module.
- The audit of tuning actions: rows that only the user reads. Its gaps are named
  above.
- In the window: raw and nearby logs (read from journalctl), storage and file
  cleanup, settings, export, the guide, a feed row whose severity changes
  between pages, and widgets, charts and layout. The token follows one incident's
  status; changes of two that cancel out in its sums are left out. GTK reports a
  new search text after about 150 ms, in which "Load older" reads the new text
  with the old cursor: `EventFeed` sets a filter and resets the list in one step.
  The timeline of a record without an incident ("No timeline available") is left
  out.
- Clock steps: `record_scan` and the pruning take the wall clock for monotonic, and
  so do the models.
- Metric rollups (means of real numbers), schema and migration (run once, alone),
  the read-only helper (stateless), the scans' parsing, and the installer.
- Rule matching, redaction and the parsers: regular expressions over unbounded
  text, without state.

`PROJECT.json` lists every component and, under `hazards`, what can go wrong in
this code that a test would hardly reach, with the properties that cover it or
the reason why none does.
