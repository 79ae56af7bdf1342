------------------------- MODULE TuningHelperProofs -------------------------
(***************************************************************************)
(* Theorems about TuningHelper, for any number of helpers and any controls *)
(* and values.                                                             *)
(*                                                                         *)
(* TypedInv is type correctness strengthened with what a process in the    *)
(* middle of a request knows.  HeldInv says that only the holder of the    *)
(* lock is in the middle of a request and that it works from the baseline  *)
(* that is saved.  NamedInv is Recoverable strengthened with what the      *)
(* saved baseline is.  StableInv is what holds besides while no control    *)
(* comes or goes.                                                          *)
(***************************************************************************)
EXTENDS TuningHelper, TLAPS

-----------------------------------------------------------------------------
(* Baselines.                                                              *)

\* A baseline is a function from controls to settings.
LEMMA BaselineFacts ==
    ASSUME NEW b \in Baselines
    PROVE  /\ DOMAIN b \subseteq Control
           /\ \A c \in DOMAIN b : b[c] \in Setting
           /\ b # NoBaseline
<1>1. PICK named \in SUBSET Control : b \in [named -> Setting]
  BY DEF Baselines
<1>2. NoBaseline \notin [named -> Setting]
  BY <1>1, TuningAssumption DEF TuningAssumption
<1>. QED
  BY <1>1, <1>2

\* What state() reads is a baseline that names the controls exposed now.
LEMMA SnapshotFacts ==
    ASSUME TypeOK
    PROVE  /\ Snapshot \in Baselines
           /\ DOMAIN Snapshot = present
           /\ \A c \in present : Snapshot[c] = ctl[c]
<1>1. Snapshot \in [present -> Setting]
  BY DEF Snapshot, TypeOK
<1>2. present \in SUBSET Control
  BY DEF TypeOK
<1>. QED
  BY <1>1, <1>2 DEF Snapshot, Baselines

\* Writing back a saved setting yields a setting.
LEMMA ReappliedFacts ==
    \A c \in Control, v \in Setting : Reapplied[c][v] \in Setting
BY TuningAssumption DEF TuningAssumption, Reapplied, Setting

-----------------------------------------------------------------------------
(* Type correctness.                                                       *)

JobTyped(p) ==
    /\ pc[p] \in Serving \ {"locked"} => job[p].base \in Baselines
    /\ pc[p] = "write" => \A c \in job[p].todo : Wanted(job[p].req, c) \in Value
    /\ pc[p] = "revert" => job[p].todo \subseteq DOMAIN job[p].base

TypedInv == TypeOK /\ \A p \in Helpers : JobTyped(p)

\* The initial states are type correct.
LEMMA InitTyped == Init => TypedInv
<1>. SUFFICES ASSUME Init PROVE TypedInv
  OBVIOUS
<1>1. NoJob \in Jobs
  BY DEF NoJob, Jobs, Requests, Restore
<1>2. TypeOK
  BY <1>1 DEF Init, TypeOK, Ended, Setting
<1>3. \A p \in Helpers : pc[p] = "idle"
  BY DEF Init
<1>. QED
  BY <1>2, <1>3 DEF TypedInv, JobTyped, Serving

\* An answer leaves the state type correct.
LEMMA ReplyTyped ==
    ASSUME TypedInv, NEW p \in Helpers, NEW outcome \in Ended, Reply(p, outcome)
    PROVE  /\ lock' \in Helpers \cup {Free}
           /\ pc' \in [Helpers -> Ended \cup Serving \cup {"waiting"}]
           /\ job' \in [Helpers -> Jobs]
           /\ \A q \in Helpers : JobTyped(q)'
<1>1. NoJob \in Jobs
  BY DEF NoJob, Jobs, Requests, Restore
<1>2. pc' \in [Helpers -> Ended \cup Serving \cup {"waiting"}]
  BY DEF Reply, Goto, TypedInv, TypeOK
<1>3. job' \in [Helpers -> Jobs]
  BY <1>1 DEF Reply, TypedInv, TypeOK
<1>4. JobTyped(p)'
  BY DEF Reply, Goto, JobTyped, Serving, Ended, TypedInv, TypeOK
<1>5. \A q \in Helpers \ {p} : pc'[q] = pc[q] /\ job'[q] = job[q]
  BY DEF Reply, Goto, TypedInv, TypeOK
<1>6. \A q \in Helpers \ {p} : JobTyped(q)'
  BY <1>5 DEF JobTyped, TypedInv, Wanted
<1>. QED
  BY <1>2, <1>3, <1>4, <1>6 DEF Reply

\* A write leaves the settings type correct.
LEMMA WriteTyped ==
    ASSUME TypeOK, NEW c \in Control, NEW v \in Setting,
           Write(c, v) \/ UNCHANGED <<ctl, late>>
    PROVE  ctl' \in [Control -> Setting] /\ late' \subseteq Control
BY DEF Write, TypeOK

\* Only the fields of one process change, and these stay type correct.
LEMMA JobStep ==
    ASSUME TypedInv, NEW p \in Helpers, NEW j \in Jobs,
           NEW step \in Ended \cup Serving \cup {"waiting"},
           job' = [job EXCEPT ![p] = j], Goto(p, step),
           step \in Serving \ {"locked"} => j.base \in Baselines,
           step = "write" => \A c \in j.todo : Wanted(j.req, c) \in Value,
           step = "revert" => j.todo \subseteq DOMAIN j.base
    PROVE  /\ pc' \in [Helpers -> Ended \cup Serving \cup {"waiting"}]
           /\ job' \in [Helpers -> Jobs]
           /\ \A q \in Helpers : JobTyped(q)'
<1>1. pc' \in [Helpers -> Ended \cup Serving \cup {"waiting"}] /\ pc'[p] = step
  BY DEF Goto, TypedInv, TypeOK
<1>2. job' \in [Helpers -> Jobs] /\ job'[p] = j
  BY DEF TypedInv, TypeOK
<1>3. JobTyped(p)'
  BY <1>1, <1>2 DEF JobTyped, Wanted
<1>4. \A q \in Helpers \ {p} : pc'[q] = pc[q] /\ job'[q] = job[q]
  BY DEF Goto, TypedInv, TypeOK
<1>5. \A q \in Helpers \ {p} : JobTyped(q)'
  BY <1>4 DEF JobTyped, TypedInv, Wanted
<1>. QED
  BY <1>1, <1>2, <1>3, <1>5

\* The processes stay type correct while none of them moves.
LEMMA IdleStep ==
    ASSUME TypedInv, UNCHANGED <<pc, job>>
    PROVE  \A q \in Helpers : JobTyped(q)'
BY DEF TypedInv, JobTyped, Wanted

\* A step of a process that serves a request keeps the state type correct.
LEMMA ServeTyped ==
    ASSUME TypedInv, NEW p \in Helpers, Serve(p)
    PROVE  TypedInv'
<1>. USE DEF TypedInv
<1>j. job[p] \in Jobs /\ JobTyped(p)
  BY DEF TypeOK
<1>b. \A b \in Baselines : DOMAIN b \subseteq Control /\ \A c \in DOMAIN b : b[c] \in Setting
  BY BaselineFacts
<1>v. Value \subseteq Setting /\ Torn \in Setting
  BY DEF Setting
<1>1. CASE Check(p)
  <2>1. CASE Reply(p, "error") /\ UNCHANGED exposed
    BY <1>1, <2>1, ReplyTyped DEF Check, TypeOK, machine, Ended
  <2>2. CASE job' = [job EXCEPT ![p].fresh = TRUE, ![p].base = Snapshot] /\ Goto(p, "save")
    <3>. DEFINE j == [job[p] EXCEPT !.fresh = TRUE, !.base = Snapshot]
    <3>1. j \in Jobs /\ j.base \in Baselines
      BY <1>j, SnapshotFacts DEF Jobs
    <3>2. job' = [job EXCEPT ![p] = j]
      BY <2>2
    <3>. HIDE DEF j
    <3>3. /\ pc' \in [Helpers -> Ended \cup Serving \cup {"waiting"}]
          /\ job' \in [Helpers -> Jobs]
          /\ \A q \in Helpers : JobTyped(q)'
      BY <2>2, <3>1, <3>2, JobStep DEF Serving
    <3>4. exposed' \subseteq Control /\ UNCHANGED <<machine, lock, orig, late>>
      BY <1>1, <2>2 DEF Check, Reply, Goto, TypeOK, Serving, Ended
    <3>. QED
      BY <3>3, <3>4 DEF TypeOK, machine
  <2>3. CASE \E loaded \in Loadable \ {NoBaseline} :
                /\ job' = [job EXCEPT ![p].fresh = FALSE, ![p].base = loaded]
                /\ Goto(p, "cpu")
                /\ UNCHANGED <<lock, exposed>>
    <3>1. PICK loaded \in Baselines :
                /\ job' = [job EXCEPT ![p].fresh = FALSE, ![p].base = loaded]
                /\ Goto(p, "cpu")
                /\ UNCHANGED <<lock, exposed>>
      BY <2>3 DEF Loadable, TypeOK
    <3>. DEFINE j == [job[p] EXCEPT !.fresh = FALSE, !.base = loaded]
    <3>2. j \in Jobs /\ j.base \in Baselines
      BY <1>j DEF Jobs
    <3>3. job' = [job EXCEPT ![p] = j]
      BY <3>1
    <3>. HIDE DEF j
    <3>4. /\ pc' \in [Helpers -> Ended \cup Serving \cup {"waiting"}]
          /\ job' \in [Helpers -> Jobs]
          /\ \A q \in Helpers : JobTyped(q)'
      BY <3>1, <3>2, <3>3, JobStep DEF Serving
    <3>. QED
      BY <1>1, <3>1, <3>4 DEF Check, TypeOK, machine
  <2>. QED
    BY <1>1, <2>1, <2>2, <2>3 DEF Check
<1>2. CASE Save(p)
  <2>b. job[p].base \in Baselines
    BY <1>2, <1>j DEF Save, JobTyped, Serving
  <2>1. baseline' \in Baselines \cup {NoBaseline} /\ UNCHANGED <<present, ctl, history>>
    BY <1>2, <2>b DEF Save, TypeOK
  <2>2. CASE Goto(p, "cpu") /\ UNCHANGED <<lock, job>>
    <3>1. job' = [job EXCEPT ![p] = job[p]]
      BY <2>2 DEF TypeOK
    <3>2. /\ pc' \in [Helpers -> Ended \cup Serving \cup {"waiting"}]
          /\ job' \in [Helpers -> Jobs]
          /\ \A q \in Helpers : JobTyped(q)'
      BY <1>j, <2>2, <2>b, <3>1, JobStep DEF Serving
    <3>. QED
      BY <2>1, <2>2, <3>2 DEF TypeOK, history
  <2>3. CASE Reply(p, "error")
    BY <2>1, <2>3, ReplyTyped DEF TypeOK, history, Ended
  <2>. QED
    BY <1>2, <2>2, <2>3 DEF Save
<1>3. CASE StartCpu(p)
  <2>b. job[p].base \in Baselines
    BY <1>3, <1>j DEF StartCpu, JobTyped, Serving
  <2>1. UNCHANGED <<machine, lock, history>>
    BY <1>3 DEF StartCpu
  <2>2. CASE \E step \in {"gpu", "undo"} : Goto(p, step) /\ UNCHANGED job
    <3>1. job' = [job EXCEPT ![p] = job[p]]
      BY <2>2 DEF TypeOK
    <3>2. /\ pc' \in [Helpers -> Ended \cup Serving \cup {"waiting"}]
          /\ job' \in [Helpers -> Jobs]
          /\ \A q \in Helpers : JobTyped(q)'
      BY <1>j, <2>2, <2>b, <3>1, JobStep DEF Serving
    <3>. QED
      BY <2>1, <3>2 DEF TypeOK, machine, history
  <2>3. CASE /\ job[p].req.cpu # Absent
             /\ job' = [job EXCEPT ![p].todo = CpuControls(job[p].req)]
             /\ Goto(p, "write")
    <3>. DEFINE j == [job[p] EXCEPT !.todo = CpuControls(job[p].req)]
    <3>1. j \in Jobs /\ j.base \in Baselines /\ j.req = job[p].req
      BY <1>j, <2>b DEF Jobs, CpuControls, Control
    <3>2. \A c \in j.todo : Wanted(j.req, c) \in Value
      BY <1>j, <2>3, TuningAssumption
      DEF TuningAssumption, CpuControls, Wanted, Jobs, Requests, Restore
    <3>3. job' = [job EXCEPT ![p] = j]
      BY <2>3
    <3>. HIDE DEF j
    <3>4. /\ pc' \in [Helpers -> Ended \cup Serving \cup {"waiting"}]
          /\ job' \in [Helpers -> Jobs]
          /\ \A q \in Helpers : JobTyped(q)'
      BY <2>3, <3>1, <3>2, <3>3, JobStep DEF Serving
    <3>. QED
      BY <2>1, <3>4 DEF TypeOK, machine, history
  <2>. QED
    BY <1>3, <2>2, <2>3 DEF StartCpu
<1>4. CASE WriteCpu(p)
  <2>b. job[p].base \in Baselines
    BY <1>4, <1>j DEF WriteCpu, JobTyped, Serving
  <2>1. PICK c \in job[p].todo :
          \/ /\ Write(c, Wanted(job[p].req, c))
             /\ job' = [job EXCEPT ![p].todo = @ \ {c}]
             /\ Goto(p, IF job[p].todo = {c} THEN "gpu" ELSE "write")
          \/ /\ FailedWrite(c)
             /\ Goto(p, "undo")
             /\ UNCHANGED job
    BY <1>4 DEF WriteCpu
  <2>2. c \in Control /\ Wanted(job[p].req, c) \in Setting
    BY <1>4, <1>j, <1>v DEF WriteCpu, JobTyped, Jobs
  <2>3. ctl' \in [Control -> Setting] /\ late' \subseteq Control
    BY <1>v, <2>1, <2>2, WriteTyped DEF FailedWrite
  <2>. DEFINE rest == [job[p] EXCEPT !.todo = @ \ {c}]
              j == IF job' = job THEN job[p] ELSE rest
              step == pc'[p]
  <2>4. rest \in Jobs /\ rest.base \in Baselines /\ rest.req = job[p].req
        /\ rest.todo \subseteq job[p].todo
    BY <1>j, <2>b DEF Jobs
  <2>5. j \in Jobs /\ j.base \in Baselines /\ job' = [job EXCEPT ![p] = j]
    BY <1>j, <2>b, <2>1, <2>4 DEF TypeOK
  <2>6. step \in {"gpu", "write", "undo"} /\ Goto(p, step)
    BY <2>1 DEF Goto, TypeOK
  <2>7. step = "write" => \A d \in j.todo : Wanted(j.req, d) \in Value
    BY <1>4, <1>j, <2>4 DEF WriteCpu, JobTyped
  <2>. HIDE DEF j, step, rest
  <2>8. /\ pc' \in [Helpers -> Ended \cup Serving \cup {"waiting"}]
        /\ job' \in [Helpers -> Jobs]
        /\ \A q \in Helpers : JobTyped(q)'
    BY <2>5, <2>6, <2>7, JobStep DEF Serving
  <2>. QED
    BY <1>4, <2>3, <2>8 DEF WriteCpu, TypeOK
<1>5. CASE WriteGpu(p)
  <2>b. job[p].base \in Baselines
    BY <1>5, <1>j DEF WriteGpu, JobTyped, Serving
  <2>1. ctl' \in [Control -> Setting] /\ late' \subseteq Control
    <3>1. CASE UNCHANGED <<ctl, late>>
      BY <3>1 DEF TypeOK
    <3>2. CASE /\ job[p].req.gpu \in present \ Fixed
               /\ Write(job[p].req.gpu, job[p].req.limit)
      <4>1. job[p].req.gpu \in Control /\ job[p].req.gpu # Absent
        BY <3>2, TuningAssumption DEF TypeOK, TuningAssumption
      <4>2. job[p].req.limit \in Setting
        BY <1>j, <1>v, <4>1 DEF Jobs, Requests
      <4>. QED
        BY <3>2, <4>1, <4>2, WriteTyped
    <3>. QED
      BY <1>5, <3>1, <3>2 DEF WriteGpu
  <2>2. CASE Reply(p, "ok")
    BY <1>5, <2>1, <2>2, ReplyTyped DEF WriteGpu, TypeOK, Ended
  <2>3. CASE Goto(p, "undo") /\ UNCHANGED <<lock, job>>
    <3>1. job' = [job EXCEPT ![p] = job[p]]
      BY <2>3 DEF TypeOK
    <3>2. /\ pc' \in [Helpers -> Ended \cup Serving \cup {"waiting"}]
          /\ job' \in [Helpers -> Jobs]
          /\ \A q \in Helpers : JobTyped(q)'
      BY <1>j, <2>3, <2>b, <3>1, JobStep DEF Serving
    <3>. QED
      BY <1>5, <2>1, <2>3, <3>2 DEF WriteGpu, TypeOK
  <2>. QED
    BY <1>5, <2>2, <2>3 DEF WriteGpu
<1>6. CASE StartRestore(p)
  <2>1. UNCHANGED <<machine, history>>
    BY <1>6 DEF StartRestore
  <2>2. CASE Reply(p, "ok")
    BY <2>1, <2>2, ReplyTyped DEF TypeOK, machine, history, Ended
  <2>3. CASE \E loaded \in Baselines :
                /\ job' = [job EXCEPT ![p].base = loaded]
                /\ Goto(p, "undo")
                /\ UNCHANGED lock
    <3>1. PICK loaded \in Baselines :
                /\ job' = [job EXCEPT ![p].base = loaded]
                /\ Goto(p, "undo")
                /\ UNCHANGED lock
      BY <2>3
    <3>. DEFINE j == [job[p] EXCEPT !.base = loaded]
    <3>2. j \in Jobs /\ j.base \in Baselines
      BY <1>j DEF Jobs
    <3>3. job' = [job EXCEPT ![p] = j]
      BY <3>1
    <3>. HIDE DEF j
    <3>4. /\ pc' \in [Helpers -> Ended \cup Serving \cup {"waiting"}]
          /\ job' \in [Helpers -> Jobs]
          /\ \A q \in Helpers : JobTyped(q)'
      BY <3>1, <3>2, <3>3, JobStep DEF Serving
    <3>. QED
      BY <2>1, <3>1, <3>4 DEF TypeOK, machine, history
  <2>. QED
    BY <1>6, <2>2, <2>3 DEF StartRestore, Loadable, TypeOK
<1>7. CASE Undo(p)
  <2>b. job[p].base \in Baselines
    BY <1>7, <1>j DEF Undo, JobTyped, Serving
  <2>. DEFINE gone == (DOMAIN job[p].base \cap Policies) \ present
              j == [job[p] EXCEPT !.failed = (gone # {}), !.todo = DOMAIN job[p].base \ gone]
  <2>1. j \in Jobs /\ j.base \in Baselines /\ j.todo \subseteq DOMAIN j.base
    BY <1>b, <1>j, <2>b DEF Jobs
  <2>2. job' = [job EXCEPT ![p] = j] /\ Goto(p, "revert") /\ UNCHANGED <<machine, lock, history>>
    BY <1>7 DEF Undo
  <2>. HIDE DEF j, gone
  <2>3. /\ pc' \in [Helpers -> Ended \cup Serving \cup {"waiting"}]
        /\ job' \in [Helpers -> Jobs]
        /\ \A q \in Helpers : JobTyped(q)'
    BY <2>1, <2>2, JobStep DEF Serving
  <2>. QED
    BY <2>2, <2>3 DEF TypeOK, machine, history
<1>8. CASE Revert(p)
  <2>b. job[p].base \in Baselines /\ job[p].todo \subseteq DOMAIN job[p].base
    BY <1>8, <1>j DEF Revert, JobTyped, Serving
  <2>1. PICK c \in job[p].todo :
          \/ /\ Write(c, Reapplied[c][job[p].base[c]])
             /\ job' = [job EXCEPT ![p].todo = @ \ {c}]
          \/ /\ FailedWrite(c)
             /\ job' = [job EXCEPT ![p].todo = @ \ {c}, ![p].failed = TRUE]
    BY <1>8 DEF Revert
  <2>2. c \in Control /\ Reapplied[c][job[p].base[c]] \in Setting
    BY <1>b, <2>b, ReappliedFacts
  <2>3. ctl' \in [Control -> Setting] /\ late' \subseteq Control
    BY <1>v, <2>1, <2>2, WriteTyped DEF FailedWrite
  <2>. DEFINE done == [job[p] EXCEPT !.todo = @ \ {c}]
              lost == [job[p] EXCEPT !.todo = @ \ {c}, !.failed = TRUE]
              j == IF job' = [job EXCEPT ![p] = done] THEN done ELSE lost
  <2>4. /\ done \in Jobs /\ done.base = job[p].base /\ done.todo \subseteq job[p].todo
        /\ lost \in Jobs /\ lost.base = job[p].base /\ lost.todo \subseteq job[p].todo
    BY <1>j DEF Jobs
  <2>5. job' = [job EXCEPT ![p] = done] \/ job' = [job EXCEPT ![p] = lost]
    BY <2>1
  <2>. HIDE DEF done, lost
  <2>6. /\ job' = [job EXCEPT ![p] = j] /\ j \in Jobs /\ j.base \in Baselines
        /\ j.todo \subseteq DOMAIN j.base
    BY <2>4, <2>5, <2>b
  <2>7. Goto(p, "revert")
    BY <1>8 DEF Revert, Goto, TypeOK
  <2>. HIDE DEF j
  <2>8. /\ pc' \in [Helpers -> Ended \cup Serving \cup {"waiting"}]
        /\ job' \in [Helpers -> Jobs]
        /\ \A q \in Helpers : JobTyped(q)'
    BY <2>6, <2>7, JobStep DEF Serving
  <2>. QED
    BY <1>8, <2>3, <2>8 DEF Revert, TypeOK
<1>9. CASE Finish(p)
  <2>b. job[p].base \in Baselines
    BY <1>9, <1>j DEF Finish, JobTyped, Serving
  <2>1. /\ baseline' \in Baselines \cup {NoBaseline}
        /\ orig' \in [Control -> Setting]
        /\ UNCHANGED <<present, ctl, exposed, late>>
    BY <1>9 DEF Finish, TypeOK
  <2>2. \E outcome \in Ended : Reply(p, outcome)
    BY <1>9 DEF Finish, Ended
  <2>. QED
    BY <2>1, <2>2, ReplyTyped DEF TypeOK
<1>. QED
  BY <1>1, <1>2, <1>3, <1>4, <1>5, <1>6, <1>7, <1>8, <1>9 DEF Serve

\* Every step keeps the state type correct.
LEMMA NextTyped == TypedInv /\ [Next]_vars => TypedInv'
<1>. SUFFICES ASSUME TypedInv, [Next]_vars PROVE TypedInv'
  OBVIOUS
<1>. USE DEF TypedInv
<1>n. NoJob \in Jobs
  BY DEF NoJob, Jobs, Requests, Restore
<1>v. Value \subseteq Setting /\ Torn \in Setting
  BY DEF Setting
<1>1. ASSUME NEW p \in Helpers, Request(p) PROVE TypedInv'
  <2>1. job' = [job EXCEPT ![p] = job[p]] /\ job[p] \in Jobs
    BY <1>1 DEF Request, TypeOK
  <2>2. /\ pc' \in [Helpers -> Ended \cup Serving \cup {"waiting"}]
        /\ job' \in [Helpers -> Jobs]
        /\ \A q \in Helpers : JobTyped(q)'
    BY <1>1, <2>1, JobStep DEF Request, Serving
  <2>. QED
    BY <1>1, <2>2 DEF Request, TypeOK, machine, history
<1>2. ASSUME NEW p \in Helpers, Acquire(p) PROVE TypedInv'
  <2>1. PICK r \in Requests : job' = [job EXCEPT ![p].req = r]
    BY <1>2 DEF Acquire
  <2>. DEFINE j == [job[p] EXCEPT !.req = r]
  <2>2. j \in Jobs /\ job' = [job EXCEPT ![p] = j]
    BY <2>1 DEF TypeOK, Jobs
  <2>. HIDE DEF j
  <2>3. /\ pc' \in [Helpers -> Ended \cup Serving \cup {"waiting"}]
        /\ job' \in [Helpers -> Jobs]
        /\ \A q \in Helpers : JobTyped(q)'
    BY <1>2, <2>2, JobStep DEF Acquire, Serving
  <2>. QED
    BY <1>2, <2>3 DEF Acquire, TypeOK, machine, history
<1>3. ASSUME NEW p \in Helpers, LockUnavailable(p) PROVE TypedInv'
  <2>1. /\ pc' \in [Helpers -> Ended \cup Serving \cup {"waiting"}]
        /\ job' \in [Helpers -> Jobs]
        /\ \A q \in Helpers : JobTyped(q)'
    BY <1>3, <1>n, JobStep DEF LockUnavailable, Serving, Ended
  <2>. QED
    BY <1>3, <2>1 DEF LockUnavailable, TypeOK, machine, history
<1>4. ASSUME NEW p \in Helpers, Crash(p) PROVE TypedInv'
  <2>1. /\ pc' \in [Helpers -> Ended \cup Serving \cup {"waiting"}]
        /\ job' \in [Helpers -> Jobs]
        /\ \A q \in Helpers : JobTyped(q)'
    BY <1>4, <1>n, JobStep DEF Crash, Serving, Ended
  <2>2. ctl' \in [Control -> Setting] /\ late' \subseteq Control
    <3>1. CASE UNCHANGED <<ctl, late>>
      BY <3>1 DEF TypeOK
    <3>2. ASSUME NEW c \in Policies, Write(c, Torn)
          PROVE  ctl' \in [Control -> Setting] /\ late' \subseteq Control
      BY <1>v, <3>2, WriteTyped DEF Control
    <3>. QED
      BY <1>4, <3>1, <3>2 DEF Crash
  <2>. QED
    BY <1>4, <2>1, <2>2 DEF Crash, TypeOK
<1>5. CASE EnvironmentChange
  <2>1. ctl' \in [Control -> Setting] /\ orig' \in [Control -> Setting] /\ late' \subseteq Control
    BY <1>5, <1>v DEF EnvironmentChange, TypeOK
  <2>2. \A q \in Helpers : JobTyped(q)'
    BY <1>5, IdleStep DEF EnvironmentChange
  <2>. QED
    BY <1>5, <2>1, <2>2 DEF EnvironmentChange, TypeOK
<1>6. CASE Hotplug
  <2>1. \A q \in Helpers : JobTyped(q)'
    BY <1>6, IdleStep DEF Hotplug
  <2>. QED
    BY <1>6, <2>1 DEF Hotplug, TypeOK, history
<1>7. CASE Reboot
  <2>1. BootSetting \in [Control -> Setting]
    BY <1>v, TuningAssumption DEF TuningAssumption
  <2>2. \A q \in Helpers : JobTyped(q)'
    BY <1>7 DEF Reboot, JobTyped, Serving
  <2>. QED
    BY <1>7, <1>n, <2>1, <2>2 DEF Reboot, TypeOK, Ended
<1>8. CASE UNCHANGED vars
  <2>1. UNCHANGED <<machine, lock, pc, job, history>>
    BY <1>8 DEF vars
  <2>2. \A q \in Helpers : JobTyped(q)'
    BY <2>1, IdleStep
  <2>. QED
    BY <2>1, <2>2 DEF TypeOK, machine, history
<1>. QED
  BY <1>1, <1>2, <1>3, <1>4, <1>5, <1>6, <1>7, <1>8, ServeTyped DEF Next

\* TypedInv is an invariant of the helper.
LEMMA TypedInvariant == Spec => []TypedInv
BY InitTyped, NextTyped, PTL DEF Spec

\* The state is type correct throughout: a request never writes a value that
\* is missing from it, and restore_baseline never reads a control that the
\* baseline does not name.
THEOREM TypeCorrect == Spec => []TypeOK
<1>1. TypedInv => TypeOK
  BY DEF TypedInv
<1>. QED
  BY <1>1, TypedInvariant, PTL

-----------------------------------------------------------------------------
(* The lock and the baseline, while the baseline file can be read.         *)

LockInv == \A p \in Helpers : pc[p] \in Serving <=> lock = p

\* What a process in the middle of a request knows of the saved baseline.
JobHeld(p) ==
    /\ pc[p] = "save" =>
          /\ baseline = NoBaseline
          /\ DOMAIN job[p].base = exposed
          /\ \A c \in exposed : job[p].base[c] = ctl[c]
    /\ pc[p] \in Serving \ {"locked", "save"} =>
          baseline # NoBaseline /\ job[p].base = baseline
    /\ pc[p] = "revert" /\ ~job[p].failed =>
          \A c \in DOMAIN job[p].base \ job[p].todo :
             ctl[c] = Reapplied[c][job[p].base[c]]

HeldInv == /\ LockInv
           /\ baseline # NoBaseline => DOMAIN baseline = exposed
           /\ \A p \in Helpers : JobHeld(p)

\* While a process has the lock, only it is in the middle of a request.
LEMMA Alone ==
    ASSUME LockInv, NEW p \in Helpers, pc[p] \in Serving
    PROVE  lock = p /\ \A q \in Helpers \ {p} : pc[q] \notin Serving
BY DEF LockInv

\* Nothing is held in the initial states.
LEMMA InitHeld == Init => HeldInv
BY TuningAssumption
DEF Init, HeldInv, LockInv, JobHeld, Serving, TuningAssumption

\* A step of the process that has the lock, after which it still has it,
\* disturbs no other process.
LEMMA KeepsLock ==
    ASSUME TypeOK, HeldInv, NEW p \in Helpers, pc[p] \in Serving,
           NEW step \in Serving, Goto(p, step), UNCHANGED lock,
           baseline' # NoBaseline => DOMAIN baseline' = exposed',
           JobHeld(p)'
    PROVE  HeldInv'
<1>1. lock = p /\ \A q \in Helpers \ {p} : pc[q] \notin Serving
  BY Alone DEF HeldInv
<1>2. pc'[p] = step /\ \A q \in Helpers \ {p} : pc'[q] = pc[q]
  BY DEF Goto, TypeOK
<1>3. LockInv'
  BY <1>1, <1>2 DEF LockInv
<1>4. \A q \in Helpers \ {p} : JobHeld(q)'
  BY <1>1, <1>2 DEF JobHeld, Serving
<1>. QED
  BY <1>3, <1>4 DEF HeldInv

\* So does an answer.
LEMMA GivesLock ==
    ASSUME TypeOK, HeldInv, NEW p \in Helpers, pc[p] \in Serving,
           NEW outcome \in Ended, Reply(p, outcome),
           baseline' # NoBaseline => DOMAIN baseline' = exposed'
    PROVE  HeldInv'
<1>1. lock = p /\ \A q \in Helpers \ {p} : pc[q] \notin Serving
  BY Alone DEF HeldInv
<1>2. pc'[p] = outcome /\ lock' = Free /\ \A q \in Helpers \ {p} : pc'[q] = pc[q]
  BY DEF Reply, Goto, TypeOK
<1>3. \A q \in Helpers : pc'[q] \notin Serving
  BY <1>1, <1>2 DEF Ended, Serving
<1>4. LockInv'
  BY <1>2, <1>3, TuningAssumption DEF LockInv, TuningAssumption
<1>5. \A q \in Helpers : JobHeld(q)'
  BY <1>3 DEF JobHeld, Serving
<1>. QED
  BY <1>4, <1>5 DEF HeldInv

\* A step of a process that serves a request keeps HeldInv.
LEMMA ServeHeld ==
    ASSUME "reads" \notin Disturbances, TypedInv, HeldInv, NEW p \in Helpers, Serve(p)
    PROVE  HeldInv'
<1>t. TypeOK /\ job[p] \in Jobs /\ JobTyped(p) /\ JobHeld(p)
  BY DEF TypedInv, TypeOK, HeldInv
<1>l. Loadable = {baseline}
  BY DEF Loadable
<1>n. baseline # NoBaseline => DOMAIN baseline = exposed
  BY DEF HeldInv
<1>1. CASE Check(p)
  <2>1. CASE Reply(p, "error") /\ UNCHANGED exposed
    BY <1>1, <1>t, <1>n, <2>1, GivesLock DEF Check, Serving, Ended, machine
  <2>2. CASE /\ baseline = NoBaseline
             /\ job' = [job EXCEPT ![p].fresh = TRUE, ![p].base = Snapshot]
             /\ exposed' = present
             /\ Goto(p, "save")
             /\ UNCHANGED lock
    <3>1. job'[p].base = Snapshot /\ pc'[p] = "save" /\ UNCHANGED <<ctl, baseline>>
      BY <1>1, <1>t, <2>2 DEF Check, Goto, TypeOK, machine, Jobs
    <3>2. JobHeld(p)'
      BY <1>t, <2>2, <3>1, SnapshotFacts DEF JobHeld, Serving
    <3>. QED
      BY <1>1, <1>t, <2>2, <3>1, <3>2, KeepsLock DEF Check, Serving
  <2>3. CASE /\ baseline # NoBaseline
             /\ job' = [job EXCEPT ![p].fresh = FALSE, ![p].base = baseline]
             /\ Goto(p, "cpu")
             /\ UNCHANGED <<lock, exposed>>
    <3>1. job'[p].base = baseline /\ pc'[p] = "cpu" /\ UNCHANGED <<ctl, baseline>>
      BY <1>1, <1>t, <2>3 DEF Check, Goto, TypeOK, machine, Jobs
    <3>2. JobHeld(p)'
      BY <2>3, <3>1 DEF JobHeld, Serving
    <3>. QED
      BY <1>1, <1>t, <1>n, <2>3, <3>1, <3>2, KeepsLock DEF Check, Serving
  <2>. QED
    BY <1>1, <1>l, <2>1, <2>2, <2>3 DEF Check
<1>2. CASE Save(p)
  <2>1. baseline' # NoBaseline => DOMAIN baseline' = exposed'
    BY <1>2, <1>t DEF Save, JobHeld, history
  <2>2. CASE baseline' = job[p].base /\ Goto(p, "cpu") /\ UNCHANGED <<lock, job>>
    <3>1. job[p].base # NoBaseline
      BY <1>2, <1>t, BaselineFacts DEF Save, JobTyped, Serving
    <3>2. JobHeld(p)'
      BY <1>t, <2>2, <3>1 DEF JobHeld, Goto, TypeOK, Serving
    <3>. QED
      BY <1>2, <1>t, <2>1, <2>2, <3>2, KeepsLock DEF Save, Serving
  <2>3. CASE Reply(p, "error")
    BY <1>2, <1>t, <2>1, <2>3, GivesLock DEF Save, Serving, Ended
  <2>. QED
    BY <1>2, <2>2, <2>3 DEF Save
<1>3. CASE StartCpu(p)
  <2>1. \E step \in {"gpu", "undo", "write"} : Goto(p, step)
    BY <1>3 DEF StartCpu
  <2>2. job'[p].base = job[p].base /\ UNCHANGED <<machine, lock, history>>
    BY <1>3, <1>t DEF StartCpu, TypeOK, Jobs
  <2>3. JobHeld(p)'
    BY <1>3, <1>t, <2>1, <2>2 DEF StartCpu, JobHeld, Goto, TypeOK, Serving, machine
  <2>. QED
    BY <1>3, <1>t, <1>n, <2>1, <2>2, <2>3, KeepsLock DEF StartCpu, Serving, machine, history
<1>4. CASE WriteCpu(p)
  <2>1. \E step \in {"gpu", "undo", "write"} : Goto(p, step)
    BY <1>4 DEF WriteCpu
  <2>2. job'[p].base = job[p].base /\ UNCHANGED <<present, baseline, lock, exposed>>
    BY <1>4, <1>t DEF WriteCpu, TypeOK, Jobs
  <2>3. JobHeld(p)'
    BY <1>4, <1>t, <2>1, <2>2 DEF WriteCpu, JobHeld, Goto, TypeOK, Serving
  <2>. QED
    BY <1>4, <1>t, <1>n, <2>1, <2>2, <2>3, KeepsLock DEF WriteCpu, Serving
<1>5. CASE WriteGpu(p)
  <2>1. UNCHANGED <<present, baseline, exposed>>
    BY <1>5 DEF WriteGpu
  <2>2. CASE Reply(p, "ok")
    BY <1>5, <1>t, <1>n, <2>1, <2>2, GivesLock DEF WriteGpu, Serving, Ended
  <2>3. CASE Goto(p, "undo") /\ UNCHANGED <<lock, job>>
    <3>1. JobHeld(p)'
      BY <1>5, <1>t, <2>1, <2>3 DEF WriteGpu, JobHeld, Goto, TypeOK, Serving
    <3>. QED
      BY <1>5, <1>t, <1>n, <2>1, <2>3, <3>1, KeepsLock DEF WriteGpu, Serving
  <2>. QED
    BY <1>5, <2>2, <2>3 DEF WriteGpu
<1>6. CASE StartRestore(p)
  <2>1. UNCHANGED <<machine, history>>
    BY <1>6 DEF StartRestore
  <2>2. CASE Reply(p, "ok")
    BY <1>6, <1>t, <1>n, <2>1, <2>2, GivesLock DEF StartRestore, Serving, Ended, machine, history
  <2>3. CASE /\ baseline # NoBaseline
             /\ job' = [job EXCEPT ![p].base = baseline]
             /\ Goto(p, "undo")
             /\ UNCHANGED lock
    <3>1. job'[p].base = baseline
      BY <1>t, <2>3 DEF TypeOK, Jobs
    <3>2. JobHeld(p)'
      BY <1>t, <2>1, <2>3, <3>1 DEF JobHeld, Goto, TypeOK, Serving, machine
    <3>. QED
      BY <1>6, <1>t, <1>n, <2>1, <2>3, <3>2, KeepsLock DEF StartRestore, Serving, machine, history
  <2>. QED
    BY <1>6, <1>l, <2>2, <2>3 DEF StartRestore
<1>7. CASE Undo(p)
  <2>1. Goto(p, "revert") /\ UNCHANGED <<machine, lock, history>>
    BY <1>7 DEF Undo
  <2>. DEFINE gone == (DOMAIN job[p].base \cap Policies) \ present
  <2>2. /\ job'[p].base = job[p].base
        /\ job'[p].failed = (gone # {})
        /\ job'[p].todo = DOMAIN job[p].base \ gone
    BY <1>7, <1>t DEF Undo, TypeOK, Jobs
  <2>3. JobHeld(p)'
    BY <1>7, <1>t, <2>1, <2>2 DEF Undo, JobHeld, Goto, TypeOK, Serving, machine
  <2>. QED
    BY <1>7, <1>t, <1>n, <2>1, <2>3, KeepsLock DEF Undo, Serving, machine, history
<1>8. CASE Revert(p)
  <2>1. PICK c \in job[p].todo :
          \/ /\ Write(c, Reapplied[c][job[p].base[c]])
             /\ job' = [job EXCEPT ![p].todo = @ \ {c}]
          \/ /\ FailedWrite(c)
             /\ job' = [job EXCEPT ![p].todo = @ \ {c}, ![p].failed = TRUE]
    BY <1>8 DEF Revert
  <2>2. c \in DOMAIN job[p].base /\ c \in Control
    BY <1>8, <1>t, BaselineFacts DEF Revert, JobTyped, Serving
  <2>3. UNCHANGED <<present, baseline, lock, pc, exposed>> /\ pc[p] = "revert"
    BY <1>8 DEF Revert
  <2>4. job'[p].base = job[p].base /\ job'[p].todo = job[p].todo \ {c}
    BY <1>t, <2>1 DEF TypeOK, Jobs
  <2>5. JobHeld(p)'
    <3>1. CASE /\ Write(c, Reapplied[c][job[p].base[c]])
               /\ job' = [job EXCEPT ![p].todo = @ \ {c}]
      <4>1. job'[p].failed = job[p].failed
        BY <1>t, <3>1 DEF TypeOK, Jobs
      <4>2. ctl'[c] = Reapplied[c][job[p].base[c]] /\ \A d \in Control \ {c} : ctl'[d] = ctl[d]
        BY <1>t, <2>2, <3>1 DEF Write, TypeOK
      <4>3. DOMAIN job[p].base \subseteq Control
        BY <1>8, <1>t, BaselineFacts DEF Revert, JobTyped, Serving
      <4>. QED
        BY <1>t, <2>2, <2>3, <2>4, <4>1, <4>2, <4>3 DEF JobHeld, Serving
    <3>2. CASE job' = [job EXCEPT ![p].todo = @ \ {c}, ![p].failed = TRUE]
      <4>1. job'[p].failed = TRUE
        BY <1>t, <3>2 DEF TypeOK, Jobs
      <4>. QED
        BY <1>t, <2>3, <2>4, <4>1 DEF JobHeld, Serving
    <3>. QED
      BY <2>1, <3>1, <3>2
  <2>6. Goto(p, "revert")
    BY <1>t, <2>3 DEF Goto, TypeOK
  <2>. QED
    BY <1>t, <1>n, <2>3, <2>5, <2>6, KeepsLock DEF Serving
<1>9. CASE Finish(p)
  <2>1. baseline' # NoBaseline => DOMAIN baseline' = exposed'
    BY <1>9, <1>n DEF Finish
  <2>2. \E outcome \in Ended : Reply(p, outcome)
    BY <1>9 DEF Finish, Ended
  <2>. QED
    BY <1>9, <1>t, <2>1, <2>2, GivesLock DEF Finish, Serving
<1>. QED
  BY <1>1, <1>2, <1>3, <1>4, <1>5, <1>6, <1>7, <1>8, <1>9 DEF Serve

\* Every step keeps HeldInv, a reboot included.
LEMMA NextHeld ==
    ASSUME "reads" \notin Disturbances, TypedInv, HeldInv, [Next]_vars
    PROVE  HeldInv'
<1>t. TypeOK /\ Free \notin Helpers
  BY TuningAssumption DEF TypedInv, TuningAssumption
<1>n. baseline # NoBaseline => DOMAIN baseline = exposed
  BY DEF HeldInv
<1>1. ASSUME NEW p \in Helpers, Request(p) \/ LockUnavailable(p) PROVE HeldInv'
  <2>1. /\ UNCHANGED <<machine, lock, history>>
        /\ pc[p] \notin Serving
        /\ pc'[p] \notin Serving
        /\ \A q \in Helpers \ {p} : pc'[q] = pc[q] /\ job'[q] = job[q]
    BY <1>1, <1>t DEF Request, LockUnavailable, Goto, TypeOK, Ended, Serving
  <2>2. LockInv'
    BY <2>1 DEF HeldInv, LockInv
  <2>3. \A q \in Helpers : JobHeld(q)'
    BY <2>1 DEF HeldInv, JobHeld, machine, history, Serving
  <2>. QED
    BY <1>n, <2>1, <2>2, <2>3 DEF HeldInv, machine, history
<1>2. ASSUME NEW p \in Helpers, Acquire(p) PROVE HeldInv'
  <2>1. /\ UNCHANGED <<machine, history>>
        /\ pc'[p] = "locked" /\ lock' = p
        /\ \A q \in Helpers \ {p} : pc'[q] = pc[q] /\ pc[q] \notin Serving
    BY <1>2, <1>t DEF Acquire, Goto, TypeOK, HeldInv, LockInv
  <2>2. LockInv'
    BY <2>1 DEF LockInv, Serving
  <2>3. \A q \in Helpers : JobHeld(q)'
    BY <2>1 DEF JobHeld, Serving
  <2>. QED
    BY <1>n, <2>1, <2>2, <2>3 DEF HeldInv, machine, history
<1>3. ASSUME NEW p \in Helpers, Crash(p) PROVE HeldInv'
  <2>1. /\ UNCHANGED <<present, baseline, orig, exposed>>
        /\ pc'[p] = "idle"
        /\ lock' = IF lock = p THEN Free ELSE lock
        /\ \A q \in Helpers \ {p} : pc'[q] = pc[q] /\ job'[q] = job[q]
    BY <1>3, <1>t DEF Crash, Goto, TypeOK
  <2>2. LockInv'
    BY <1>t, <2>1 DEF HeldInv, LockInv, Serving
  <2>3. ASSUME NEW q \in Helpers \ {p} PROVE JobHeld(q)'
    <3>1. CASE pc[q] \in Serving
      <4>1. pc[p] \notin Serving
        BY <3>1 DEF HeldInv, LockInv
      <4>2. UNCHANGED ctl
        BY <1>3, <4>1 DEF Crash, Serving
      <4>. QED
        BY <2>1, <4>2 DEF HeldInv, JobHeld
    <3>2. CASE pc[q] \notin Serving
      BY <2>1, <3>2 DEF JobHeld, Serving
    <3>. QED
      BY <3>1, <3>2
  <2>4. JobHeld(p)'
    BY <2>1 DEF JobHeld, Serving
  <2>. QED
    BY <1>n, <2>1, <2>2, <2>3, <2>4 DEF HeldInv
<1>4. CASE EnvironmentChange
  <2>1. \A q \in Helpers : pc[q] \notin Serving
    BY <1>4, <1>t DEF EnvironmentChange, HeldInv, LockInv
  <2>2. LockInv' /\ \A q \in Helpers : JobHeld(q)'
    BY <1>4, <2>1 DEF EnvironmentChange, HeldInv, LockInv, JobHeld, Serving
  <2>. QED
    BY <1>4, <1>n, <2>2 DEF EnvironmentChange, HeldInv
<1>5. CASE Hotplug
  <2>1. LockInv' /\ \A q \in Helpers : JobHeld(q)'
    BY <1>5 DEF Hotplug, HeldInv, LockInv, JobHeld, history
  <2>. QED
    BY <1>5, <1>n, <2>1 DEF Hotplug, HeldInv, history
<1>6. CASE Reboot
  <2>1. LockInv' /\ \A q \in Helpers : JobHeld(q)'
    BY <1>6, <1>t DEF Reboot, LockInv, JobHeld, Serving
  <2>. QED
    BY <1>6, <1>n, <2>1 DEF Reboot, HeldInv
<1>7. CASE UNCHANGED vars
  BY <1>7, <1>n DEF vars, machine, history, HeldInv, LockInv, JobHeld
<1>. QED
  BY <1>1, <1>2, <1>3, <1>4, <1>5, <1>6, <1>7, ServeHeld DEF Next

\* While the baseline can be read, TypedInv and HeldInv are invariants.
LEMMA HeldInvariant ==
    ASSUME "reads" \notin Disturbances
    PROVE  Spec => [](TypedInv /\ HeldInv)
<1>1. Init => TypedInv /\ HeldInv
  BY InitTyped, InitHeld
<1>2. TypedInv /\ HeldInv /\ [Next]_vars => (TypedInv /\ HeldInv)'
  BY NextTyped, NextHeld
<1>. QED
  BY <1>1, <1>2, PTL DEF Spec

\* Only write_baseline and the final unlink touch the baseline file.
LEMMA BaselineStep ==
    ASSUME [Next]_vars, baseline' # baseline
    PROVE  \E p \in Helpers : Save(p) \/ Finish(p)
<1>1. ASSUME NEW p \in Helpers,
             Request(p) \/ Acquire(p) \/ LockUnavailable(p) \/ Crash(p) \/ Check(p)
               \/ StartCpu(p) \/ WriteCpu(p) \/ WriteGpu(p) \/ StartRestore(p)
               \/ Undo(p) \/ Revert(p)
      PROVE  FALSE
  BY <1>1
  DEF Request, Acquire, LockUnavailable, Crash, Check, StartCpu, WriteCpu, WriteGpu,
      StartRestore, Undo, Revert, machine
<1>. QED
  BY <1>1 DEF Next, Serve, EnvironmentChange, Hotplug, Reboot, vars, machine

\* While the baseline can be read it is never replaced by a later one: the
\* first apply saves it, under the lock, and no apply saves it again before a
\* restore (or the first apply's own rollback) has removed it.
THEOREM BaselineKept ==
    ASSUME "reads" \notin Disturbances
    PROVE  Spec => BaselineNeverReplaced
<1>1. ASSUME TypedInv, HeldInv, [Next]_vars
      PROVE  baseline # NoBaseline => baseline' \in {baseline, NoBaseline}
  <2>1. ASSUME NEW p \in Helpers, Save(p) PROVE baseline = NoBaseline
    BY <1>1, <2>1 DEF HeldInv, JobHeld, Save
  <2>2. ASSUME NEW p \in Helpers, Finish(p) PROVE baseline' \in {baseline, NoBaseline}
    BY <2>2 DEF Finish
  <2>. QED
    BY <1>1, <2>1, <2>2, BaselineStep
<1>. QED
  BY <1>1, HeldInvariant, PTL DEF Spec, BaselineNeverReplaced

\* While the baseline can be read it is given up only when each control it
\* names has been written back, though helpers crash, controls come and go
\* and the machine restarts: an error in restore_baseline keeps the file.
THEOREM BaselineGivenUpSafely ==
    ASSUME "reads" \notin Disturbances
    PROVE  Spec => BaselineGivenUpRestored
<1>1. ASSUME TypedInv, HeldInv, [Next]_vars, baseline # NoBaseline, baseline' = NoBaseline
      PROVE  \A c \in DOMAIN baseline : ctl[c] = Reapplied[c][baseline[c]]
  <2>1. ASSUME NEW p \in Helpers, Save(p) PROVE FALSE
    BY <1>1, <2>1 DEF HeldInv, JobHeld, Save
  <2>2. PICK p \in Helpers : Finish(p)
    BY <1>1, <2>1, BaselineStep
  <2>3. pc[p] = "revert" /\ job[p].todo = {} /\ ~job[p].failed
    BY <1>1, <2>2 DEF Finish, MayDiscard
  <2>4. JobHeld(p)
    BY <1>1 DEF HeldInv
  <2>. QED
    BY <2>3, <2>4 DEF JobHeld, Serving
<1>. QED
  BY <1>1, HeldInvariant, PTL DEF Spec, BaselineGivenUpRestored

-----------------------------------------------------------------------------
(* Recoverability, between two boots.                                      *)

NamedInv ==
    /\ baseline # NoBaseline => \A c \in DOMAIN baseline \ late : baseline[c] = orig[c]
    /\ Recoverable

\* A write by a process that works from a saved baseline keeps NamedInv: the
\* control is in the baseline, or had not been exposed when it was saved.
LEMMA WriteNamed ==
    ASSUME TypedInv, HeldInv, NamedInv, baseline # NoBaseline,
           NEW c \in Control, NEW v \in Setting,
           Write(c, v) \/ UNCHANGED <<ctl, late>>, UNCHANGED <<baseline, orig>>
    PROVE  NamedInv'
<1>1. DOMAIN baseline = exposed
  BY DEF HeldInv
<1>2. CASE UNCHANGED <<ctl, late>>
  BY <1>2 DEF NamedInv, Recoverable
<1>3. CASE Write(c, v)
  <2>1. late \subseteq late' /\ c \in late' \cup DOMAIN baseline
    BY <1>1, <1>3 DEF Write
  <2>2. \A d \in Control \ {c} : ctl'[d] = ctl[d]
    BY <1>3 DEF Write, TypedInv, TypeOK
  <2>. QED
    BY <2>1, <2>2 DEF NamedInv, Recoverable
<1>. QED
  BY <1>2, <1>3

\* Every step but a reboot keeps NamedInv.
LEMMA NextNamed ==
    ASSUME "reboot" \notin Disturbances, TypedInv, HeldInv, NamedInv, [Next]_vars
    PROVE  NamedInv'
<1>v. Value \subseteq Setting /\ Torn \in Setting
  BY DEF Setting
<1>1. ASSUME NEW p \in Helpers,
             Request(p) \/ Acquire(p) \/ LockUnavailable(p) \/ Check(p)
               \/ StartCpu(p) \/ StartRestore(p) \/ Undo(p)
      PROVE  NamedInv'
  <2>1. UNCHANGED <<ctl, baseline, orig, late>>
    BY <1>1 DEF Request, Acquire, LockUnavailable, Check, StartCpu, StartRestore, Undo,
                machine, history
  <2>. QED
    BY <2>1 DEF NamedInv, Recoverable
<1>2. ASSUME NEW p \in Helpers, Save(p) PROVE NamedInv'
  <2>1. /\ baseline = NoBaseline
        /\ DOMAIN job[p].base = exposed
        /\ \A c \in exposed : job[p].base[c] = ctl[c]
    BY <1>2 DEF Save, HeldInv, JobHeld
  <2>2. \A c \in Control \ late : ctl[c] = orig[c]
    BY <2>1 DEF NamedInv, Recoverable
  <2>3. exposed \subseteq Control
    BY DEF TypedInv, TypeOK
  <2>4. UNCHANGED <<ctl, orig, late>> /\ baseline' \in {baseline, job[p].base}
    BY <1>2 DEF Save, history
  <2>. QED
    BY <2>1, <2>2, <2>3, <2>4 DEF NamedInv, Recoverable
<1>3. ASSUME NEW p \in Helpers, WriteCpu(p) PROVE NamedInv'
  <2>1. PICK c \in job[p].todo : Write(c, Wanted(job[p].req, c)) \/ FailedWrite(c)
    BY <1>3 DEF WriteCpu
  <2>2. c \in Control /\ Wanted(job[p].req, c) \in Setting
    BY <1>3, <1>v DEF WriteCpu, TypedInv, TypeOK, Jobs, JobTyped
  <2>3. baseline # NoBaseline /\ UNCHANGED <<baseline, orig>>
    BY <1>3 DEF WriteCpu, HeldInv, JobHeld, Serving
  <2>. QED
    BY <1>v, <2>1, <2>2, <2>3, WriteNamed DEF FailedWrite
<1>4. ASSUME NEW p \in Helpers, WriteGpu(p) PROVE NamedInv'
  <2>1. baseline # NoBaseline /\ UNCHANGED <<baseline, orig>>
    BY <1>4 DEF WriteGpu, HeldInv, JobHeld, Serving
  <2>2. CASE UNCHANGED <<ctl, late>>
    BY <2>1, <2>2 DEF NamedInv, Recoverable
  <2>3. CASE /\ job[p].req.gpu \in present \ Fixed
             /\ Write(job[p].req.gpu, job[p].req.limit)
    <3>1. job[p].req.gpu \in Control /\ job[p].req.gpu # Absent
      BY <2>3, TuningAssumption DEF TypedInv, TypeOK, TuningAssumption
    <3>2. job[p].req.limit \in Setting
      BY <1>v, <3>1 DEF TypedInv, TypeOK, Jobs, Requests
    <3>. QED
      BY <2>1, <2>3, <3>1, <3>2, WriteNamed
  <2>. QED
    BY <1>4, <2>2, <2>3 DEF WriteGpu
<1>5. ASSUME NEW p \in Helpers, Revert(p) PROVE NamedInv'
  <2>1. PICK c \in job[p].todo :
            Write(c, Reapplied[c][job[p].base[c]]) \/ FailedWrite(c)
    BY <1>5 DEF Revert
  <2>2. c \in Control /\ Reapplied[c][job[p].base[c]] \in Setting
    <3>1. job[p].base \in Baselines /\ c \in DOMAIN job[p].base
      BY <1>5 DEF Revert, TypedInv, JobTyped, Serving
    <3>. QED
      BY <3>1, BaselineFacts, ReappliedFacts
  <2>3. baseline # NoBaseline /\ UNCHANGED <<baseline, orig>>
    BY <1>5 DEF Revert, HeldInv, JobHeld, Serving
  <2>. QED
    BY <1>v, <2>1, <2>2, <2>3, WriteNamed DEF FailedWrite
<1>6. ASSUME NEW p \in Helpers, Finish(p) PROVE NamedInv'
  <2>1. baseline # NoBaseline /\ job[p].base = baseline /\ UNCHANGED <<ctl, late>>
    BY <1>6 DEF Finish, HeldInv, JobHeld, Serving
  <2>2. CASE UNCHANGED <<baseline, orig>>
    BY <2>1, <2>2 DEF NamedInv, Recoverable
  <2>3. CASE /\ baseline' = NoBaseline
             /\ orig' = [c \in Control |->
                            IF c \in DOMAIN job[p].base THEN ctl[c] ELSE orig[c]]
    BY <2>1, <2>3 DEF NamedInv, Recoverable
  <2>. QED
    BY <1>6, <2>2, <2>3 DEF Finish
<1>7. ASSUME NEW p \in Helpers, Crash(p) PROVE NamedInv'
  <2>1. UNCHANGED <<baseline, orig>>
    BY <1>7 DEF Crash
  <2>2. CASE UNCHANGED <<ctl, late>>
    BY <2>1, <2>2 DEF NamedInv, Recoverable
  <2>3. CASE pc[p] \in {"write", "revert"} /\ \E c \in Policies : Write(c, Torn)
    <3>1. baseline # NoBaseline
      BY <2>3 DEF HeldInv, JobHeld, Serving
    <3>. QED
      BY <1>v, <2>1, <2>3, <3>1, WriteNamed DEF Control
  <2>. QED
    BY <1>7, <2>2, <2>3 DEF Crash
<1>8. CASE EnvironmentChange
  <2>1. PICK c \in present, v \in Value :
          /\ ctl' = [ctl EXCEPT ![c] = v]
          /\ orig' = [orig EXCEPT ![c] = v]
          /\ late' = late \ {c}
    BY <1>8 DEF EnvironmentChange
  <2>2. c \in Control /\ baseline = NoBaseline /\ UNCHANGED baseline
    BY <1>8, <2>1 DEF EnvironmentChange, TypedInv, TypeOK
  <2>3. ctl'[c] = orig'[c] /\ \A d \in Control \ {c} : ctl'[d] = ctl[d] /\ orig'[d] = orig[d]
    BY <2>1, <2>2 DEF TypedInv, TypeOK
  <2>. QED
    BY <2>1, <2>2, <2>3 DEF NamedInv, Recoverable
<1>9. CASE Hotplug \/ UNCHANGED vars
  BY <1>9 DEF Hotplug, vars, machine, history, NamedInv, Recoverable
<1>. QED
  BY <1>1, <1>2, <1>3, <1>4, <1>5, <1>6, <1>7, <1>8, <1>9 DEF Next, Serve, Reboot

\* Between two boots, while the baseline file can be read, what tuning changed
\* can be put back at every moment: whichever helper crashes wherever, however
\* writes fail and controls come and go.
THEOREM RecoverableBetweenBoots ==
    ASSUME Disturbances \cap {"reboot", "reads"} = {}
    PROVE  Spec => []Recoverable
<1>1. "reboot" \notin Disturbances /\ "reads" \notin Disturbances
  OBVIOUS
<1>2. Init => NamedInv
  BY DEF Init, NamedInv, Recoverable
<1>3. NamedInv /\ TypedInv /\ HeldInv /\ [Next]_vars => NamedInv'
  BY <1>1, NextNamed
<1>4. Spec => [](TypedInv /\ HeldInv)
  BY <1>1, HeldInvariant
<1>5. NamedInv => Recoverable
  BY DEF NamedInv
<1>. QED
  BY <1>2, <1>3, <1>4, <1>5, PTL DEF Spec

-----------------------------------------------------------------------------
(* The helper implements its promise, while no control comes or goes.      *)

StableInv ==
    /\ present = Control
    /\ late = {}
    /\ \A p \in Helpers : pc[p] = "save" => exposed = Control
    /\ baseline # NoBaseline => exposed = Control

\* What a write does while every control is named by the baseline.
LEMMA WriteTunes ==
    ASSUME TypedInv, HeldInv, StableInv, baseline # NoBaseline,
           NEW c \in Control, NEW v \in Setting,
           Write(c, v) \/ UNCHANGED <<ctl, late>>, UNCHANGED <<baseline, orig>>
    PROVE  late' = {} /\ (Promise!Tune \/ UNCHANGED Promise!vars)
<1>1. DOMAIN baseline = Control /\ exposed = Control
  BY DEF HeldInv, StableInv
<1>2. CASE UNCHANGED <<ctl, late>>
  BY <1>2 DEF StableInv, Promise!vars
<1>3. CASE Write(c, v)
  <2>1. late' = {}
    BY <1>1, <1>3 DEF Write, StableInv
  <2>2. Promise!Tune
    BY <1>1, <1>3 DEF Write, Promise!Tune
  <2>. QED
    BY <2>1, <2>2
<1>. QED
  BY <1>2, <1>3

\* Each step of the helper is a step of TuningBaseline or changes nothing there.
LEMMA StepImplements ==
    ASSUME Disturbances \subseteq {"writes"},
           TypedInv, HeldInv, NamedInv, StableInv, [Next]_vars
    PROVE  StableInv' /\ [Promise!Next]_(Promise!vars)
<1>. DEFINE Step == [Promise!Next]_(Promise!vars)
<1>v. Value \subseteq Setting /\ Torn \in Setting
  BY DEF Setting
<1>d. "hotplug" \notin Disturbances /\ "reboot" \notin Disturbances /\ "reads" \notin Disturbances
  OBVIOUS
<1>o. baseline = NoBaseline => orig = ctl
  BY DEF StableInv, NamedInv, Recoverable, TypedInv, TypeOK
<1>1. ASSUME NEW p \in Helpers,
             Request(p) \/ Acquire(p) \/ LockUnavailable(p) \/ StartCpu(p)
               \/ StartRestore(p) \/ Undo(p)
      PROVE  StableInv' /\ Step
  <2>1. UNCHANGED <<machine, history>>
    BY <1>1 DEF Request, Acquire, LockUnavailable, StartCpu, StartRestore, Undo
  <2>2. \A q \in Helpers : pc'[q] = "save" => pc[q] = "save"
    BY <1>1 DEF Request, Acquire, LockUnavailable, StartCpu, StartRestore, Undo, Goto,
                Reply, TypedInv, TypeOK
  <2>. QED
    BY <2>1, <2>2 DEF StableInv, machine, history, Promise!vars
<1>2. ASSUME NEW p \in Helpers, Check(p) PROVE StableInv' /\ Step
  <2>1. UNCHANGED <<present, ctl, baseline, orig, late>> /\ exposed' \in {exposed, present}
    BY <1>2 DEF Check, machine
  <2>2. \A q \in Helpers : pc'[q] = "save" => pc[q] = "save" \/ exposed' = present
    BY <1>2 DEF Check, Goto, Reply, TypedInv, TypeOK
  <2>. QED
    BY <2>1, <2>2 DEF StableInv, Promise!vars
<1>3. ASSUME NEW p \in Helpers, Save(p) PROVE StableInv' /\ Step
  <2>1. /\ baseline = NoBaseline
        /\ DOMAIN job[p].base = Control
        /\ \A c \in Control : job[p].base[c] = orig[c]
        /\ exposed = Control
    BY <1>3, <1>o DEF Save, HeldInv, JobHeld, StableInv
  <2>2. job[p].base = [c \in Control |-> orig[c]]
    <3>1. job[p].base \in Baselines
      BY <1>3 DEF Save, TypedInv, JobTyped, Serving
    <3>2. PICK named \in SUBSET Control : job[p].base \in [named -> Setting]
      BY <3>1 DEF Baselines
    <3>. QED
      BY <2>1, <3>2
  <2>3. UNCHANGED <<present, ctl, orig, exposed, late>> /\ baseline' \in {baseline, job[p].base}
    BY <1>3 DEF Save, history
  <2>4. StableInv'
    BY <2>1, <2>3 DEF StableInv
  <2>5. CASE baseline' = job[p].base
    BY <2>1, <2>2, <2>3, <2>4, <2>5 DEF Promise!Next, Promise!Capture
  <2>6. CASE baseline' = baseline
    BY <2>3, <2>4, <2>6 DEF Promise!vars
  <2>. QED
    BY <2>3, <2>4, <2>5, <2>6
<1>4. ASSUME NEW p \in Helpers, WriteCpu(p) PROVE StableInv' /\ Step
  <2>1. PICK c \in job[p].todo : Write(c, Wanted(job[p].req, c)) \/ FailedWrite(c)
    BY <1>4 DEF WriteCpu
  <2>2. c \in Control /\ Wanted(job[p].req, c) \in Setting
    BY <1>4, <1>v DEF WriteCpu, TypedInv, TypeOK, Jobs, JobTyped
  <2>3. baseline # NoBaseline /\ UNCHANGED <<baseline, orig>>
    BY <1>4 DEF WriteCpu, HeldInv, JobHeld, Serving
  <2>4. late' = {} /\ (Promise!Tune \/ UNCHANGED Promise!vars)
    BY <1>v, <2>1, <2>2, <2>3, WriteTunes DEF FailedWrite
  <2>5. StableInv'
    BY <1>4, <2>3, <2>4 DEF WriteCpu, StableInv
  <2>. QED
    BY <2>4, <2>5 DEF Promise!Next
<1>5. ASSUME NEW p \in Helpers, WriteGpu(p) PROVE StableInv' /\ Step
  <2>1. baseline # NoBaseline /\ UNCHANGED <<present, baseline, orig, exposed>>
    BY <1>5 DEF WriteGpu, HeldInv, JobHeld, Serving
  <2>2. late' = {} /\ (Promise!Tune \/ UNCHANGED Promise!vars)
    <3>1. CASE UNCHANGED <<ctl, late>>
      BY <2>1, <3>1 DEF StableInv, Promise!vars
    <3>2. CASE /\ job[p].req.gpu \in present \ Fixed
               /\ Write(job[p].req.gpu, job[p].req.limit)
      <4>1. job[p].req.gpu \in Control /\ job[p].req.gpu # Absent
        BY <3>2, TuningAssumption DEF TypedInv, TypeOK, TuningAssumption
      <4>2. job[p].req.limit \in Setting
        BY <1>v, <4>1 DEF TypedInv, TypeOK, Jobs, Requests
      <4>. QED
        BY <2>1, <3>2, <4>1, <4>2, WriteTunes
    <3>. QED
      BY <1>5, <3>1, <3>2 DEF WriteGpu
  <2>3. StableInv'
    BY <2>1, <2>2 DEF StableInv
  <2>. QED
    BY <2>2, <2>3 DEF Promise!Next
<1>6. ASSUME NEW p \in Helpers, Revert(p) PROVE StableInv' /\ Step
  <2>1. PICK c \in job[p].todo :
            Write(c, Reapplied[c][job[p].base[c]]) \/ FailedWrite(c)
    BY <1>6 DEF Revert
  <2>2. c \in Control /\ Reapplied[c][job[p].base[c]] \in Setting
    <3>1. job[p].base \in Baselines /\ c \in DOMAIN job[p].base
      BY <1>6 DEF Revert, TypedInv, JobTyped, Serving
    <3>. QED
      BY <3>1, BaselineFacts, ReappliedFacts
  <2>3. baseline # NoBaseline /\ UNCHANGED <<baseline, orig>>
    BY <1>6 DEF Revert, HeldInv, JobHeld, Serving
  <2>4. late' = {} /\ (Promise!Tune \/ UNCHANGED Promise!vars)
    BY <1>v, <2>1, <2>2, <2>3, WriteTunes DEF FailedWrite
  <2>5. StableInv'
    BY <1>6, <2>3, <2>4 DEF Revert, StableInv
  <2>. QED
    BY <2>4, <2>5 DEF Promise!Next
<1>7. ASSUME NEW p \in Helpers, Finish(p) PROVE StableInv' /\ Step
  <2>1. /\ baseline # NoBaseline /\ job[p].base = baseline
        /\ DOMAIN baseline = Control
        /\ UNCHANGED <<present, ctl, exposed, late>>
    BY <1>7 DEF Finish, HeldInv, JobHeld, Serving, StableInv
  <2>2. StableInv'
    BY <1>7, <2>1 DEF Finish, Reply, Goto, StableInv, TypedInv, TypeOK
  <2>3. CASE UNCHANGED <<baseline, orig>>
    BY <2>1, <2>2, <2>3 DEF Promise!vars
  <2>4. CASE /\ MayDiscard(job[p])
             /\ baseline' = NoBaseline
             /\ orig' = [c \in Control |->
                            IF c \in DOMAIN job[p].base THEN ctl[c] ELSE orig[c]]
    <3>1. \A c \in DOMAIN baseline : ctl[c] = Reapplied[c][baseline[c]]
      BY <1>7, <2>1, <2>4 DEF Finish, MayDiscard, HeldInv, JobHeld
    <3>2. orig' = ctl
      BY <2>1, <2>4 DEF TypedInv, TypeOK
    <3>. QED
      BY <2>1, <2>4, <2>2, <3>1, <3>2 DEF Promise!Next, Promise!Discard
  <2>. QED
    BY <1>7, <2>2, <2>3, <2>4 DEF Finish
<1>8. ASSUME NEW p \in Helpers, Crash(p) PROVE StableInv' /\ Step
  <2>1. UNCHANGED <<present, baseline, orig, exposed>>
    BY <1>8 DEF Crash
  <2>2. late' = {} /\ (Promise!Tune \/ UNCHANGED Promise!vars)
    <3>1. CASE UNCHANGED <<ctl, late>>
      BY <2>1, <3>1 DEF StableInv, Promise!vars
    <3>2. CASE pc[p] \in {"write", "revert"} /\ \E c \in Policies : Write(c, Torn)
      <4>1. baseline # NoBaseline
        BY <3>2 DEF HeldInv, JobHeld, Serving
      <4>. QED
        BY <1>v, <2>1, <3>2, <4>1, WriteTunes DEF Control
    <3>. QED
      BY <1>8, <3>1, <3>2 DEF Crash
  <2>3. StableInv'
    BY <1>8, <2>1, <2>2 DEF Crash, Goto, StableInv, TypedInv, TypeOK
  <2>. QED
    BY <2>2, <2>3 DEF Promise!Next
<1>9. CASE EnvironmentChange
  <2>1. PICK c \in present, v \in Value :
          /\ ctl' = [ctl EXCEPT ![c] = v]
          /\ orig' = [orig EXCEPT ![c] = v]
          /\ late' = late \ {c}
    BY <1>9 DEF EnvironmentChange
  <2>2. orig' = ctl' /\ orig' \in [Control -> Setting]
    BY <1>9, <1>o, <1>v, <2>1 DEF EnvironmentChange, TypedInv, TypeOK
  <2>3. baseline = NoBaseline /\ UNCHANGED <<present, baseline, pc, exposed>>
    BY <1>9 DEF EnvironmentChange
  <2>4. StableInv'
    BY <2>1, <2>3 DEF StableInv
  <2>. QED
    BY <2>2, <2>3, <2>4 DEF Promise!Next, Promise!Change
<1>10. CASE UNCHANGED vars
  BY <1>10 DEF vars, machine, history, StableInv, Promise!vars
<1>. QED
  BY <1>d, <1>1, <1>2, <1>3, <1>4, <1>5, <1>6, <1>7, <1>8, <1>9, <1>10
  DEF Next, Serve, Hotplug, Reboot

\* While controls do not come and go, the machine is not restarted and the
\* baseline file can be read, the helper implements TuningBaseline: its locks,
\* crashes, failing writes and rollbacks never show a state or a step in
\* which the baseline is not what the settings were before the first tuning.
THEOREM PromiseKept ==
    ASSUME Disturbances \subseteq {"writes"}
    PROVE  Spec => ImplementsPromise
<1>1. "reboot" \notin Disturbances /\ "reads" \notin Disturbances /\ "hotplug" \notin Disturbances
  OBVIOUS
<1>2. Init => NamedInv /\ StableInv /\ Promise!Init
  BY <1>1 DEF Init, NamedInv, StableInv, Recoverable, Promise!Init, Setting
<1>3. TypedInv /\ HeldInv /\ NamedInv /\ StableInv /\ [Next]_vars
        => NamedInv' /\ StableInv' /\ [Promise!Next]_(Promise!vars)
  BY <1>1, NextNamed, StepImplements
<1>4. Spec => [](TypedInv /\ HeldInv)
  BY <1>1, HeldInvariant
<1>. QED
  BY <1>2, <1>3, <1>4, PTL DEF Spec, ImplementsPromise, Promise!Spec
-----------------------------------------------------------------------------
(* An apply that answers "ok", while no control comes or goes.             *)

\* What of its request a process has written so far is in effect.
JobWritten(p) ==
    LET r == job[p].req IN
    /\ pc[p] \in {"save", "cpu", "write", "gpu"} => Valid(r)
    /\ pc[p] = "write" =>
          /\ r.cpu # Absent
          /\ \A c \in CpuControls(r) \ job[p].todo : ctl[c] = Wanted(r, c)
    /\ pc[p] = "gpu" /\ r.cpu # Absent =>
          \A c \in CpuControls(r) : ctl[c] = Wanted(r, c)

WrittenInv == /\ present = Control
              /\ LockInv
              /\ \A p \in Helpers : JobWritten(p)

\* Only the holder of the lock serves, the baseline readable or not.
LEMMA NextLock == TypeOK /\ LockInv /\ [Next]_vars => LockInv'
<1>. SUFFICES ASSUME TypeOK, LockInv, [Next]_vars PROVE LockInv'
  OBVIOUS
<1>f. Free \notin Helpers
  BY TuningAssumption
<1>1. ASSUME NEW p \in Helpers, NEW step \in Serving, pc[p] \in Serving, Goto(p, step),
             UNCHANGED lock
      PROVE  LockInv'
  BY <1>1 DEF Goto, TypeOK, LockInv
<1>2. ASSUME NEW p \in Helpers, NEW outcome \in Ended, pc[p] \in Serving, Reply(p, outcome)
      PROVE  LockInv'
  BY <1>2, <1>f DEF Reply, Goto, TypeOK, LockInv, Ended, Serving
<1>3. ASSUME NEW p \in Helpers, Check(p) PROVE LockInv'
  BY <1>1, <1>2, <1>3 DEF Check, Ended, Serving
<1>4. ASSUME NEW p \in Helpers, Save(p) \/ StartRestore(p) \/ WriteGpu(p) PROVE LockInv'
  BY <1>1, <1>2, <1>4 DEF Save, StartRestore, WriteGpu, Ended, Serving
<1>5. ASSUME NEW p \in Helpers, StartCpu(p) \/ Undo(p) PROVE LockInv'
  BY <1>1, <1>5 DEF StartCpu, Undo, Serving
<1>6. ASSUME NEW p \in Helpers, WriteCpu(p) PROVE LockInv'
  BY <1>1, <1>6 DEF WriteCpu, Serving
<1>7. ASSUME NEW p \in Helpers, Revert(p) PROVE LockInv'
  BY <1>7 DEF Revert, LockInv
<1>8. ASSUME NEW p \in Helpers, Finish(p) PROVE LockInv'
  BY <1>2, <1>8 DEF Finish, Ended, Serving
<1>9. ASSUME NEW p \in Helpers, Request(p) \/ LockUnavailable(p) PROVE LockInv'
  BY <1>9 DEF Request, LockUnavailable, Goto, TypeOK, Ended, Serving, LockInv
<1>10. ASSUME NEW p \in Helpers, Acquire(p) PROVE LockInv'
  BY <1>10, <1>f DEF Acquire, Goto, TypeOK, LockInv, Serving
<1>11. ASSUME NEW p \in Helpers, Crash(p) PROVE LockInv'
  BY <1>11, <1>f DEF Crash, Goto, TypeOK, LockInv, Serving
<1>12. CASE EnvironmentChange \/ Hotplug \/ UNCHANGED vars
  BY <1>12 DEF EnvironmentChange, Hotplug, vars, machine, LockInv
<1>13. CASE Reboot
  BY <1>13, <1>f DEF Reboot, LockInv, Serving
<1>. QED
  BY <1>3, <1>4, <1>5, <1>6, <1>7, <1>8, <1>9, <1>10, <1>11, <1>12, <1>13 DEF Next, Serve

\* A process keeps what it has written while the steps of others leave the
\* settings alone, or it is not in the middle of an apply.
LEMMA OthersWritten ==
    ASSUME NEW q \in Helpers, JobWritten(q), UNCHANGED present,
           \/ pc'[q] \notin Serving
           \/ UNCHANGED ctl /\ pc'[q] = pc[q] /\ job'[q] = job[q]
    PROVE  JobWritten(q)'
<1>1. CASE pc'[q] \notin Serving
  BY <1>1 DEF JobWritten, Serving
<1>2. CASE UNCHANGED ctl /\ pc'[q] = pc[q] /\ job'[q] = job[q]
  BY <1>2 DEF JobWritten, Valid, CpuControls, Wanted
<1>. QED
  BY <1>1, <1>2

\* A step of a process that serves a request keeps WrittenInv's last part.
LEMMA ServeWritten ==
    ASSUME TypedInv, WrittenInv, NEW p \in Helpers, Serve(p), UNCHANGED present
    PROVE  \A q \in Helpers : JobWritten(q)'
<1>t. TypeOK /\ job[p] \in Jobs /\ JobWritten(p)
  BY DEF TypedInv, TypeOK, WrittenInv
<1>s. pc[p] \in Serving
  BY DEF Serve, Check, Save, StartCpu, WriteCpu, WriteGpu, StartRestore, Undo, Revert,
         Finish, Serving
<1>o. ASSUME NEW q \in Helpers \ {p} PROVE JobWritten(q)'
  <2>1. pc[q] \notin Serving
    BY <1>s, Alone DEF WrittenInv
  <2>2. pc'[q] = pc[q]
    BY <1>t DEF Serve, Check, Save, StartCpu, WriteCpu, WriteGpu, StartRestore, Undo, Revert,
                Finish, Reply, Goto, TypeOK
  <2>. QED
    BY <2>1, <2>2, OthersWritten DEF WrittenInv
<1>. SUFFICES JobWritten(p)'
  BY <1>o
<1>1. CASE Check(p)
  <2>1. CASE Reply(p, "error")
    <3>1. pc'[p] \notin Serving
      BY <1>t, <2>1 DEF Reply, Goto, TypeOK, Serving
    <3>. QED
      BY <1>t, <3>1, OthersWritten
  <2>2. CASE /\ Valid(job[p].req)
             /\ \E step \in {"save", "cpu"} : Goto(p, step)
             /\ job'[p].req = job[p].req
    <3>1. pc'[p] \in {"save", "cpu"}
      BY <1>t, <2>2 DEF Goto, TypeOK
    <3>2. Valid(job[p].req)'
      BY <2>2 DEF Valid
    <3>. QED
      BY <3>1, <3>2 DEF JobWritten
  <2>3. CASE \E loaded \in Loadable :
                IF loaded = NoBaseline
                THEN /\ job' = [job EXCEPT ![p].fresh = TRUE, ![p].base = Snapshot]
                     /\ Goto(p, "save")
                ELSE /\ job' = [job EXCEPT ![p].fresh = FALSE, ![p].base = loaded]
                     /\ Goto(p, "cpu")
    <3>1. job'[p].req = job[p].req
      BY <1>t, <2>3 DEF TypeOK, Jobs
    <3>2. \E step \in {"save", "cpu"} : Goto(p, step)
      BY <2>3
    <3>3. Valid(job[p].req) \/ Reply(p, "error")
      BY <1>1 DEF Check
    <3>. QED
      BY <2>1, <2>2, <3>1, <3>2, <3>3
  <2>. QED
    BY <1>1, <2>1, <2>3 DEF Check
<1>2. CASE Save(p)
  <2>1. CASE Goto(p, "cpu") /\ UNCHANGED job
    <3>1. pc[p] = "save" /\ pc'[p] = "cpu" /\ job'[p] = job[p]
      BY <1>2, <1>t, <2>1 DEF Save, Goto, TypeOK
    <3>. QED
      BY <1>t, <3>1 DEF JobWritten, Valid
  <2>2. CASE Reply(p, "error")
    <3>1. pc'[p] \notin Serving
      BY <1>t, <2>2 DEF Reply, Goto, TypeOK, Serving
    <3>. QED
      BY <1>t, <3>1, OthersWritten
  <2>. QED
    BY <1>2, <2>1, <2>2 DEF Save
<1>3. CASE StartCpu(p)
  <2>1. CASE job[p].req.cpu = Absent /\ Goto(p, "gpu") /\ UNCHANGED job
    <3>1. pc[p] = "cpu" /\ pc'[p] = "gpu" /\ job'[p] = job[p]
      BY <1>3, <1>t, <2>1 DEF StartCpu, Goto, TypeOK
    <3>. QED
      BY <1>t, <2>1, <3>1 DEF JobWritten, Valid
  <2>2. CASE /\ job[p].req.cpu # Absent
             /\ job' = [job EXCEPT ![p].todo = CpuControls(job[p].req)]
             /\ Goto(p, "write")
    <3>1. /\ pc[p] = "cpu" /\ pc'[p] = "write"
          /\ job'[p].req = job[p].req /\ job'[p].todo = CpuControls(job[p].req)
      BY <1>3, <1>t, <2>2 DEF StartCpu, Goto, TypeOK, Jobs
    <3>2. CpuControls(job[p].req)' = job'[p].todo
      BY <3>1 DEF CpuControls
    <3>. QED
      BY <1>t, <2>2, <3>1, <3>2 DEF JobWritten, Valid
  <2>3. CASE Goto(p, "undo")
    <3>1. pc'[p] = "undo"
      BY <1>t, <2>3 DEF Goto, TypeOK
    <3>. QED
      BY <3>1 DEF JobWritten
  <2>. QED
    BY <1>3, <2>1, <2>2, <2>3 DEF StartCpu
<1>4. CASE WriteCpu(p)
  <2>. DEFINE r == job[p].req
  <2>w. pc[p] = "write"
    BY <1>4 DEF WriteCpu
  <2>1. CASE Goto(p, "undo")
    <3>1. pc'[p] = "undo"
      BY <1>t, <2>1 DEF Goto, TypeOK
    <3>. QED
      BY <3>1 DEF JobWritten
  <2>2. ASSUME NEW c \in job[p].todo, Write(c, Wanted(r, c)),
               job' = [job EXCEPT ![p].todo = @ \ {c}],
               Goto(p, IF job[p].todo = {c} THEN "gpu" ELSE "write")
        PROVE  JobWritten(p)'
    <3>1. job'[p].req = r /\ job'[p].todo = job[p].todo \ {c}
      BY <1>t, <2>2 DEF TypeOK, Jobs
    <3>2. c \in Control /\ ctl'[c] = Wanted(r, c) /\ \A d \in Control \ {c} : ctl'[d] = ctl[d]
      BY <1>t, <2>2 DEF Write, TypeOK, Jobs
    <3>3. r.cpu # Absent /\ \A d \in CpuControls(r) \ job[p].todo : ctl[d] = Wanted(r, d)
      BY <1>t, <2>w DEF JobWritten
    <3>4. CpuControls(r) \subseteq Control
      BY DEF CpuControls, Control
    <3>5. \A d \in CpuControls(r) \ (job[p].todo \ {c}) : ctl'[d] = Wanted(r, d)
      BY <3>2, <3>3, <3>4
    <3>6. \/ pc'[p] = "gpu" /\ job[p].todo = {c}
          \/ pc'[p] = "write"
      BY <1>t, <2>2 DEF Goto, TypeOK
    <3>7. Valid(r) /\ Valid(job[p].req)' /\ CpuControls(job[p].req)' = CpuControls(r)
      BY <1>t, <2>w, <3>1 DEF JobWritten, Valid, CpuControls
    <3>8. \A d : Wanted(job'[p].req, d) = Wanted(r, d)
      BY <3>1 DEF Wanted
    <3>. QED
      BY <3>1, <3>3, <3>5, <3>6, <3>7, <3>8 DEF JobWritten
  <2>. QED
    BY <1>4, <2>1, <2>2 DEF WriteCpu
<1>5. CASE WriteGpu(p)
  <2>1. pc'[p] \notin {"save", "cpu", "write", "gpu"}
    BY <1>5, <1>t DEF WriteGpu, Reply, Goto, TypeOK
  <2>. QED
    BY <2>1 DEF JobWritten
<1>6. CASE StartRestore(p) \/ Undo(p) \/ Revert(p) \/ Finish(p)
  <2>1. pc'[p] \notin {"save", "cpu", "write", "gpu"}
    BY <1>6, <1>t DEF StartRestore, Undo, Revert, Finish, Reply, Goto, TypeOK
  <2>. QED
    BY <2>1 DEF JobWritten
<1>. QED
  BY <1>1, <1>2, <1>3, <1>4, <1>5, <1>6 DEF Serve

\* Every step keeps WrittenInv while no control comes or goes.
LEMMA NextWritten ==
    ASSUME "hotplug" \notin Disturbances, TypedInv, WrittenInv, [Next]_vars
    PROVE  WrittenInv'
<1>t. TypeOK
  BY DEF TypedInv
<1>p. UNCHANGED present
  <2>1. ASSUME NEW p \in Helpers, Serve(p) PROVE UNCHANGED present
    BY <2>1 DEF Serve, Check, Save, StartCpu, WriteCpu, WriteGpu, StartRestore, Undo, Revert,
                Finish, machine
  <2>2. ASSUME NEW p \in Helpers, Request(p) \/ Acquire(p) \/ LockUnavailable(p) \/ Crash(p)
        PROVE  UNCHANGED present
    BY <2>2 DEF Request, Acquire, LockUnavailable, Crash, machine
  <2>. QED
    BY <2>1, <2>2 DEF Next, EnvironmentChange, Hotplug, Reboot, vars, machine
<1>l. LockInv'
  BY <1>t, NextLock DEF WrittenInv
<1>1. ASSUME NEW p \in Helpers, Serve(p) PROVE \A q \in Helpers : JobWritten(q)'
  BY <1>1, <1>p, ServeWritten
<1>2. ASSUME NEW p \in Helpers, NEW q \in Helpers,
             Request(p) \/ Acquire(p) \/ LockUnavailable(p)
      PROVE  JobWritten(q)'
  <2>1. UNCHANGED ctl /\ pc'[p] \notin {"save", "cpu", "write", "gpu"}
    BY <1>2, <1>t DEF Request, Acquire, LockUnavailable, Goto, TypeOK, machine
  <2>2. q # p => pc'[q] = pc[q] /\ job'[q] = job[q]
    BY <1>2, <1>t DEF Request, Acquire, LockUnavailable, Goto, TypeOK
  <2>3. CASE q = p
    BY <2>1, <2>3 DEF JobWritten
  <2>4. CASE q # p
    BY <1>p, <2>1, <2>2, <2>4, OthersWritten DEF WrittenInv
  <2>. QED
    BY <2>3, <2>4
<1>3. ASSUME NEW p \in Helpers, NEW q \in Helpers, Crash(p) PROVE JobWritten(q)'
  <2>1. pc'[p] = "idle" /\ (q # p => pc'[q] = pc[q] /\ job'[q] = job[q])
    BY <1>3, <1>t DEF Crash, Goto, TypeOK
  <2>2. CASE q = p
    BY <2>1, <2>2 DEF JobWritten
  <2>3. CASE q # p /\ pc[q] \in Serving
    <3>1. pc[p] \notin Serving
      BY <2>3 DEF WrittenInv, LockInv
    <3>2. UNCHANGED ctl
      BY <1>3, <3>1 DEF Crash, Serving
    <3>. QED
      BY <1>p, <2>1, <2>3, <3>2, OthersWritten DEF WrittenInv
  <2>4. CASE q # p /\ pc[q] \notin Serving
    BY <1>p, <2>1, <2>4, OthersWritten DEF WrittenInv
  <2>. QED
    BY <2>2, <2>3, <2>4
<1>4. ASSUME NEW q \in Helpers, EnvironmentChange PROVE JobWritten(q)'
  <2>1. pc'[q] = pc[q] /\ pc[q] \notin Serving
    BY <1>4, TuningAssumption DEF EnvironmentChange, WrittenInv, LockInv
  <2>. QED
    BY <1>p, <2>1, OthersWritten DEF WrittenInv
<1>5. ASSUME NEW q \in Helpers, Reboot PROVE JobWritten(q)'
  BY <1>5 DEF Reboot, JobWritten
<1>6. ASSUME NEW q \in Helpers, UNCHANGED vars PROVE JobWritten(q)'
  BY <1>6, OthersWritten DEF vars, machine, WrittenInv
<1>w. \A q \in Helpers : JobWritten(q)'
  BY <1>1, <1>2, <1>3, <1>4, <1>5, <1>6 DEF Next, Hotplug
<1>. QED
  BY <1>p, <1>l, <1>w DEF WrittenInv

\* What the last step of an apply finds and leaves.
LEMMA AnswerAsAsked ==
    ASSUME "hotplug" \notin Disturbances, TypedInv, WrittenInv, [Next]_vars, NEW p \in Helpers
    PROVE  AppliedAsAsked(p)
<1>. SUFFICES ASSUME pc[p] = "gpu", pc'[p] = "ok" PROVE AppliedAsAsked(p)
  BY DEF AppliedAsAsked
<1>. DEFINE r == job[p].req
<1>t. TypeOK /\ r \in Requests /\ JobWritten(p)
  BY DEF TypedInv, TypeOK, WrittenInv, Jobs
<1>1. WriteGpu(p)
  <2>1. ASSUME NEW q \in Helpers, q # p,
               Request(q) \/ Acquire(q) \/ LockUnavailable(q) \/ Serve(q) \/ Crash(q)
        PROVE  pc'[p] = pc[p]
    BY <1>t, <2>1 DEF Request, Acquire, LockUnavailable, Crash, Serve, Check, Save, StartCpu,
                WriteCpu, WriteGpu, StartRestore, Undo, Revert, Finish, Reply, Goto, TypeOK
  <2>2. ~(Request(p) \/ Acquire(p) \/ LockUnavailable(p))
    BY DEF Request, Acquire, LockUnavailable, Ended
  <2>3. ~Crash(p)
    BY <1>t DEF Crash, Goto, TypeOK
  <2>4. Serve(p) => WriteGpu(p)
    BY DEF Serve, Check, Save, StartCpu, WriteCpu, StartRestore, Undo, Revert, Finish
  <2>5. ~(EnvironmentChange \/ Hotplug \/ Reboot \/ UNCHANGED vars)
    BY DEF EnvironmentChange, Hotplug, Reboot, vars
  <2>. QED
    BY <2>1, <2>2, <2>3, <2>4, <2>5 DEF Next
<1>2. \/ r.gpu = Absent /\ UNCHANGED ctl
      \/ r.gpu \in present \ Fixed /\ Write(r.gpu, r.limit)
  BY <1>1, <1>t DEF WriteGpu, Goto, TypeOK
<1>3. r.gpu = Absent \/ r.gpu \in Gpus
  BY <1>t DEF Requests
<1>4. /\ \A c \in Policies \cup Boost : ctl'[c] = ctl[c]
      /\ r.gpu # Absent => ctl'[r.gpu] = r.limit
  BY <1>2, <1>3, <1>t, TuningAssumption DEF Write, TypeOK, Control
<1>5. Policies \cup Boost \subseteq present
  BY DEF WrittenInv, Control
<1>6. r.boost # Absent => r.cpu # Absent
  BY <1>t DEF JobWritten, Valid
<1>7. r.cpu # Absent => \A c \in CpuControls(r) : ctl[c] = Wanted(r, c)
  BY <1>t DEF JobWritten
<1>8. r.cpu # Absent => \A c \in Policies : ctl'[c] = r.cpu
  BY <1>4, <1>5, <1>7 DEF CpuControls, Wanted
<1>9. r.boost # Absent => \A c \in Boost : ctl'[c] = r.boost
  BY <1>4, <1>5, <1>6, <1>7, TuningAssumption DEF CpuControls, Wanted
<1>. QED
  BY <1>4, <1>8, <1>9 DEF AppliedAsAsked

\* While no control comes or goes, an apply that answers "ok" leaves every
\* policy, the boost switch and the GPU as it was asked to, though other
\* helpers, crashes, failing writes, an unreadable baseline and restarts
\* interfere with what went before.
THEOREM AppliedInEffect ==
    ASSUME "hotplug" \notin Disturbances
    PROVE  Spec => AppliedIsInEffect
<1>1. Init => WrittenInv
  BY TuningAssumption DEF Init, WrittenInv, LockInv, JobWritten, Serving
<1>2. TypedInv /\ WrittenInv /\ [Next]_vars => WrittenInv'
  BY NextWritten
<1>3. TypedInv /\ WrittenInv /\ [Next]_vars => [\A p \in Helpers : AppliedAsAsked(p)]_vars
  BY AnswerAsAsked
<1>. QED
  BY <1>1, <1>2, <1>3, TypedInvariant, PTL DEF Spec, AppliedIsInEffect
=============================================================================
