--------------------------- MODULE TuningHelper ----------------------------
(***************************************************************************)
(* The privileged tuning helper (app/pcdiag_tuning_helper.py).  systemd    *)
(* starts one helper process per connection; each serves one apply or      *)
(* restore request under an exclusive file lock and may be killed at any   *)
(* point.  The baseline file and the kernel's and driver's settings        *)
(* survive the process.                                                    *)
(*                                                                         *)
(* A control is one setting the helper restores as a unit: a cpufreq       *)
(* policy (its governor and both bounds), the boost switch, or a GPU's     *)
(* power limit.  Controls are numbered in the order the code writes them.  *)
(* A policy takes several writes; one that fails midway, or a crash, may   *)
(* leave it `Torn'.                                                        *)
(***************************************************************************)
EXTENDS Integers

CONSTANTS
    Helpers,        \* helper processes (connections)
    Free,           \* the lock's holder while nobody has it
    Policies,       \* cpufreq policies
    Boost,          \* the boost switch: {} or one control
    Gpus,           \* NVIDIA GPUs that report a power limit
    Fixed,          \* GPUs whose driver reports no range to set the limit in
    Value,          \* what a request may ask a control to be
    Torn,           \* a policy only some of whose files were written
    Rounded,        \* Rounded[v]: a power limit rounded to whole watts
    BootSetting,    \* the settings of a freshly booted machine
    NoBaseline,     \* there is no (readable) baseline file
    Absent,         \* a part of a request that is not there
    Disturbances    \* which disturbances happen, out of those below

Control == Policies \cup Boost \cup Gpus
Setting == Value \cup {Torn}

ASSUME TuningAssumption ==
    /\ Free \notin Helpers
    /\ Control \subseteq Nat
    /\ \A p \in Policies, b \in Boost, g \in Gpus : p < b /\ b < g /\ p < g
    /\ Policies \cap Boost = {} /\ Policies \cap Gpus = {} /\ Boost \cap Gpus = {}
    /\ Fixed \subseteq Gpus
    /\ Torn \notin Value
    /\ Absent \notin Value
    /\ Absent \notin Control
    /\ Rounded \in [Value -> Value]
    /\ BootSetting \in [Control -> Value]
    /\ Disturbances \subseteq {"hotplug",  \* CPUs and GPUs come and go
                               "reboot",   \* the machine restarts
                               "writes",   \* a write to a control fails
                               "reads"}    \* the baseline cannot be read
    /\ \A named \in SUBSET Control : NoBaseline \notin [named -> Setting]

Baselines == UNION {[named -> Setting] : named \in SUBSET Control}

Requests ==
    [op : {"apply"}, cpu : Value \cup {Absent},
     boost : IF Boost = {} THEN {Absent} ELSE Value \cup {Absent},
     gpu : {Absent}, limit : {Absent}]
        \cup [op : {"apply"}, cpu : Value \cup {Absent},
              boost : IF Boost = {} THEN {Absent} ELSE Value \cup {Absent},
              gpu : Gpus, limit : Value]
        \cup [op : {"restore"}, cpu : {Absent}, boost : {Absent},
              gpu : {Absent}, limit : {Absent}]

Restore == [op |-> "restore", cpu |-> Absent, boost |-> Absent,
            gpu |-> Absent, limit |-> Absent]

\* What a helper process knows: its request, the baseline it works from,
\* whether it saved that baseline itself (new_baseline), the controls it has
\* still to write, and whether restore_baseline has collected an error.
Jobs == [req : Requests, base : Baselines \cup {NoBaseline}, fresh : BOOLEAN,
         todo : SUBSET Control, failed : BOOLEAN]

NoJob == [req |-> Restore, base |-> NoBaseline, fresh |-> FALSE,
          todo |-> {}, failed |-> FALSE]

\* Where a process is that has not been started, or has answered and ended.
Ended == {"idle", "ok", "error", "restored"}

\* Where a process is that has the lock.
Serving == {"locked", "save", "cpu", "write", "gpu", "undo", "revert"}

VARIABLES
    \* the machine
    present,   \* controls the machine exposes now
    ctl,       \* the settings
    baseline,  \* the baseline file
    lock,      \* holder of the lock file's exclusive lock
    \* the helper processes
    pc,        \* where each process is, or how it answered
    job,       \* its local state
    \* history
    orig,      \* the settings as they were before any tuning
    exposed,   \* controls exposed when state() last read them for a baseline
    late       \* controls tuned that were not exposed then

machine == <<present, ctl, baseline>>
history == <<orig, exposed, late>>
vars    == <<machine, lock, pc, job, history>>

TypeOK ==
    /\ present \subseteq Control
    /\ ctl \in [Control -> Setting]
    /\ baseline \in Baselines \cup {NoBaseline}
    /\ lock \in Helpers \cup {Free}
    /\ pc \in [Helpers -> Ended \cup Serving \cup {"waiting"}]
    /\ job \in [Helpers -> Jobs]
    /\ orig \in [Control -> Setting]
    /\ exposed \subseteq Control
    /\ late \subseteq Control

Init ==
    /\ present \in IF "hotplug" \in Disturbances THEN SUBSET Control ELSE {Control}
    /\ ctl \in [Control -> Value]
    /\ baseline = NoBaseline
    /\ lock = Free
    /\ pc = [p \in Helpers |-> "idle"]
    /\ job = [p \in Helpers |-> NoJob]
    /\ orig = ctl
    /\ exposed = {}
    /\ late = {}

-----------------------------------------------------------------------------
(* Pieces the handlers share.                                              *)

Goto(p, step) == pc' = [pc EXCEPT ![p] = step]

\* Faulty variant: an answer does not release the lock.
ReplyLocked(p, outcome) ==
    /\ Goto(p, outcome)
    /\ job' = [job EXCEPT ![p] = NoJob]
    /\ UNCHANGED lock

\* The request is answered, the lock released, and the process ends.
Reply(p, outcome) ==
    /\ Goto(p, outcome)
    /\ job' = [job EXCEPT ![p] = NoJob]
    /\ lock' = Free

\* validate_cpu and validate_gpu against the controls exposed now.
Valid(r) ==
    /\ r.cpu # Absent => Policies \cap present # {}
    /\ r.boost # Absent => r.cpu # Absent /\ Boost \cap present # {}
    /\ r.gpu # Absent => r.gpu \in present \ Fixed
    /\ r.cpu # Absent \/ r.gpu # Absent

\* What a request asks control c to be.
Wanted(r, c) ==
    IF c \in Policies THEN r.cpu ELSE IF c \in Boost THEN r.boost ELSE r.limit

\* Faulty variant: the boost switch is written although the request is silent
\* about it.
CpuControlsAndBoost(r) == (Policies \cap present) \cup Boost

\* What apply_cpu writes for a request.
CpuControls(r) ==
    (Policies \cap present) \cup (IF r.boost = Absent THEN {} ELSE Boost)

\* What writing the saved value v back makes of control c.
Reapplied == [c \in Control |-> [v \in Setting |->
                 IF c \in Gpus /\ v \in Value THEN Rounded[v] ELSE v]]

IsNext(c, S) == c \in S /\ \A d \in S : c <= d

\* A write to a control.
Write(c, v) ==
    /\ ctl' = [ctl EXCEPT ![c] = v]
    /\ late' = late \cup ({c} \ exposed)

\* A write that fails or is cut short: a policy may be left torn.
FailedWrite(c) ==
    \/ UNCHANGED <<ctl, late>>
    \/ c \in Policies /\ Write(c, Torn)

\* load_baseline, which reports a file it cannot read as absent.
Loadable == {baseline} \cup (IF "reads" \in Disturbances THEN {NoBaseline} ELSE {})

\* Faulty variant: state() leaves the GPUs out.
SnapshotOfCpu == [c \in present \ Gpus |-> ctl[c]]

\* state(): the settings of every control exposed now.
Snapshot == [c \in present |-> ctl[c]]

-----------------------------------------------------------------------------
(* A request arrives and gets the lock.  What it asks for is looked at only *)
(* then.                                                                   *)

Request(p) ==
    /\ pc[p] \in Ended
    /\ Goto(p, "waiting")
    /\ UNCHANGED <<machine, lock, job, history>>

\* Faulty variant: apply and restore do not take the process lock.
AcquireNothing(p) ==
    /\ pc[p] = "waiting"
    /\ lock' = p
    /\ Goto(p, "locked")
    /\ \E r \in Requests : job' = [job EXCEPT ![p].req = r]
    /\ UNCHANGED <<machine, history>>

Acquire(p) ==
    /\ pc[p] = "waiting"
    /\ lock = Free
    /\ lock' = p
    /\ Goto(p, "locked")
    /\ \E r \in Requests : job' = [job EXCEPT ![p].req = r]
    /\ UNCHANGED <<machine, history>>

\* The lock file cannot be opened.
LockUnavailable(p) ==
    /\ pc[p] = "waiting"
    /\ Goto(p, "error")
    /\ job' = [job EXCEPT ![p] = NoJob]
    /\ UNCHANGED <<machine, lock, history>>

-----------------------------------------------------------------------------
(* _apply_unlocked.                                                        *)

\* The whole request is validated before anything is saved or written.
\* (A malformed one, or one outside the limits, is rejected in any state.)
Check(p) ==
    /\ pc[p] = "locked"
    /\ job[p].req.op = "apply"
    /\ \/ Reply(p, "error") /\ UNCHANGED exposed
       \/ /\ Valid(job[p].req)
          /\ \E loaded \in Loadable :
                IF loaded = NoBaseline
                THEN /\ job' = [job EXCEPT ![p].fresh = TRUE, ![p].base = Snapshot]
                     /\ exposed' = present
                     /\ Goto(p, "save")
                ELSE /\ job' = [job EXCEPT ![p].fresh = FALSE, ![p].base = loaded]
                     /\ Goto(p, "cpu")
                     /\ UNCHANGED exposed
          /\ UNCHANGED lock
    /\ UNCHANGED <<machine, orig, late>>

\* write_baseline replaces the file atomically, or fails and leaves it alone;
\* if it cannot be read back an assertion ends the request.
Save(p) ==
    /\ pc[p] = "save"
    /\ \/ /\ baseline' = job[p].base
          /\ \/ Goto(p, "cpu") /\ UNCHANGED <<lock, job>>
             \/ "reads" \in Disturbances /\ Reply(p, "error")
       \/ Reply(p, "error") /\ UNCHANGED baseline
    /\ UNCHANGED <<present, ctl, history>>

\* apply_cpu validates again, against the policies exposed by now.
StartCpu(p) ==
    /\ pc[p] = "cpu"
    /\ IF job[p].req.cpu = Absent
       THEN Goto(p, "gpu") /\ UNCHANGED job
       ELSE IF Valid([job[p].req EXCEPT !.gpu = Absent])
       THEN /\ job' = [job EXCEPT ![p].todo = CpuControls(job[p].req)]
            /\ Goto(p, "write")
       ELSE Goto(p, "undo") /\ UNCHANGED job
    /\ UNCHANGED <<machine, lock, history>>

\* set_cpu_policy for the next policy, or the write to the boost file.
WriteCpu(p) ==
    /\ pc[p] = "write"
    /\ \E c \in job[p].todo :
          /\ IsNext(c, job[p].todo)
          /\ \/ /\ c \in present
                /\ Write(c, Wanted(job[p].req, c))
                /\ job' = [job EXCEPT ![p].todo = @ \ {c}]
                /\ Goto(p, IF job[p].todo = {c} THEN "gpu" ELSE "write")
             \/ /\ c \notin present \/ "writes" \in Disturbances
                /\ FailedWrite(c)
                /\ Goto(p, "undo")
                /\ UNCHANGED job
    /\ UNCHANGED <<present, baseline, lock, orig, exposed>>

\* apply_gpu, the last thing an apply does.
WriteGpu(p) ==
    /\ pc[p] = "gpu"
    /\ \/ /\ job[p].req.gpu = Absent
          /\ Reply(p, "ok")
          /\ UNCHANGED <<ctl, late>>
       \/ /\ job[p].req.gpu \in present \ Fixed
          /\ Write(job[p].req.gpu, job[p].req.limit)
          /\ Reply(p, "ok")
       \/ /\ job[p].req.gpu # Absent
          /\ job[p].req.gpu \notin present \/ "writes" \in Disturbances
          /\ Goto(p, "undo")
          /\ UNCHANGED <<ctl, late, lock, job>>
    /\ UNCHANGED <<present, baseline, orig, exposed>>

-----------------------------------------------------------------------------
(* restore_baseline, for a restore and for an apply that failed.           *)

\* _restore_unlocked loads the baseline; without one there is nothing to do.
StartRestore(p) ==
    /\ pc[p] = "locked"
    /\ job[p].req.op = "restore"
    /\ \E loaded \in Loadable :
          IF loaded = NoBaseline
          THEN Reply(p, "ok")
          ELSE /\ job' = [job EXCEPT ![p].base = loaded]
               /\ Goto(p, "undo")
               /\ UNCHANGED lock
    /\ UNCHANGED <<machine, history>>

\* A saved policy that is not exposed now is an error and is not restored.
Undo(p) ==
    /\ pc[p] = "undo"
    /\ LET gone == (DOMAIN job[p].base \cap Policies) \ present
       IN  job' = [job EXCEPT ![p].failed = (gone # {}),
                              ![p].todo = DOMAIN job[p].base \ gone]
    /\ Goto(p, "revert")
    /\ UNCHANGED <<machine, lock, history>>

\* The next control is written back; an error does not stop the others.
Revert(p) ==
    /\ pc[p] = "revert"
    /\ \E c \in job[p].todo :
          /\ IsNext(c, job[p].todo)
          /\ \/ /\ c \in present \ Fixed
                /\ Write(c, Reapplied[c][job[p].base[c]])
                /\ job' = [job EXCEPT ![p].todo = @ \ {c}]
             \/ /\ c \notin present \/ c \in Fixed \/ "writes" \in Disturbances
                /\ FailedWrite(c)
                /\ job' = [job EXCEPT ![p].todo = @ \ {c}, ![p].failed = TRUE]
    /\ UNCHANGED <<present, baseline, lock, pc, orig, exposed>>

\* Faulty variant: the baseline is removed although a control was not restored.
MayDiscardAlways(j) == j.req.op = "restore" \/ j.fresh

\* The baseline is given up only when everything in it was written back, and
\* by a failed apply only if that apply had saved it.
MayDiscard(j) == ~j.failed /\ (j.req.op = "restore" \/ j.fresh)

\* All has been written back; removing the file may fail.
Finish(p) ==
    /\ pc[p] = "revert"
    /\ job[p].todo = {}
    /\ \/ /\ MayDiscard(job[p])
          /\ baseline' = NoBaseline
          /\ orig' = [c \in Control |->
                         IF c \in DOMAIN job[p].base THEN ctl[c] ELSE orig[c]]
          /\ Reply(p, IF job[p].req.op = "restore" THEN "restored" ELSE "error")
       \/ /\ ~MayDiscard(job[p]) \/ "writes" \in Disturbances
          /\ Reply(p, "error")
          /\ UNCHANGED <<baseline, orig>>
    /\ UNCHANGED <<present, ctl, exposed, late>>

-----------------------------------------------------------------------------
(* What happens to the helpers and around them.                            *)

\* A helper is killed (its unit's start timeout, out of memory).  The kernel
\* releases its lock; a policy it was writing may be left torn.
Crash(p) ==
    /\ pc[p] \notin Ended
    /\ Goto(p, "idle")
    /\ job' = [job EXCEPT ![p] = NoJob]
    /\ lock' = IF lock = p THEN Free ELSE lock
    /\ \/ UNCHANGED <<ctl, late>>
       \/ /\ pc[p] \in {"write", "revert"}
          /\ \E c \in job[p].todo \cap Policies \cap present :
                IsNext(c, job[p].todo) /\ Write(c, Torn)
    /\ UNCHANGED <<present, baseline, orig, exposed>>

\* Another program changes a setting while no tuning is in effect or under way.
EnvironmentChange ==
    /\ baseline = NoBaseline
    /\ lock = Free
    /\ \E c \in present, v \in Value :
          /\ ctl' = [ctl EXCEPT ![c] = v]
          /\ orig' = [orig EXCEPT ![c] = v]
          /\ late' = late \ {c}
    /\ UNCHANGED <<present, baseline, lock, pc, job, exposed>>

\* CPUs go offline and come back, the NVIDIA driver is unloaded and loaded.
\* The kernel keeps a policy's settings while it is offline.
Hotplug ==
    /\ "hotplug" \in Disturbances
    /\ \E c \in Control :
          present' = IF c \in present THEN present \ {c} ELSE present \cup {c}
    /\ UNCHANGED <<ctl, baseline, lock, pc, job, history>>

\* A reboot ends every helper and resets every setting; the file stays.
Reboot ==
    /\ "reboot" \in Disturbances
    /\ ctl' = BootSetting
    /\ orig' = BootSetting
    /\ late' = {}
    /\ lock' = Free
    /\ pc' = [p \in Helpers |-> "idle"]
    /\ job' = [p \in Helpers |-> NoJob]
    /\ UNCHANGED <<present, baseline, exposed>>

-----------------------------------------------------------------------------

Serve(p) ==
    \/ Check(p)
    \/ Save(p)
    \/ StartCpu(p)
    \/ WriteCpu(p)
    \/ WriteGpu(p)
    \/ StartRestore(p)
    \/ Undo(p)
    \/ Revert(p)
    \/ Finish(p)

Next ==
    \/ \E p \in Helpers :
          \/ Request(p)
          \/ Acquire(p)
          \/ LockUnavailable(p)
          \/ Serve(p)
          \/ Crash(p)
    \/ EnvironmentChange
    \/ Hotplug
    \/ Reboot

Spec == Init /\ [][Next]_vars

\* A helper that has the lock makes progress, and one that waits gets it if it
\* becomes free again and again: the kernel wakes the processes that wait.
FairSpec ==
    /\ Spec
    /\ \A p \in Helpers : WF_vars(Serve(p)) /\ SF_vars(Acquire(p))

-----------------------------------------------------------------------------
(* Properties.                                                             *)

\* A setting that tuning has changed can be put back: a baseline exists, names
\* the control and holds what it was before any tuning, at every moment of
\* an apply, a rollback, a restore or a crash.  Only controls that appeared
\* after the baseline was saved are excepted.
Recoverable ==
    \A c \in Control \ late :
        ctl[c] # orig[c] =>
            /\ baseline # NoBaseline
            /\ c \in DOMAIN baseline
            /\ baseline[c] = orig[c]

\* A saved baseline is never replaced by a later one.
BaselineNeverReplaced ==
    [][baseline # NoBaseline => baseline' \in {baseline, NoBaseline}]_vars

\* A baseline is given up only when each control it names has been written back.
BaselineGivenUpRestored ==
    [][baseline # NoBaseline /\ baseline' = NoBaseline =>
         \A c \in DOMAIN baseline : ctl[c] = Reapplied[c][baseline[c]]]_vars

\* An apply that answers "ok" leaves the machine as it was asked to: no other
\* request has interfered between its first write and its answer.
AppliedAsAsked(p) ==
    pc[p] = "gpu" /\ pc'[p] = "ok" =>
        LET r == job[p].req
        IN  /\ r.cpu # Absent => \A c \in Policies : ctl'[c] = r.cpu
            /\ r.boost # Absent => \A c \in Boost : ctl'[c] = r.boost
            /\ r.gpu # Absent => ctl'[r.gpu] = r.limit

AppliedIsInEffect == [][\A p \in Helpers : AppliedAsAsked(p)]_vars

\* Without its processes, lock and failures the helper is TuningBaseline.
Promise == INSTANCE TuningBaseline
               WITH Value <- Setting, original <- orig, setting <- ctl, saved <- baseline

ImplementsPromise == Promise!Spec

\* A request that is waiting for the lock is answered, or its helper is killed.
RequestAnswered == \A p \in Helpers : (pc[p] = "waiting") ~> (pc[p] \in Ended)
=============================================================================
