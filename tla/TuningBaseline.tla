-------------------------- MODULE TuningBaseline ---------------------------
(***************************************************************************)
(* What the tuning helper promises, without its processes, its lock and    *)
(* its failures: a setting is tuned only while a baseline names it, the    *)
(* baseline is the settings as they were before any tuning, it is never    *)
(* replaced, and it is given up only when every setting it names is back.  *)
(***************************************************************************)

CONSTANTS
    Control,    \* the tunable settings
    Value,      \* what a setting may be
    NoBaseline, \* no baseline is saved
    Reapplied   \* Reapplied[c][v]: what writing a saved v back makes of c

VARIABLES
    original,   \* the settings as they would be without any tuning
    setting,    \* the settings as they are
    saved       \* the baseline, a function on the controls it names

Init ==
    /\ original \in [Control -> Value]
    /\ setting = original
    /\ saved = NoBaseline

\* Some other program changes the settings while no tuning is in effect.
Change ==
    /\ saved = NoBaseline
    /\ original' \in [Control -> Value]
    /\ setting' = original'
    /\ UNCHANGED saved

Capture ==
    /\ saved = NoBaseline
    /\ \E named \in SUBSET Control : saved' = [c \in named |-> original[c]]
    /\ UNCHANGED <<original, setting>>

Tune ==
    /\ saved # NoBaseline
    /\ \E c \in DOMAIN saved, v \in Value : setting' = [setting EXCEPT ![c] = v]
    /\ UNCHANGED <<original, saved>>

Discard ==
    /\ saved # NoBaseline
    /\ \A c \in DOMAIN saved : setting[c] = Reapplied[c][saved[c]]
    /\ saved' = NoBaseline
    /\ original' = setting
    /\ UNCHANGED setting

Next == Change \/ Capture \/ Tune \/ Discard

vars == <<original, setting, saved>>

Spec == Init /\ [][Next]_vars
=============================================================================
