----------------------------- MODULE Releases -----------------------------
(***************************************************************************)
(* What the upgrade of the controller promises, whatever its steps: the    *)
(* version in force has a directory at all times, it changes only to one   *)
(* that has, and never under a running app.                                *)
(***************************************************************************)
CONSTANTS
    Version,    \* commit shas
    NoVersion   \* no app runs

VARIABLES
    inForce,    \* the version the next start runs
    onDisk,     \* the versions with a directory
    app         \* the version the running app was started from, or NoVersion

vars == <<inForce, onDisk, app>>

Init ==
    /\ inForce \in Version
    /\ onDisk = {inForce}
    /\ app = NoVersion

Install(v) ==
    /\ v \notin onDisk
    /\ onDisk' = onDisk \union {v}
    /\ UNCHANGED <<inForce, app>>

Discard(gone) ==
    /\ inForce \notin gone
    /\ app \notin gone
    /\ onDisk' = onDisk \ gone
    /\ UNCHANGED <<inForce, app>>

Switch(v) ==
    /\ app = NoVersion
    /\ v \in onDisk
    /\ inForce' = v
    /\ UNCHANGED <<onDisk, app>>

Start ==
    /\ app = NoVersion
    /\ app' = inForce
    /\ UNCHANGED <<inForce, onDisk>>

Stop ==
    /\ app' = NoVersion
    /\ UNCHANGED <<inForce, onDisk>>

Next ==
    \/ \E v \in Version : Install(v) \/ Switch(v)
    \/ \E gone \in SUBSET onDisk : Discard(gone)
    \/ Start
    \/ Stop

Spec == Init /\ [][Next]_vars

===========================================================================
