------------------------------ MODULE Loader ------------------------------
(***************************************************************************)
(* The upgrade of the controller: loader.py on the Pi stages a new version *)
(* beside the one in force, probes it through the status file, swaps the   *)
(* `current` symlink and execs main.py in its own process.  Power may fail *)
(* between any two steps; the trees, the symlink and the status file are   *)
(* what survives.                                                          *)
(***************************************************************************)
EXTENDS Naturals, FiniteSets

CONSTANTS
    Version,    \* commit shas
    NoVersion,  \* None, and the empty sha
    Runs,       \* pairs <<c, l>>: main.py of c runs with the lib_shared of l
    Keep        \* DEFAULT_KEEP_WORKTREES

ASSUME VersionAssumption ==
    /\ NoVersion \notin Version
    /\ Runs \subseteq Version \X Version
ASSUME KeepAssumption == Keep \in Nat \ {0}

VARIABLES
    target,     \* server: the version the operator wants on the sign
    current,    \* the version the symlink names
    trees,      \* the state of the directory v-<sha> of each version
    status,     \* .status.json: who wrote it and whether it says healthy
    pc,         \* where the one process of the service stands
    local,      \* run_upgrade_flow: the version in force when it began
    wanted,     \* run_upgrade_flow: the fetched target
    child,      \* the process of the staged version during a probe
    activeSha   \* LINDSAY50_ACTIVE_SHA of the process the loader execs

vars == <<target, current, trees, status, pc, local, wanted, child, activeSha>>

LoaderPc == {"boot", "refresh", "stage", "probe", "swap", "prune", "exec"}

NoStatus == [by |-> NoVersion, healthy |-> FALSE]
Directories == {v \in Version : trees[v] # "absent"}

----------------------------------------------------------------------------
\* The server and the supervisor.

SetTarget(v) ==
    /\ v # target
    /\ target' = v
    /\ UNCHANGED <<current, trees, status, pc, local, wanted, child,
                   activeSha>>

\* A mutant of Removable: the version in force is not kept as such.
RemovableByAge(kept) == Directories \ kept

\* What prune_worktrees may remove once it chose the newest directories.
Removable(kept) == Directories \ (kept \union {current})

\* The process ends wherever it stands; a checkout or a removal under way is
\* left as it is.
PowerFails ==
    /\ pc # "down"
    /\ pc' = "down"
    /\ child' = "none"
    /\ \/ trees' = trees
       \/ /\ pc = "stage" /\ trees[wanted] = "absent"
          /\ trees' = [trees EXCEPT ![wanted] = "partial"]
       \/ /\ pc = "prune"
          /\ \E v \in Removable({}) : trees' = [trees EXCEPT ![v] = "partial"]
    /\ UNCHANGED <<target, current, status, local, wanted, activeSha>>

\* The service starts again: the startup script runs the loader of `current`.
ServiceStarts ==
    /\ pc = "down"
    /\ trees[current] = "whole"
    /\ pc' = "boot"
    /\ UNCHANGED <<target, current, trees, status, local, wanted, child,
                   activeSha>>

----------------------------------------------------------------------------
\* run_upgrade_flow.

\* Every way out that gives up on the target runs the version in force.
ExecLocal ==
    /\ pc' = "exec"
    /\ activeSha' = local

\* current_sha: git may fail to answer.
CurrentSha == {current, NoVersion}

\* The target is in force already, or unknown: no settings, no answer.
BootKeeps ==
    /\ pc = "boot"
    /\ local' \in CurrentSha
    /\ wanted' = NoVersion
    /\ pc' = "exec"
    /\ activeSha' = local'
    /\ UNCHANGED <<target, current, trees, status, child>>

BootUpgrades ==
    /\ pc = "boot"
    /\ local' \in CurrentSha
    /\ target # local'
    /\ wanted' = target
    /\ pc' = "refresh"
    /\ UNCHANGED <<target, current, trees, status, child, activeSha>>

Refresh ==
    /\ pc = "refresh"
    /\ \/ pc' = "stage" /\ UNCHANGED activeSha
       \/ ExecLocal
    /\ UNCHANGED <<target, current, trees, status, local, wanted, child>>

\* A directory of that name is taken for a staged version, whole or not.
StageReuses ==
    /\ pc = "stage"
    /\ trees[wanted] # "absent"
    /\ child' = "alive"
    /\ pc' = "probe"
    /\ UNCHANGED <<target, current, trees, status, local, wanted, activeSha>>

StageAdds ==
    /\ pc = "stage"
    /\ trees[wanted] = "absent"
    /\ trees' = [trees EXCEPT ![wanted] = "whole"]
    /\ child' = "alive"
    /\ pc' = "probe"
    /\ UNCHANGED <<target, current, status, local, wanted, activeSha>>

\* A mutant of StageFails: its failure does not end the upgrade.
StageFailsOn ==
    /\ pc = "stage"
    /\ trees[wanted] = "absent"
    /\ trees' \in {trees, [trees EXCEPT ![wanted] = "partial"]}
    /\ child' = "alive"
    /\ pc' = "probe"
    /\ UNCHANGED <<target, current, status, local, wanted, activeSha>>

\* The reset of the tree in force failed, or `git worktree add` did; one that
\* ran into its timeout leaves part of a tree.
StageFails ==
    /\ pc = "stage"
    /\ trees[wanted] = "absent"
    /\ trees' \in {trees, [trees EXCEPT ![wanted] = "partial"]}
    /\ ExecLocal
    /\ UNCHANGED <<target, current, status, local, wanted, child>>

\* The staged main.py runs with PYTHONPATH = current, and writes the status
\* file of the service.
ChildReports ==
    /\ pc = "probe"
    /\ child = "alive"
    /\ trees[wanted] = "whole"
    /\ <<wanted, current>> \in Runs
    /\ status' \in [by : {wanted}, healthy : BOOLEAN]
    /\ UNCHANGED <<target, current, trees, pc, local, wanted, child,
                   activeSha>>

ChildDies ==
    /\ pc = "probe"
    /\ child = "alive"
    /\ child' = "dead"
    /\ UNCHANGED <<target, current, trees, status, pc, local, wanted,
                   activeSha>>

\* The status file says healthy, whether the child lives or not.
ProbePasses ==
    /\ pc = "probe"
    /\ status.healthy
    /\ child' = "none"
    /\ pc' = "swap"
    /\ UNCHANGED <<target, current, trees, status, local, wanted, activeSha>>

\* A mutant of ProbeFails: the probe waits for its child without a timeout.
ProbeWaits ==
    /\ pc = "probe"
    /\ ~status.healthy
    /\ child = "dead"
    /\ child' = "none"
    /\ ExecLocal
    /\ UNCHANGED <<target, current, trees, status, local, wanted>>

\* A mutant of ProbeFails: the old version is told the sha of the new one.
ProbeFailsAsWanted ==
    /\ pc = "probe"
    /\ ~status.healthy
    /\ child' = "none"
    /\ pc' = "exec"
    /\ activeSha' = wanted
    /\ UNCHANGED <<target, current, trees, status, local, wanted>>

\* The child died without a healthy status, or the time is up.
ProbeFails ==
    /\ pc = "probe"
    /\ ~status.healthy
    /\ child' = "none"
    /\ ExecLocal
    /\ UNCHANGED <<target, current, trees, status, local, wanted>>

\* A mutant of Swap: a failed swap puts the symlink back by hand.
SwapRestores ==
    /\ pc = "swap"
    /\ \/ current' = wanted /\ pc' = "prune"
       \/ current' = local /\ pc' = "down"
    /\ UNCHANGED <<target, trees, status, local, wanted, child, activeSha>>

\* atomic_swap; its failure is caught nowhere and ends the process.
Swap ==
    /\ pc = "swap"
    /\ \/ current' = wanted /\ pc' = "prune"
       \/ current' = current /\ pc' = "down"
    /\ UNCHANGED <<target, trees, status, local, wanted, child, activeSha>>

\* Which directories are the newest is open, each removal may fail, and one
\* that runs into its timeout is the last and leaves part of a tree.
Prune ==
    /\ pc = "prune"
    /\ \E kept \in SUBSET Directories :
         /\ \/ Cardinality(kept) = Keep - 1
            \/ Cardinality(kept) < Keep - 1 /\ kept = Directories
         /\ \E gone \in SUBSET Removable(kept), cut \in SUBSET Removable(kept) :
              /\ Cardinality(cut) <= 1
              /\ trees' = [v \in Version |-> IF v \in cut THEN "partial"
                                            ELSE IF v \in gone THEN "absent"
                                            ELSE trees[v]]
    /\ pc' = "exec"
    /\ activeSha' = wanted
    /\ UNCHANGED <<target, current, status, local, wanted, child>>

\* os.execvpe of main.py through the symlink.
Exec ==
    /\ pc = "exec"
    /\ pc' = IF trees[current] = "whole" /\ <<current, current>> \in Runs
             THEN "running" ELSE "down"
    /\ UNCHANGED <<target, current, trees, status, local, wanted, child,
                   activeSha>>

----------------------------------------------------------------------------
\* The running app.

AppReports ==
    /\ pc = "running"
    /\ status' \in [by : {current}, healthy : BOOLEAN]
    /\ UNCHANGED <<target, current, trees, pc, local, wanted, child,
                   activeSha>>

\* check-for-update named another sha than activeSha, or force-upgrade, which
\* compares nothing.
AppExecsLoader ==
    /\ pc = "running"
    /\ pc' = "boot"
    /\ UNCHANGED <<target, current, trees, status, local, wanted, child,
                   activeSha>>

----------------------------------------------------------------------------
\* setup-pi.sh left one whole version in place.
Init ==
    /\ target \in Version
    /\ current \in {v \in Version : <<v, v>> \in Runs}
    /\ trees = [v \in Version |-> IF v = current THEN "whole" ELSE "absent"]
    /\ status = NoStatus
    /\ pc = "down"
    /\ local = NoVersion
    /\ wanted = NoVersion
    /\ child = "none"
    /\ activeSha = NoVersion

\* The steps of the loader itself.
LoaderStep ==
    \/ BootKeeps
    \/ BootUpgrades
    \/ Refresh
    \/ StageReuses
    \/ StageAdds
    \/ StageFails
    \/ ProbePasses
    \/ ProbeFails
    \/ Swap
    \/ Prune
    \/ Exec

Next ==
    \/ \E v \in Version : SetTarget(v)
    \/ PowerFails
    \/ ServiceStarts
    \/ LoaderStep
    \/ ChildReports
    \/ ChildDies
    \/ AppReports
    \/ AppExecsLoader

Spec == Init /\ [][Next]_vars

\* Each call of the loader has a timeout, so the loader makes steps; nothing
\* is assumed of the child, the app, the operator and the power.
FairSpec == Spec /\ WF_vars(LoaderStep)

----------------------------------------------------------------------------
TypeOK ==
    /\ target \in Version
    /\ current \in Version
    /\ trees \in [Version -> {"absent", "partial", "whole"}]
    /\ status \in [by : Version \union {NoVersion}, healthy : BOOLEAN]
    /\ pc \in LoaderPc \union {"running", "down"}
    /\ local \in Version \union {NoVersion}
    /\ wanted \in Version \union {NoVersion}
    /\ child \in {"none", "alive", "dead"}
    /\ activeSha \in Version \union {NoVersion}

\* The symlink never dangles: no prune, crash or rollback to an older version
\* removes the directory in force (loader.py:345-443).
CurrentStays == trees[current] # "absent"

\* The running app is told the sha it runs, or none, whichever way the upgrade
\* went; check_for_update compares it with the server's
\* (check_for_update.py:143-164).
ActiveShaHonest == pc = "running" => activeSha \in CurrentSha

\* The sign is never left without an app by a loader that waits: each start
\* ends in an exec or in the end of the process, whatever the child does.
LoaderEnds == pc \in LoaderPc ~> pc \in {"running", "down"}

\* The upgrade as Releases sees it.
Upgrade == INSTANCE Releases WITH
    inForce <- current,
    onDisk <- Directories,
    app <- IF pc = "running" THEN current ELSE NoVersion

\* Whatever fails in a stage, a probe or a prune (loader.py:772-865), the
\* symlink moves only to a version that has a directory, and only while no app
\* runs from it.
ImplementsReleases == Upgrade!Spec

\* A child that exits before the timeout without a healthy report of its own
\* fails the probe (loader.py:593-595).
DeadChildFailsProbe ==
    [][pc = "probe" /\ pc' = "swap" /\ child = "dead" => status.by = wanted]_vars

===========================================================================
