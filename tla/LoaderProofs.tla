--------------------------- MODULE LoaderProofs ---------------------------
(***************************************************************************)
(* Theorems about Loader, for every set of versions, whichever of them run *)
(* and however many worktrees are kept.                                    *)
(***************************************************************************)
EXTENDS Loader, TLAPS

\* While a target is pursued it is a version, and `local` is what current_sha
\* answered for the symlink, which has not moved yet.
Pursuit ==
    /\ pc \in {"refresh", "stage", "probe", "swap", "prune"} =>
          wanted \in Version
    /\ pc \in {"refresh", "stage", "probe", "swap"} => local \in CurrentSha

\* From the probe on the target has a directory, and so has the symlink.
Present ==
    /\ CurrentStays
    /\ pc \in {"probe", "swap"} => trees[wanted] # "absent"
    /\ pc = "prune" => current = wanted

\* The sha handed to the app is that of the version the symlink names.
Handed == pc \in {"exec", "running"} => activeSha \in CurrentSha

IInv == TypeOK /\ Pursuit /\ Present /\ Handed

\* setup-pi.sh leaves the sign in a state of the invariant.
LEMMA InitInvariant == Init => IInv
BY VersionAssumption
   DEF Init, IInv, TypeOK, Pursuit, Present, CurrentStays, Handed, NoStatus,
       LoaderPc

\* Neither the server nor the supervisor breaks the invariant.
LEMMA SupervisorStep ==
    ASSUME IInv,
           (\E v \in Version : SetTarget(v)) \/ PowerFails \/ ServiceStarts
    PROVE  IInv'
<1> USE DEF IInv, TypeOK, Pursuit, Present, CurrentStays, Handed, LoaderPc,
            CurrentSha
<1>1. ASSUME NEW v \in Version, SetTarget(v)
      PROVE  IInv'
    BY <1>1 DEF SetTarget
<1>2. CASE PowerFails
    BY <1>2 DEF PowerFails, Removable, Directories
<1>3. CASE ServiceStarts
    BY <1>3 DEF ServiceStarts
<1> QED
    BY <1>1, <1>2, <1>3

\* Each step of the loader keeps the invariant.
LEMMA LoaderStepKeeps ==
    ASSUME IInv, LoaderStep
    PROVE  IInv'
<1> USE DEF IInv, TypeOK, Pursuit, Present, CurrentStays, Handed, LoaderPc,
            CurrentSha
<1>1. CASE BootKeeps
    BY <1>1 DEF BootKeeps
<1>2. CASE BootUpgrades
    BY <1>2 DEF BootUpgrades
<1>3. CASE Refresh
    BY <1>3 DEF Refresh, ExecLocal
<1>4. CASE StageReuses
    BY <1>4 DEF StageReuses
<1>5. CASE StageAdds
    BY <1>5 DEF StageAdds
<1>6. CASE StageFails
    BY <1>6 DEF StageFails, ExecLocal
<1>7. CASE ProbePasses
    BY <1>7 DEF ProbePasses
<1>8. CASE ProbeFails
    BY <1>8 DEF ProbeFails, ExecLocal
<1>9. CASE Swap
    BY <1>9 DEF Swap
\* Nothing removable is in force.
<1>10. CASE Prune
    <2>1. PICK kept \in SUBSET Directories :
             \E gone \in SUBSET Removable(kept), cut \in SUBSET Removable(kept) :
                trees' = [v \in Version |-> IF v \in cut THEN "partial"
                                           ELSE IF v \in gone THEN "absent"
                                           ELSE trees[v]]
        BY <1>10 DEF Prune
    <2>2. /\ trees' \in [Version -> {"absent", "partial", "whole"}]
          /\ trees'[current] = trees[current]
        BY <2>1 DEF Removable
    <2> QED
        BY <1>10, <2>2 DEF Prune
<1>11. CASE Exec
    BY <1>11 DEF Exec
<1> QED
    BY <1>1, <1>2, <1>3, <1>4, <1>5, <1>6, <1>7, <1>8, <1>9, <1>10, <1>11
       DEF LoaderStep

\* Neither the app nor the child of a probe breaks the invariant.
LEMMA ProcessStep ==
    ASSUME IInv, ChildReports \/ ChildDies \/ AppReports \/ AppExecsLoader
    PROVE  IInv'
<1> USE DEF IInv, TypeOK, Pursuit, Present, CurrentStays, Handed, LoaderPc,
            CurrentSha
<1>1. CASE ChildReports
    BY <1>1 DEF ChildReports
<1>2. CASE ChildDies
    BY <1>2 DEF ChildDies
<1>3. CASE AppReports
    BY <1>3 DEF AppReports
<1>4. CASE AppExecsLoader
    BY <1>4 DEF AppExecsLoader
<1> QED
    BY <1>1, <1>2, <1>3, <1>4

\* The invariant of the upgrade is inductive.
THEOREM Inductive == Spec => []IInv
<1>1. IInv /\ [Next]_vars => IInv'
    <2> SUFFICES ASSUME IInv, [Next]_vars
                 PROVE  IInv'
        OBVIOUS
    <2>1. CASE Next
        BY <2>1, SupervisorStep, LoaderStepKeeps, ProcessStep DEF Next
    <2>2. CASE UNCHANGED vars
        BY <2>2 DEF vars, IInv, TypeOK, Pursuit, Present, CurrentStays,
                    Handed, CurrentSha
    <2> QED
        BY <2>1, <2>2
<1> QED
    BY InitInvariant, <1>1, PTL DEF Spec

\* The symlink never names a removed directory, however upgrades, rollbacks,
\* prunes and power failures follow each other (loader.py:345-443).
THEOREM CurrentIsNeverPruned == Spec => []CurrentStays
<1>1. IInv => CurrentStays
    BY DEF IInv, Present
<1> QED
    BY Inductive, <1>1, PTL

\* The app is told the sha it runs or none, on every path of an upgrade
\* (loader.py:772-865).
THEOREM AppKnowsItsSha == Spec => []ActiveShaHonest
<1>1. IInv => ActiveShaHonest
    BY DEF IInv, Handed, ActiveShaHonest
<1> QED
    BY Inductive, <1>1, PTL

\* Init is an initial state of Releases: setup-pi.sh leaves one directory.
LEMMA InitReleases == Init => Upgrade!Init
BY VersionAssumption DEF Init, Upgrade!Init, Directories

\* What a prune leaves of the trees.
LEMMA PruneTrees ==
    ASSUME Prune
    PROVE  \E kept \in SUBSET Directories :
             \E gone \in SUBSET Removable(kept), cut \in SUBSET Removable(kept) :
                trees' = [v \in Version |-> IF v \in cut THEN "partial"
                                           ELSE IF v \in gone THEN "absent"
                                           ELSE trees[v]]
BY ZenonT(60) DEF Prune

\* Each step of the upgrade is a step of Releases or changes nothing it sees.
LEMMA StepReleases ==
    ASSUME IInv, Next
    PROVE  [Upgrade!Next]_Upgrade!vars
<1> DEFINE app == IF pc = "running" THEN current ELSE NoVersion
<1> USE DEF IInv, TypeOK, Present, Upgrade!vars
\* A step that leaves the symlink and the trees alone.
<1>1. ASSUME UNCHANGED <<current, trees>>
      PROVE  [Upgrade!Next]_Upgrade!vars
    <2>1. UNCHANGED Directories
        BY <1>1 DEF Directories
    <2>2. CASE pc # "running" /\ pc' = "running"
        BY <1>1, <2>1, <2>2 DEF Upgrade!Next, Upgrade!Start
    <2>3. CASE pc = "running" /\ pc' # "running"
        BY <1>1, <2>1, <2>3 DEF Upgrade!Next, Upgrade!Stop
    <2>4. CASE (pc = "running") = (pc' = "running")
        BY <1>1, <2>1, <2>4
    <2> QED
        BY <2>2, <2>3, <2>4
\* A directory appears, whole or in part, while the app does not run.
<1>2. ASSUME UNCHANGED current, pc # "running", pc' # "running",
             trees[wanted] = "absent", wanted \in Version,
             NEW s \in {"partial", "whole"},
             trees' = [trees EXCEPT ![wanted] = s]
      PROVE  [Upgrade!Next]_Upgrade!vars
    <2>1. Directories' = Directories \union {wanted} /\ wanted \notin Directories
        BY <1>2 DEF Directories
    <2> QED
        BY <1>2, <2>1 DEF Upgrade!Next, Upgrade!Install
\* Directories go or break, that of the version in force excepted.
<1>3. ASSUME UNCHANGED current, pc # "running", pc' # "running",
             Directories' \subseteq Directories, current \in Directories'
      PROVE  [Upgrade!Next]_Upgrade!vars
    <2> DEFINE gone == Directories \ Directories'
    <2>1. gone \in SUBSET Directories /\ Directories' = Directories \ gone
        BY <1>3
    <2>2. NoVersion \notin gone
        BY VersionAssumption DEF Directories
    <2>3. Upgrade!Discard(gone)
        BY <1>3, <2>1, <2>2 DEF Upgrade!Discard
    <2> QED
        BY <2>1, <2>3 DEF Upgrade!Next
<1>4. ASSUME NEW v \in Version, SetTarget(v)
      PROVE  [Upgrade!Next]_Upgrade!vars
    BY <1>4, <1>1 DEF SetTarget
<1>5. CASE PowerFails
    <2>1. CASE trees' = trees
        BY <1>5, <2>1, <1>1 DEF PowerFails
    <2>2. CASE /\ pc = "stage" /\ trees[wanted] = "absent"
               /\ trees' = [trees EXCEPT ![wanted] = "partial"]
        <3>1. wanted \in Version
            BY <2>2 DEF Pursuit
        <3> QED
            BY <1>5, <2>2, <3>1, <1>2 DEF PowerFails
    <2>3. CASE /\ pc = "prune"
               /\ \E v \in Removable({}) : trees' = [trees EXCEPT ![v] = "partial"]
        <3>1. Directories' = Directories
            BY <2>3 DEF Directories, Removable
        <3>2. current \in Directories
            BY DEF Directories, CurrentStays
        <3> QED
            BY <1>5, <2>3, <3>1, <3>2, <1>3 DEF PowerFails
    <2> QED
        BY <1>5, <2>1, <2>2, <2>3 DEF PowerFails
<1>6. CASE ServiceStarts
    BY <1>6, <1>1 DEF ServiceStarts
<1>7. CASE BootKeeps \/ BootUpgrades \/ Refresh \/ StageReuses
    BY <1>7, <1>1 DEF BootKeeps, BootUpgrades, Refresh, StageReuses
<1>8. CASE StageAdds \/ StageFails
    <2>1. wanted \in Version
        BY <1>8 DEF StageAdds, StageFails, Pursuit
    <2>2. CASE trees' = trees
        BY <1>8, <2>2, <1>1 DEF StageAdds, StageFails
    <2>3. CASE trees' # trees
        BY <1>8, <2>1, <2>3, <1>2 DEF StageAdds, StageFails, ExecLocal
    <2> QED
        BY <2>2, <2>3
<1>9. CASE ProbePasses \/ ProbeFails
    BY <1>9, <1>1 DEF ProbePasses, ProbeFails, ExecLocal
\* The probed version has a directory, so the swap is a Switch.
<1>10. CASE Swap
    <2>1. UNCHANGED Directories /\ wanted \in Directories /\ wanted \in Version
        BY <1>10 DEF Swap, Directories, Pursuit
    <2>2. CASE current' = wanted
        BY <1>10, <2>1, <2>2 DEF Swap, Upgrade!Next, Upgrade!Switch
    <2>3. CASE current' = current
        BY <1>10, <2>3, <1>1 DEF Swap
    <2> QED
        BY <1>10, <2>2, <2>3 DEF Swap
<1>11. CASE Prune
    <2>1. PICK kept \in SUBSET Directories :
             \E gone \in SUBSET Removable(kept), cut \in SUBSET Removable(kept) :
                trees' = [v \in Version |-> IF v \in cut THEN "partial"
                                           ELSE IF v \in gone THEN "absent"
                                           ELSE trees[v]]
        BY <1>11, PruneTrees
    <2>2. Directories' \subseteq Directories
        BY <2>1 DEF Removable, Directories
    <2>3. current \in Directories'
        BY <1>11, <2>1 DEF Prune, Removable, Directories, CurrentStays
    <2> QED
        BY <1>11, <2>2, <2>3, <1>3 DEF Prune
<1>12. CASE Exec \/ AppReports \/ AppExecsLoader \/ ChildReports \/ ChildDies
    BY <1>12, <1>1 DEF Exec, AppReports, AppExecsLoader, ChildReports, ChildDies
<1> QED
    BY <1>4, <1>5, <1>6, <1>7, <1>8, <1>9, <1>10, <1>11, <1>12
       DEF Next, LoaderStep

\* The upgrade implements Releases: the version in force always has a
\* directory, and changes only to one that has, never under a running app
\* (loader.py:772-865).
THEOREM UpgradeIsSafe == Spec => ImplementsReleases
<1>1. IInv /\ [Next]_vars => [Upgrade!Next]_Upgrade!vars
    <2>1. ASSUME IInv, UNCHANGED vars
          PROVE  UNCHANGED Upgrade!vars
        BY <2>1 DEF vars, Upgrade!vars, Directories
    <2> QED
        BY <2>1, StepReleases
<1> QED
    BY InitReleases, Inductive, <1>1, PTL
       DEF Spec, ImplementsReleases, Upgrade!Spec

\* The variables of the upgrade keep their types (loader.py:772-865).
THEOREM LoaderTypeCorrect == Spec => []TypeOK
<1>1. IInv => TypeOK
    BY DEF IInv
<1> QED
    BY Inductive, <1>1, PTL

===========================================================================
