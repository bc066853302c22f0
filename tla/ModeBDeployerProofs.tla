------------------------- MODULE ModeBDeployerProofs -------------------------
(***************************************************************************)
(* Proofs about ModeBDeployer, for every set of bundles and every bound:   *)
(* the type invariant, and the safety invariants from the inductive        *)
(* invariants OnDisk, Vetting and Progress.                                *)
(***************************************************************************)
EXTENDS ModeBDeployer, TLAPS

Staging    == {"save_pkl", "save_meta", "save_index", "stage"}
Swapping   == {"backup", "replace"}
Activating == {"copy_version", "write_meta", "pointer", "write_index", "status_meta", "receipt"}
Undoing    == {"undo", "undo_dirty", "undo_pointer", "undo_index"}

\* The locals a step reads have been set by the steps before it, and a swap
\* step has a component left to swap.
LocalsOK ==
  /\ pc \in Staging \cup Swapping \cup Activating => cur.version \in Version /\ cur.bundle \in Bundle
  /\ pc \in Swapping \cup Activating \cup Undoing => cur.deploy \in DeployId
  /\ pc \in Swapping => staged[cur.bundle] # {}
  /\ pc \in Swapping => "lgbm_model" \in staged[cur.bundle] \/ live["lgbm_model"] = cur.bundle
  /\ pc = "copy_version" => live["lgbm_model"] = cur.bundle

TypeInv == TypeOK /\ LocalsOK

-----------------------------------------------------------------------------
(* The swap order gives every component a place of its own. *)
LEMMA RankOf ==
  /\ SwapRank["factor_zoo"] = 1 /\ SwapRank["lgbm_model"] = 2 /\ SwapRank["committee_model"] = 3
  /\ SwapRank["ppo_policy"] = 4 /\ SwapRank["agent_constraints"] = 5
BY DEF SwapRank

\* Every component is one of the five of the swap order.
LEMMA ComponentCases ==
  ASSUME NEW c \in Component
  PROVE  c \in {"factor_zoo", "lgbm_model", "committee_model", "ppo_policy", "agent_constraints"}
BY DEF Component, Mandatory, Optional

(* A non-empty set of components has a first and a last one in swap order. *)
LEMMA FirstOfMember ==
  ASSUME NEW S, S \subseteq Component, S # {}
  PROVE  FirstOf(S) \in S
<1>1. \E c \in S : \A d \in S : SwapRank[c] <= SwapRank[d]
  <2>1. CASE "factor_zoo" \in S
    BY <2>1, RankOf, ComponentCases
  <2>2. CASE "factor_zoo" \notin S /\ "lgbm_model" \in S
    BY <2>2, RankOf, ComponentCases
  <2>3. CASE "factor_zoo" \notin S /\ "lgbm_model" \notin S /\ "committee_model" \in S
    BY <2>3, RankOf, ComponentCases
  <2>4. CASE "factor_zoo" \notin S /\ "lgbm_model" \notin S /\ "committee_model" \notin S
    BY <2>4, RankOf, ComponentCases
  <2> QED
    BY <2>1, <2>2, <2>3, <2>4
<1> QED
  BY <1>1 DEF FirstOf

\* The last component of a non-empty set belongs to it.
LEMMA LastOfMember ==
  ASSUME NEW S, S \subseteq Component, S # {}
  PROVE  LastOf(S) \in S
<1>1. \E c \in S : \A d \in S : SwapRank[c] >= SwapRank[d]
  <2>1. CASE "agent_constraints" \in S
    BY <2>1, RankOf, ComponentCases
  <2>2. CASE "agent_constraints" \notin S /\ "ppo_policy" \in S
    BY <2>2, RankOf, ComponentCases
  <2>3. CASE "agent_constraints" \notin S /\ "ppo_policy" \notin S /\ "committee_model" \in S
    BY <2>3, RankOf, ComponentCases
  <2>4. CASE "agent_constraints" \notin S /\ "ppo_policy" \notin S /\ "committee_model" \notin S
    BY <2>4, RankOf, ComponentCases
  <2> QED
    BY <2>1, <2>2, <2>3, <2>4
<1> QED
  BY <1>1 DEF LastOf

-----------------------------------------------------------------------------
\* The initial tree has its types and no command is running.
LEMMA InitTypeInv == Init => TypeInv
<1> USE ConstantsAssumption
<1> SUFFICES ASSUME Init PROVE TypeInv
  OBVIOUS
<1> QED
  BY DEF Init, TypeInv, TypeOK, LocalsOK, Staging, Swapping, Activating, Undoing, Steps, Outcomes,
     NoOutcome, Outcome, Idling, Command, NoReceipt, Status, File, Owner, NoVersion, Version, DeployId

(* A write cut short leaves the registry within its types and touches      *)
(* nothing else.                                                           *)
LEMMA CutShortTypes ==
  ASSUME TypeInv, CutShort
  PROVE  /\ pkl' \in [Version -> Owner \cup {Absent, Torn}]
         /\ meta' \in [Version -> Owner \cup {Absent, Torn}]
         /\ readable' \in BOOLEAN
         /\ UNCHANGED <<active, status, live, bundles, backups, nextId, records>>
<1> USE DEF TypeInv, TypeOK, LocalsOK, Staging, Swapping, Activating, registry, index
<1>1. CASE UNCHANGED registry
  BY <1>1 DEF CutShort
<1>2. CASE pc \in {"save_pkl", "copy_version"} /\ pkl' = [pkl EXCEPT ![cur.version] = Torn]
            /\ UNCHANGED <<meta, index>>
  BY <1>2 DEF CutShort
<1>3. CASE pc \in {"save_meta", "write_meta", "status_meta"}
            /\ meta' = [meta EXCEPT ![cur.version] = Torn] /\ UNCHANGED <<pkl, index>>
  BY <1>3 DEF CutShort
<1>4. CASE readable' = FALSE /\ UNCHANGED <<pkl, meta, active, status>>
  BY <1>4 DEF CutShort
<1> QED
  BY <1>1, <1>2, <1>3, <1>4 DEF CutShort

(* A staged bundle holds components only.                                  *)
LEMMA StageTypes ==
  ASSUME TypeInv, NEW b \in Bundle, NEW v \in Version, Stage(b, v)
  PROVE  /\ staged' \in [Bundle -> SUBSET Component]
         /\ bversion' \in [Bundle -> Version \cup {NoVersion}]
<1>1. PICK extra \in OptionalSets : staged' = [staged EXCEPT ![b] = Mandatory \cup extra]
  BY DEF Stage
<1>2. Mandatory \cup extra \subseteq Component
  BY ConstantsAssumption DEF Component
<1>3. staged' \in [Bundle -> SUBSET Component]
  BY <1>1, <1>2 DEF TypeInv, TypeOK
<1> QED
  BY <1>3 DEF Stage, TypeInv, TypeOK

(* The latest pointer keeps the live tree within its type.                 *)
LEMMA PointLatestTypes ==
  ASSUME TypeInv, NEW v \in Version, PointLatestAt(v)
  PROVE  live' \in [Component -> File]
<1>1. PICK f \in {v, pkl[v]} : live' = [live EXCEPT !["lgbm_model"] = f]
  BY DEF PointLatestAt
<1>2. f \in File
  BY DEF TypeInv, TypeOK, File
<1> QED
  BY <1>1, <1>2 DEF TypeInv, TypeOK

(* The index keeps its types when a version is activated or none is.       *)
LEMMA IndexTypes ==
  ASSUME TypeInv
  PROVE  /\ \A v \in Version : Activated(v) =>
              readable' \in BOOLEAN /\ active' \in Version /\ status' \in [Version -> Status]
         /\ Deactivated =>
              readable' \in BOOLEAN /\ active' = NoVersion /\ status' \in [Version -> Status]
<1> USE DEF TypeInv, TypeOK
<1>1. ASSUME NEW v \in Version, Activated(v)
     PROVE  status' \in [Version -> Status]
  BY <1>1 DEF Activated, Status
<1>2. ASSUME Deactivated
     PROVE  status' \in [Version -> Status]
  BY <1>2 DEF Deactivated, Status
<1> QED
  BY <1>1, <1>2 DEF Activated, Deactivated

(* Every step keeps every variable in its type and its locals in use.      *)
LEMMA NextTypeInv ==
  ASSUME TypeInv, [Next]_vars
  PROVE  TypeInv'
<1> USE ConstantsAssumption
<1> USE DEF TypeInv, TypeOK, LocalsOK, Staging, Swapping, Activating, Undoing, Steps, Outcomes, Outcome,
            NoOutcome, Idling, Command, Status, File, Owner, NoVersion, files, Begin, Goto, Finish, Idle,
            counters, records, bundles, registry, index, backups
<1>1. ASSUME NEW b \in Bundle, NEW v \in Version, Retrain(b, v)
     PROVE TypeInv'
  BY <1>1, SMTT(30) DEF Retrain
<1>2. ASSUME NEW b \in Bundle, NEW v \in Version, ImportCandidate(b, v)
     PROVE TypeInv'
  BY <1>2, StageTypes, SMTT(30) DEF ImportCandidate
<1>3. CASE SavePkl
  BY <1>3, SMTT(30) DEF SavePkl
<1>4. CASE SaveMeta
  BY <1>4, SMTT(30) DEF SaveMeta
<1>5. CASE SaveIndex
  BY <1>5, SMTT(30) DEF SaveIndex
<1>6. CASE StageCandidate
  BY <1>6, StageTypes, SMTT(30) DEF StageCandidate
<1>7. ASSUME NEW b \in Bundle, NEW r \in Request, DeployBlocked(b, r)
     PROVE TypeInv'
  BY <1>7, SMTT(30) DEF DeployBlocked
<1>8. ASSUME NEW b \in Bundle, NEW r \in Request, StartDeploy(b, r)
     PROVE TypeInv'
  BY <1>8, SMTT(30) DEF StartDeploy, Served, ServedModel, Admitted, CandidateValid, Mandatory, Component, Optional
<1>9. CASE SwapBackup
  <2> DEFINE c == FirstOf(staged[cur.bundle])
  <2>1. c \in staged[cur.bundle] /\ c \in Component
    BY <1>9, FirstOfMember DEF SwapBackup
  <2>2. live' \in [Component -> File]
    BY <1>9, <2>1 DEF SwapBackup
  <2>3. backup' \in [DeployId -> [Component -> File]]
    <3>1. (IF LiveExists(c) THEN live[c] ELSE Empty) \in File
      BY <2>1
    <3> QED
      BY <1>9, <2>1, <3>1 DEF SwapBackup
  <2>4. live'["lgbm_model"] = live["lgbm_model"] \/ "lgbm_model" \in staged[cur.bundle]
    BY <1>9, <2>1 DEF SwapBackup
  <2> QED
    BY <1>9, <2>2, <2>3, <2>4 DEF SwapBackup
<1>10. CASE SwapReplace
  BY <1>10, FirstOfMember, SMTT(30) DEF SwapReplace
<1>11. CASE CopyVersion
  <2>1. live["lgbm_model"] = cur.bundle /\ cur.version \in Version /\ cur.bundle \in Bundle
    BY <1>11 DEF CopyVersion
  <2>2. pkl' \in [Version -> Owner \cup {Absent, Torn}]
    BY <1>11, <2>1 DEF CopyVersion
  <2> QED
    BY <1>11, <2>1, <2>2 DEF CopyVersion
<1>12. CASE WriteMeta
  BY <1>12, SMTT(30) DEF WriteMeta
<1>13. CASE PointLatest
  BY <1>13, PointLatestTypes, SMTT(30) DEF PointLatest
<1>14. CASE WriteIndex
  BY <1>14, IndexTypes, SMTT(30) DEF WriteIndex
<1>15. CASE SaveReceipt
  BY <1>15, SMTT(30) DEF SaveReceipt
<1>16. ASSUME NEW d \in DeployId, Rollback(d)
     PROVE TypeInv'
  BY <1>16, SMTT(30) DEF Rollback
<1>17. CASE UndoComponent
  <2> USE DEF UndoComponent, UndoRestore, UndoUnlink, UndoMarker
  <2>1. Undone \in Component /\ cur.deploy \in DeployId
    BY <1>17, LastOfMember DEF Undone, UndoSteps
  <2>2. UndoneBackup \in File
    BY <2>1 DEF UndoneBackup
  <2>3. live' \in [Component -> File]
    <3>1. PICK f \in File : live' = [live EXCEPT ![Undone] = f] \/ live' = live
      BY <1>17, <2>2
    <3> HIDE DEF File
    <3> QED
      BY <2>1, <3>1
  <2>4. backup' \in [DeployId -> [Component -> File]]
    <3>1. PICK f \in File : backup' = [backup EXCEPT ![cur.deploy][Undone] = f] \/ backup' = backup
      BY <1>17, <2>1, <2>2 DEF UndoneBackup
    <3> DEFINE row == [backup[cur.deploy] EXCEPT ![Undone] = f]
    <3> HIDE DEF File
    <3>2. row \in [Component -> File]
      BY <2>1, <3>1
    <3>3. backup' = [backup EXCEPT ![cur.deploy] = row] \/ backup' = backup
      BY <3>1
    <3>4. CASE backup' = [backup EXCEPT ![cur.deploy] = row]
      <4> HIDE DEF row
      <4> QED
        BY <2>1, <3>2, <3>4
    <3>5. CASE backup' = backup
      BY <3>5
    <3> QED
      BY <3>3, <3>4, <3>5
  <2> QED
    BY <1>17, <2>3, <2>4 DEF UndoSteps
<1>18. CASE UndoComponentFails
  BY <1>18, LastOfMember, SMTT(30) DEF UndoComponentFails, Undone, Fault, UndoSteps
<1>19. CASE UndoneFiles
  BY <1>19, SMTT(30) DEF UndoneFiles
<1>20. CASE RollbackFailed
  BY <1>20, SMTT(30) DEF RollbackFailed
<1>21. CASE UndoPointer
  BY <1>21, PointLatestTypes, SMTT(30) DEF UndoPointer
<1>22. CASE UndoIndex
  BY <1>22, IndexTypes, SMTT(30) DEF UndoIndex
<1>23. CASE DeployRaises
  BY <1>23, CutShortTypes, SMTT(30) DEF DeployRaises, Fault
<1>24. CASE RestoreFails
  BY <1>24, CutShortTypes, SMTT(30) DEF RestoreFails, Fault
<1>25. CASE Raises
  BY <1>25, CutShortTypes, SMTT(30) DEF Raises, Fault
<1>26. CASE Crash
  BY <1>26, CutShortTypes, SMTT(30) DEF Crash, Fault
<1>27. CASE UNCHANGED vars
  BY <1>27, SMTT(30) DEF vars
<1> QED
  BY <1>1, <1>2, <1>3, <1>4, <1>5, <1>6, <1>7, <1>8, <1>9, <1>10, <1>11, <1>12, <1>13, <1>14, <1>15, <1>16, <1>17, <1>18, <1>19, <1>20, <1>21, <1>22, <1>23, <1>24, <1>25, <1>26, <1>27 DEF Next, Candidates, Deploy, Undo

(* Every variable keeps its type.  The invariant that is proved adds what  *)
(* the steps rely on: a step finds the locals the earlier ones set.        *)
THEOREM TypeCorrect == Spec => []TypeOK
<1>1. Spec => []TypeInv
  BY InitTypeInv, NextTypeInv, PTL DEF Spec
<1>2. TypeInv => TypeOK
  BY DEF TypeInv
<1> QED
  BY <1>1, <1>2, PTL
-----------------------------------------------------------------------------
(***************************************************************************)
(* What is on disk.  ActiveVersionOnDisk is not inductive: it needs to     *)
(* know that every indexed version has its files (a rollback activates one *)
(* of those), that the version being saved or activated has got them so    *)
(* far, and that the version a rollback goes back to was indexed.          *)
(***************************************************************************)
IndexedOnDisk ==
  \A v \in Version : status[v] # "none" => pkl[v] # Absent /\ meta[v] # Absent

PreviousIndexed ==
  /\ active # NoVersion => status[active] # "none"
  /\ cur.prev # NoVersion => status[cur.prev] # "none"
  /\ \A d \in DeployId : receipt[d].prev # NoVersion => status[receipt[d].prev] # "none"

WrittenSoFar ==
  /\ pc \in {"save_meta", "save_index"} \cup (Activating \ {"copy_version"}) => pkl[cur.version] # Absent
  /\ pc \in {"save_index"} \cup (Activating \ {"copy_version", "write_meta"}) => meta[cur.version] = cur.bundle

OnDisk == IndexedOnDisk /\ PreviousIndexed /\ WrittenSoFar

\* The initial index names only the baseline, whose files are there.
LEMMA InitOnDisk == Init => OnDisk
<1> USE ConstantsAssumption
<1> SUFFICES ASSUME Init PROVE OnDisk
  OBVIOUS
<1> QED
  BY DEF Init, OnDisk, IndexedOnDisk, PreviousIndexed, WrittenSoFar, Activating, NoVersion, Version,
     Idling, Command, NoReceipt, Owner

\* Every step keeps the files the index and the running command rely on.
LEMMA NextOnDisk ==
  ASSUME TypeInv, OnDisk, [Next]_vars
  PROVE  OnDisk'
<1> USE ConstantsAssumption
<1> USE DEF OnDisk, IndexedOnDisk, PreviousIndexed, WrittenSoFar, TypeInv, TypeOK, LocalsOK, Staging, Swapping,
            Activating, Undoing, Idling, Command, Owner, NoVersion, files, Begin, Goto, Finish, Idle,
            counters, records, bundles, registry, index, backups
<1>1. ASSUME NEW b \in Bundle, NEW v \in Version, Retrain(b, v)
     PROVE OnDisk'
  BY <1>1, SMTT(30) DEF Retrain
<1>2. ASSUME NEW b \in Bundle, NEW v \in Version, ImportCandidate(b, v)
     PROVE OnDisk'
  BY <1>2, SMTT(30) DEF ImportCandidate, Stage
<1>3. CASE SavePkl
  BY <1>3, SMTT(30) DEF SavePkl
<1>4. CASE SaveMeta
  BY <1>4, SMTT(30) DEF SaveMeta
<1>5. CASE SaveIndex
  BY <1>5, SMTT(30) DEF SaveIndex
<1>6. CASE StageCandidate
  BY <1>6, SMTT(30) DEF StageCandidate, Stage
<1>7. ASSUME NEW b \in Bundle, NEW r \in Request, DeployBlocked(b, r)
     PROVE OnDisk'
  BY <1>7, SMTT(30) DEF DeployBlocked
<1>8. ASSUME NEW b \in Bundle, NEW r \in Request, StartDeploy(b, r)
     PROVE OnDisk'
  BY <1>8, SMTT(30) DEF StartDeploy
<1>9. CASE SwapBackup
  BY <1>9, SMTT(30) DEF SwapBackup
<1>10. CASE SwapReplace
  BY <1>10, SMTT(30) DEF SwapReplace
<1>11. CASE CopyVersion
  BY <1>11, SMTT(30) DEF CopyVersion
<1>12. CASE WriteMeta
  BY <1>12, SMTT(30) DEF WriteMeta
<1>13. CASE PointLatest
  BY <1>13, SMTT(30) DEF PointLatest
<1>14. CASE WriteIndex
  BY <1>14, SMTT(30) DEF WriteIndex, Activated
<1>15. CASE SaveReceipt
  BY <1>15, SMTT(30) DEF SaveReceipt
<1>16. ASSUME NEW d \in DeployId, Rollback(d)
     PROVE OnDisk'
  BY <1>16, SMTT(30) DEF Rollback
<1>17. CASE UndoComponent
  BY <1>17, SMTT(30) DEF UndoComponent, UndoRestore, UndoUnlink, UndoMarker, UndoSteps
<1>18. CASE UndoComponentFails
  BY <1>18, SMTT(30) DEF UndoComponentFails, Undone, UndoSteps
<1>19. CASE UndoneFiles
  BY <1>19, SMTT(30) DEF UndoneFiles
<1>20. CASE RollbackFailed
  BY <1>20, SMTT(30) DEF RollbackFailed
<1>21. CASE UndoPointer
  BY <1>21, SMTT(30) DEF UndoPointer
<1>22. CASE UndoIndex
  <2>1. CASE cur.prev = NoVersion
    BY <1>22, <2>1, SMTT(30) DEF UndoIndex, Deactivated
  <2>2. CASE cur.prev # NoVersion
    <3>1. cur.prev \in Version /\ status[cur.prev] # "none" /\ Activated(cur.prev)
      BY <1>22, <2>2 DEF UndoIndex
    <3>2. \A v \in Version : status'[v] # "none" <=> status[v] # "none"
      BY <3>1 DEF Activated
    <3> QED
      BY <1>22, <3>1, <3>2, SMTT(30) DEF UndoIndex, Activated
  <2> QED
    BY <2>1, <2>2
<1>23. CASE DeployRaises
  BY <1>23, SMTT(30) DEF DeployRaises, Fault, CutShort
<1>24. CASE RestoreFails
  BY <1>24, SMTT(30) DEF RestoreFails, Fault, CutShort
<1>25. CASE Raises
  BY <1>25, SMTT(30) DEF Raises, Fault, CutShort
<1>26. CASE Crash
  BY <1>26, SMTT(30) DEF Crash, Fault, CutShort
<1>27. CASE UNCHANGED vars
  BY <1>27, SMTT(30) DEF vars
<1> QED
  BY <1>1, <1>2, <1>3, <1>4, <1>5, <1>6, <1>7, <1>8, <1>9, <1>10, <1>11, <1>12, <1>13, <1>14, <1>15, <1>16, <1>17, <1>18, <1>19, <1>20, <1>21, <1>22, <1>23, <1>24, <1>25, <1>26, <1>27 DEF Next, Candidates, Deploy, Undo

(* The version the index calls active has its files.                       *)
THEOREM ActiveOnDisk == Spec => []ActiveVersionOnDisk
<1>1. Spec => [](TypeInv /\ OnDisk)
  BY InitTypeInv, NextTypeInv, InitOnDisk, NextOnDisk, PTL DEF Spec
<1>2. TypeInv /\ OnDisk => ActiveVersionOnDisk
  BY DEF TypeInv, TypeOK, OnDisk, IndexedOnDisk, PreviousIndexed, ActiveVersionOnDisk, NoVersion
<1> QED
  BY <1>1, <1>2, PTL

-----------------------------------------------------------------------------
(***************************************************************************)
(* What is served is vetted.  Besides the live tree, every place a command *)
(* may put back into service has to hold vetted artifacts: the backups,    *)
(* the version being activated and the versions a rollback goes back to.   *)
(* Those are indexed, and saving a new model never touches an indexed one. *)
(***************************************************************************)
Vetted(x) == x \in Bundle => x \in vetted

TreeVetted ==
  \A c \in Component \ {"lgbm_model"} :
    Vetted(live[c]) /\ \A d \in DeployId : Vetted(backup[d][c])

RegistryVetted ==
  readable => /\ active # NoVersion => Vetted(pkl[active])
              /\ cur.prev # NoVersion => Vetted(pkl[cur.prev])
              /\ \A d \in DeployId : receipt[d].prev # NoVersion => Vetted(pkl[receipt[d].prev])

SavingNew ==
  /\ pc \in {"save_pkl", "save_meta", "save_index"} /\ readable => status[cur.version] = "none"
  /\ pc = "undo_index" => readable

DeployingVetted ==
  /\ pc \in Swapping \cup Activating => cur.bundle \in vetted
  /\ pc \in Swapping \cup {"copy_version"} => pkl[cur.version] \in {Absent, cur.bundle}
  /\ pc \in Activating \ {"copy_version"} => pkl[cur.version] = cur.bundle

Vetting == TreeVetted /\ RegistryVetted /\ SavingNew /\ DeployingVetted

\* Nothing but the installed artifacts is there initially.
LEMMA InitVetting == Init => Vetting
<1> USE ConstantsAssumption
<1> SUFFICES ASSUME Init PROVE Vetting
  OBVIOUS
<1> QED
  BY DEF Init, Vetting, TreeVetted, RegistryVetted, SavingNew, DeployingVetted, Vetted, Swapping, Activating,
     NoVersion, Version, Idling, Command, NoReceipt, Owner, Component

(* A write cut short can only tear a pickle or the index.                  *)
LEMMA CutShortTears ==
  ASSUME TypeInv, CutShort
  PROVE  /\ readable' => readable
         /\ \A v \in Version : pkl'[v] = pkl[v] \/ pkl'[v] = Torn
BY DEF CutShort, TypeInv, TypeOK, registry, index

\* Every step keeps unvetted artifacts out of the live tree and the index.
LEMMA NextVetting ==
  ASSUME TypeInv, OnDisk, Vetting, [Next]_vars
  PROVE  Vetting'
<1> USE ConstantsAssumption
<1> USE DEF Vetting, TreeVetted, RegistryVetted, SavingNew, DeployingVetted, Vetted,
            OnDisk, PreviousIndexed, TypeInv, TypeOK, LocalsOK, Staging, Swapping,
            Activating, Undoing, Idling, Command, Owner, NoVersion, files, Begin, Goto, Finish, Idle,
            counters, records, bundles, registry, index, backups
<1>1. ASSUME NEW b \in Bundle, NEW v \in Version, Retrain(b, v)
     PROVE Vetting'
  <2>1. readable => status[v] = "none"
    BY <1>1 DEF Retrain, IsNextVersion, Registered, Version
  <2> QED
    BY <1>1, <2>1 DEF Retrain
<1>2. ASSUME NEW b \in Bundle, NEW v \in Version, ImportCandidate(b, v)
     PROVE Vetting'
  BY <1>2, SMTT(30) DEF ImportCandidate, Stage
<1>3. CASE SavePkl
  BY <1>3, SMTT(30) DEF SavePkl
<1>4. CASE SaveMeta
  BY <1>4, SMTT(30) DEF SaveMeta
<1>5. CASE SaveIndex
  BY <1>5, SMTT(30) DEF SaveIndex
<1>6. CASE StageCandidate
  BY <1>6, SMTT(30) DEF StageCandidate, Stage
<1>7. ASSUME NEW b \in Bundle, NEW r \in Request, DeployBlocked(b, r)
     PROVE Vetting'
  BY <1>7, SMTT(30) DEF DeployBlocked
<1>8. ASSUME NEW b \in Bundle, NEW r \in Request, StartDeploy(b, r)
     PROVE Vetting'
  BY <1>8, SMTT(30) DEF StartDeploy, Admitted, NoCollision, CandidateValid
<1>9. CASE SwapBackup
  BY <1>9, FirstOfMember, SMTT(30) DEF SwapBackup
<1>10. CASE SwapReplace
  BY <1>10, FirstOfMember, SMTT(30) DEF SwapReplace
<1>11. CASE CopyVersion
  BY <1>11, SMTT(30) DEF CopyVersion
<1>12. CASE WriteMeta
  BY <1>12, SMTT(30) DEF WriteMeta
<1>13. CASE PointLatest
  BY <1>13, SMTT(30) DEF PointLatest, PointLatestAt
<1>14. CASE WriteIndex
  BY <1>14, SMTT(30) DEF WriteIndex, Activated
<1>15. CASE SaveReceipt
  BY <1>15, SMTT(30) DEF SaveReceipt
<1>16. ASSUME NEW d \in DeployId, Rollback(d)
     PROVE Vetting'
  BY <1>16, SMTT(30) DEF Rollback
<1>17. CASE UndoComponent
  <2>1. Undone \in Component /\ cur.deploy \in DeployId /\ UndoneBackup = backup[cur.deploy][Undone]
    BY <1>17, LastOfMember DEF UndoComponent, UndoRestore, UndoUnlink, UndoMarker, Undone, UndoneBackup, UndoSteps
  <2>2. TreeVetted'
    <3>1. CASE UndoRestore
      BY <2>1, <3>1 DEF UndoRestore
    <3>2. CASE UndoUnlink
      BY <2>1, <3>2 DEF UndoUnlink
    <3>3. CASE UndoMarker
      BY <2>1, <3>3 DEF UndoMarker
    <3> QED
      BY <1>17, <3>1, <3>2, <3>3 DEF UndoComponent
  <2>3. UNCHANGED <<registry, receipt, pc, cur, vetted>>
    BY <1>17 DEF UndoComponent, UndoRestore, UndoUnlink, UndoMarker
  <2>4. pc \in {"undo", "undo_dirty"}
    BY <1>17 DEF UndoComponent, UndoRestore, UndoUnlink, UndoMarker, UndoSteps
  <2> QED
    BY <2>2, <2>3, <2>4
<1>18. CASE UndoComponentFails
  BY <1>18, SMTT(30) DEF UndoComponentFails, Undone, UndoSteps
<1>19. CASE UndoneFiles
  BY <1>19, SMTT(30) DEF UndoneFiles
<1>20. CASE RollbackFailed
  BY <1>20, SMTT(30) DEF RollbackFailed
<1>21. CASE UndoPointer
  BY <1>21, SMTT(30) DEF UndoPointer, PointLatestAt, RestoreRaises
<1>22. CASE UndoIndex
  <2>1. CASE cur.prev = NoVersion
    BY <1>22, <2>1, SMTT(30) DEF UndoIndex, Deactivated
  <2>2. CASE cur.prev # NoVersion
    <3>1. Activated(cur.prev)
      BY <1>22, <2>2 DEF UndoIndex
    <3>2. TreeVetted' /\ SavingNew' /\ DeployingVetted'
      BY <1>22 DEF UndoIndex
    <3>3. RegistryVetted'
      BY <1>22, <2>2, <3>1, SMTT(30) DEF UndoIndex, Activated
    <3> QED
      BY <3>2, <3>3
  <2> QED
    BY <2>1, <2>2
<1>23. CASE DeployRaises
  <2>1. RegistryVetted'
    BY <1>23, CutShortTypes, CutShortTears, SMTT(30) DEF DeployRaises
  <2>2. TreeVetted' /\ SavingNew' /\ DeployingVetted'
    BY <1>23, CutShortTypes, CutShortTears, SMTT(30) DEF DeployRaises
  <2> QED
    BY <2>1, <2>2
<1>24. CASE RestoreFails
  <2>1. RegistryVetted'
    BY <1>24, CutShortTypes, CutShortTears, SMTT(30) DEF RestoreFails
  <2>2. TreeVetted' /\ SavingNew' /\ DeployingVetted'
    BY <1>24, CutShortTypes, CutShortTears, SMTT(30) DEF RestoreFails
  <2> QED
    BY <2>1, <2>2
<1>25. CASE Raises
  <2>1. RegistryVetted'
    BY <1>25, CutShortTypes, CutShortTears, SMTT(30) DEF Raises
  <2>2. TreeVetted' /\ SavingNew' /\ DeployingVetted'
    BY <1>25, CutShortTypes, CutShortTears, SMTT(30) DEF Raises
  <2> QED
    BY <2>1, <2>2
<1>26. CASE Crash
  <2>1. RegistryVetted'
    BY <1>26, CutShortTypes, CutShortTears, SMTT(30) DEF Crash
  <2>2. TreeVetted' /\ SavingNew' /\ DeployingVetted'
    BY <1>26, CutShortTypes, CutShortTears, SMTT(30) DEF Crash
  <2> QED
    BY <2>1, <2>2
<1>27. CASE UNCHANGED vars
  BY <1>27, SMTT(30) DEF vars
<1> QED
  BY <1>1, <1>2, <1>3, <1>4, <1>5, <1>6, <1>7, <1>8, <1>9, <1>10, <1>11, <1>12, <1>13, <1>14, <1>15, <1>16, <1>17, <1>18, <1>19, <1>20, <1>21, <1>22, <1>23, <1>24, <1>25, <1>26, <1>27 DEF Next, Candidates, Deploy, Undo

(* Only artifacts of bundles that passed the deploy gate are served.       *)
THEOREM ServedVetted == Spec => []OnlyVettedServed
<1>1. Spec => [](TypeInv /\ OnDisk /\ Vetting)
  BY InitTypeInv, NextTypeInv, InitOnDisk, NextOnDisk, InitVetting, NextVetting, PTL DEF Spec
<1>2. TypeInv /\ Vetting => OnlyVettedServed
  BY ConstantsAssumption DEF TypeInv, TypeOK, Vetting, TreeVetted, RegistryVetted, Vetted, OnlyVettedServed, Served,
     ServedModel, Loads, NoVersion, Owner
<1> QED
  BY <1>1, <1>2, PTL

\* While the index can be read, the pickle of an indexed version keeps its bytes.
LEMMA IndexedKept ==
  ASSUME TypeInv, OnDisk, Vetting, [Next]_vars
  PROVE  readable => \A v \in Version : status[v] # "none" => pkl'[v] = pkl[v]
<1>0. /\ pkl \in [Version -> Owner \cup {Absent, Torn}]
      /\ pc \in Staging \cup Activating => cur.version \in Version
      /\ pc = "save_pkl" /\ readable => status[cur.version] = "none"
      /\ \A v \in Version : status[v] # "none" => pkl[v] # Absent
  BY DEF TypeInv, TypeOK, OnDisk, IndexedOnDisk, Vetting, SavingNew, LocalsOK
<1> USE DEF Staging, Activating
<1>1. CASE SavePkl
  BY <1>0, <1>1 DEF SavePkl
<1>2. CASE CopyVersion
  BY <1>0, <1>2 DEF CopyVersion
<1>3. CASE CutShort
  BY <1>0, <1>3 DEF CutShort, registry, index
<1>4. CASE UNCHANGED pkl
  BY <1>4
<1> QED
  BY <1>1, <1>2, <1>3, <1>4 DEF Next, Candidates, Deploy, Undo, Retrain, ImportCandidate, SaveMeta,
     SaveIndex, StageCandidate, DeployBlocked, StartDeploy, SwapBackup, SwapReplace, WriteMeta, PointLatest,
     WriteIndex, SaveReceipt, Rollback, UndoComponent, UndoRestore, UndoUnlink, UndoMarker, UndoComponentFails, UndoneFiles, RollbackFailed,
     UndoPointer, UndoIndex, DeployRaises, RestoreFails, Raises, Crash, files, registry, vars

(* The pickle of an indexed version is never overwritten.                  *)
THEOREM IndexedImmutable == Spec => IndexedBytesImmutable
<1> DEFINE Kept == readable => \A v \in Version : status[v] # "none" => pkl'[v] = pkl[v]
<1>1. Spec => [](TypeInv /\ OnDisk /\ Vetting)
  BY InitTypeInv, NextTypeInv, InitOnDisk, NextOnDisk, InitVetting, NextVetting, PTL DEF Spec
<1>2. (TypeInv /\ OnDisk /\ Vetting) /\ [Next]_vars => [Kept]_vars
  BY IndexedKept
<1> QED
  BY <1>1, <1>2, PTL DEF Spec, IndexedBytesImmutable

-----------------------------------------------------------------------------
(***************************************************************************)
(* What a deploy serves and what its rollback restores.  A deploy keeps    *)
(* track of the swap (SwapProgress): a swapped component is the bundle's   *)
(* and its backup is what was served before, any other one is untouched.   *)
(* The deploy that is live (tip) keeps that state, and a rollback of it    *)
(* (UndoProgress) turns it back one component at a time.  The model is     *)
(* served through the registry: there, what counts is that the version a   *)
(* rollback goes back to still has the pickle and the metadata it had; the *)
(* deploy in between never writes them, for their bundle was deployed      *)
(* before and is not staged any more (PreviousDeployed).                   *)
(***************************************************************************)
Plain == Component \ {"lgbm_model"}

Saved(f) == IF f = Absent THEN Empty ELSE f

WasServed(d, v) == snapshot[d]["lgbm_model"] = IF v # NoVersion /\ Loads(v) THEN pkl[v] ELSE Absent

BackedUp(d, c) == backup[d][c] = Saved(snapshot[d][c])

Untouched(d, c) == live[c] = snapshot[d][c]

PlainFiles ==
  \A c \in Plain : /\ live[c] \in Owner \cup {Absent}
                   /\ \A d \in DeployId : /\ snapshot[d][c] \in Owner \cup {Absent}
                                           /\ backup[d][c] \in Owner \cup {Absent, Empty}

CommandFits ==
  /\ Idle => swapped = {}
  /\ pc \in Staging => cur.cmd = "retrain"
  /\ pc \in Swapping \cup Activating => cur.cmd = "deploy"
  /\ pc \in Undoing => cur.cmd \in {"deploy", "rollback"}
  /\ pc \in Undoing /\ cur.cmd = "rollback" => cur.prev = receipt[cur.deploy].prev
  /\ cur.cmd = "deploy" => tip = 0
  /\ outcome.kind \in {"deployed", "rolled_back"} => Idle

Deployed(v) == pkl[v] \in Bundle => staged[pkl[v]] = {} /\ bversion[pkl[v]] # NoVersion

PreviousDeployed ==
  /\ pc \in Staging => bversion[cur.bundle] = NoVersion
  /\ pc \in Swapping \cup Activating => bversion[cur.bundle] # NoVersion /\ cur.version # cur.prev
  /\ pc \in Activating => staged[cur.bundle] = {}
  /\ readable => /\ active # NoVersion => Deployed(active)
                 /\ cur.prev # NoVersion => Deployed(cur.prev)
                 /\ \A d \in DeployId : receipt[d].prev # NoVersion => Deployed(receipt[d].prev)

PreviousKept ==
  readable => /\ pc \in Swapping \cup Activating => WasServed(cur.deploy, cur.prev)
              /\ tip # 0 => WasServed(tip, receipt[tip].prev)

SwapProgress ==
  LET left == staged[cur.bundle] IN
  /\ pc \in Swapping \cup Activating =>
       /\ Mandatory \subseteq swapped \cup left /\ swapped \cap left = {}
       /\ pc \in Activating => left = {}
       /\ \A c \in Plain :
            /\ c \in swapped => live[c] = cur.bundle /\ BackedUp(cur.deploy, c)
            /\ c \notin swapped => IF pc = "replace" /\ c = FirstOf(left) THEN BackedUp(cur.deploy, c)
                                                                         ELSE Untouched(cur.deploy, c)
  /\ pc \in {"status_meta", "receipt"} => readable /\ active = cur.version

TipProgress ==
  tip # 0 /\ pc \notin Undoing =>
    \A c \in Plain : IF c \in receipt[tip].swapped THEN BackedUp(tip, c) ELSE Untouched(tip, c)

UndoProgress ==
  /\ pc \in {"undo", "undo_pointer", "undo_index"} /\ tip = cur.deploy =>
       \A c \in Plain : IF c \in swapped THEN BackedUp(tip, c) ELSE Untouched(tip, c)
  /\ pc \in {"undo_pointer", "undo_index"} => swapped = {}

Progress == /\ PlainFiles /\ CommandFits /\ PreviousDeployed /\ PreviousKept
            /\ SwapProgress /\ TipProgress /\ UndoProgress

Restoring == Progress /\ DeployedBundleServed /\ RollbackRestores

\* Nothing has been deployed in the initial states.
LEMMA InitRestoring == Init => Restoring
<1> USE ConstantsAssumption
<1> SUFFICES ASSUME Init PROVE Restoring
  OBVIOUS
<1> QED
  BY DEF Init, Restoring, Progress, PlainFiles, CommandFits, PreviousDeployed, Deployed, PreviousKept, SwapProgress,
     TipProgress, UndoProgress, DeployedBundleServed, RollbackRestores, Plain, Component, Mandatory, Optional, Idle, Staging, Swapping,
     Activating, Undoing, Idling, Command, NoOutcome, Outcome, NoReceipt, NoVersion, Version, Owner

\* Every live path but the model's holds the artifact of a bundle or none.
LEMMA NextPlainFiles ==
  ASSUME TypeInv, PlainFiles, [Next]_vars
  PROVE  PlainFiles'
<1> USE ConstantsAssumption
<1> USE DEF TypeInv, TypeOK, LocalsOK, Staging, Swapping, Activating, Undoing, Idling, Command, NoVersion,
            files, Begin, Goto, Finish, Idle, Outcome, NoOutcome, counters, records, bundles, registry, index, backups
<1> USE DEF PlainFiles, Plain
<1>1. ASSUME NEW b \in Bundle, NEW v \in Version, Retrain(b, v)
     PROVE  PlainFiles'
  BY <1>1, SMTT(30) DEF Retrain
<1>2. ASSUME NEW b \in Bundle, NEW v \in Version, ImportCandidate(b, v)
     PROVE  PlainFiles'
  BY <1>2, SMTT(30) DEF ImportCandidate, Stage
<1>3. CASE SavePkl
  BY <1>3, SMTT(30) DEF SavePkl
<1>4. CASE SaveMeta
  BY <1>4, SMTT(30) DEF SaveMeta
<1>5. CASE SaveIndex
  BY <1>5, SMTT(30) DEF SaveIndex
<1>6. CASE StageCandidate
  BY <1>6, SMTT(30) DEF StageCandidate, Stage
<1>7. ASSUME NEW b \in Bundle, NEW r \in Request, DeployBlocked(b, r)
     PROVE  PlainFiles'
  BY <1>7, SMTT(30) DEF DeployBlocked
<1>8. ASSUME NEW b \in Bundle, NEW r \in Request, StartDeploy(b, r)
     PROVE  PlainFiles'
  BY <1>8, SMTT(30) DEF StartDeploy, Admitted, CandidateValid, Served
<1>9. CASE SwapBackup
  BY <1>9, FirstOfMember, SMTT(30) DEF SwapBackup
<1>10. CASE SwapReplace
  BY <1>10, FirstOfMember, SMTT(30) DEF SwapReplace
<1>11. CASE CopyVersion
  BY <1>11, SMTT(30) DEF CopyVersion
<1>12. CASE WriteMeta
  BY <1>12, SMTT(30) DEF WriteMeta
<1>13. CASE PointLatest
  BY <1>13, SMTT(30) DEF PointLatest, PointLatestAt
<1>14. CASE WriteIndex
  BY <1>14, SMTT(30) DEF WriteIndex, Activated
<1>15. CASE SaveReceipt
  BY <1>15, SMTT(30) DEF SaveReceipt
<1>16. ASSUME NEW d \in DeployId, Rollback(d)
     PROVE  PlainFiles'
  BY <1>16, SMTT(30) DEF Rollback
<1>17. CASE UndoComponent
  <2>1. Undone \in Component /\ cur.deploy \in DeployId /\ UndoneBackup = backup[cur.deploy][Undone]
    BY <1>17, LastOfMember DEF UndoComponent, UndoRestore, UndoUnlink, UndoMarker, Undone, UndoneBackup, UndoSteps
  <2>2. CASE UndoRestore
    BY <2>1, <2>2 DEF UndoRestore, BackupHolds
  <2>3. CASE UndoUnlink
    BY <2>1, <2>3 DEF UndoUnlink
  <2>4. CASE UndoMarker
    BY <2>1, <2>4 DEF UndoMarker
  <2> QED
    BY <1>17, <2>2, <2>3, <2>4 DEF UndoComponent
<1>18. CASE UndoComponentFails
  BY <1>18, SMTT(30) DEF UndoComponentFails, Undone, UndoSteps
<1>19. CASE UndoneFiles
  BY <1>19, SMTT(30) DEF UndoneFiles
<1>20. CASE RollbackFailed
  BY <1>20, SMTT(30) DEF RollbackFailed
<1>21. CASE UndoPointer
  BY <1>21, SMTT(30) DEF UndoPointer, PointLatestAt
<1>22. CASE UndoIndex
  BY <1>22, SMTT(30) DEF UndoIndex, Activated, Deactivated
<1>23. CASE DeployRaises
  BY <1>23, SMTT(30) DEF DeployRaises, CutShort
<1>24. CASE RestoreFails
  BY <1>24, SMTT(30) DEF RestoreFails, CutShort
<1>25. CASE Raises
  BY <1>25, SMTT(30) DEF Raises, CutShort
<1>26. CASE Crash
  BY <1>26, SMTT(30) DEF Crash, CutShort
<1>27. CASE UNCHANGED vars
  BY <1>27, SMTT(30) DEF vars
<1> QED
  BY <1>1, <1>2, <1>3, <1>4, <1>5, <1>6, <1>7, <1>8, <1>9, <1>10, <1>11, <1>12, <1>13, <1>14,
     <1>15, <1>16, <1>17, <1>18, <1>19, <1>20, <1>21, <1>22, <1>23, <1>24, <1>25, <1>26, <1>27
  DEF Next, Candidates, Deploy, Undo

\* Every step keeps the locals of the running command fitting together.
LEMMA NextCommandFits ==
  ASSUME TypeInv, CommandFits, [Next]_vars
  PROVE  CommandFits'
<1> USE ConstantsAssumption
<1> USE DEF TypeInv, TypeOK, LocalsOK, Staging, Swapping, Activating, Undoing, Idling, Command, NoVersion,
            files, Begin, Goto, Finish, Idle, Outcome, NoOutcome, counters, records, bundles, registry, index, backups
<1> USE DEF CommandFits
<1>1. ASSUME NEW b \in Bundle, NEW v \in Version, Retrain(b, v)
     PROVE  CommandFits'
  BY <1>1, SMTT(30) DEF Retrain
<1>2. ASSUME NEW b \in Bundle, NEW v \in Version, ImportCandidate(b, v)
     PROVE  CommandFits'
  BY <1>2, SMTT(30) DEF ImportCandidate, Stage
<1>3. CASE SavePkl
  BY <1>3, SMTT(30) DEF SavePkl
<1>4. CASE SaveMeta
  BY <1>4, SMTT(30) DEF SaveMeta
<1>5. CASE SaveIndex
  BY <1>5, SMTT(30) DEF SaveIndex
<1>6. CASE StageCandidate
  BY <1>6, SMTT(30) DEF StageCandidate, Stage
<1>7. ASSUME NEW b \in Bundle, NEW r \in Request, DeployBlocked(b, r)
     PROVE  CommandFits'
  BY <1>7, SMTT(30) DEF DeployBlocked
<1>8. ASSUME NEW b \in Bundle, NEW r \in Request, StartDeploy(b, r)
     PROVE  CommandFits'
  BY <1>8, SMTT(30) DEF StartDeploy, Admitted, CandidateValid, Served
<1>9. CASE SwapBackup
  BY <1>9, FirstOfMember, SMTT(30) DEF SwapBackup
<1>10. CASE SwapReplace
  BY <1>10, FirstOfMember, SMTT(30) DEF SwapReplace
<1>11. CASE CopyVersion
  BY <1>11, SMTT(30) DEF CopyVersion
<1>12. CASE WriteMeta
  BY <1>12, SMTT(30) DEF WriteMeta
<1>13. CASE PointLatest
  BY <1>13, SMTT(30) DEF PointLatest, PointLatestAt
<1>14. CASE WriteIndex
  BY <1>14, SMTT(30) DEF WriteIndex, Activated
<1>15. CASE SaveReceipt
  BY <1>15, SMTT(30) DEF SaveReceipt
<1>16. ASSUME NEW d \in DeployId, Rollback(d)
     PROVE  CommandFits'
  BY <1>16, SMTT(30) DEF Rollback
<1>17. CASE UndoComponent
  BY <1>17, LastOfMember, SMTT(30) DEF UndoComponent, UndoRestore, UndoUnlink, UndoMarker, Undone, UndoneBackup, UndoSteps, BackupHolds
<1>18. CASE UndoComponentFails
  BY <1>18, SMTT(30) DEF UndoComponentFails, Undone, UndoSteps
<1>19. CASE UndoneFiles
  BY <1>19, SMTT(30) DEF UndoneFiles
<1>20. CASE RollbackFailed
  BY <1>20, SMTT(30) DEF RollbackFailed
<1>21. CASE UndoPointer
  BY <1>21, SMTT(30) DEF UndoPointer, PointLatestAt
<1>22. CASE UndoIndex
  BY <1>22, SMTT(30) DEF UndoIndex, Activated, Deactivated
<1>23. CASE DeployRaises
  BY <1>23, SMTT(30) DEF DeployRaises, CutShort
<1>24. CASE RestoreFails
  BY <1>24, SMTT(30) DEF RestoreFails, CutShort
<1>25. CASE Raises
  BY <1>25, SMTT(30) DEF Raises, CutShort
<1>26. CASE Crash
  BY <1>26, SMTT(30) DEF Crash, CutShort
<1>27. CASE UNCHANGED vars
  BY <1>27, SMTT(30) DEF vars
<1> QED
  BY <1>1, <1>2, <1>3, <1>4, <1>5, <1>6, <1>7, <1>8, <1>9, <1>10, <1>11, <1>12, <1>13, <1>14,
     <1>15, <1>16, <1>17, <1>18, <1>19, <1>20, <1>21, <1>22, <1>23, <1>24, <1>25, <1>26, <1>27
  DEF Next, Candidates, Deploy, Undo

\* A readable index is never the result of a step that found it unreadable.
LEMMA UnreadableForEver ==
  ASSUME Vetting, [Next]_vars
  PROVE  readable' => readable
BY DEF Vetting, SavingNew, Next, Candidates, Deploy, Undo, Retrain, ImportCandidate, SavePkl, SaveMeta,
   SaveIndex, StageCandidate, DeployBlocked, StartDeploy, SwapBackup, SwapReplace, CopyVersion, WriteMeta,
   PointLatest, WriteIndex, SaveReceipt, Rollback, UndoComponent, UndoRestore, UndoUnlink, UndoMarker, UndoComponentFails, UndoneFiles,
   RollbackFailed, UndoPointer, UndoIndex, DeployRaises, RestoreFails, Raises, Crash, CutShort, files,
   registry, index, vars

\* The versions that are or were active belong to bundles that are used up.
LEMMA NextPreviousDeployed ==
  ASSUME TypeInv, OnDisk, Vetting, PreviousDeployed, [Next]_vars
  PROVE  PreviousDeployed'
<1> USE ConstantsAssumption
<1> USE DEF TypeInv, TypeOK, LocalsOK, Staging, Swapping, Activating, Undoing, Idling, Command, NoVersion,
            files, Begin, Goto, Finish, Idle, Outcome, NoOutcome, counters, records, bundles, registry, index, backups
<1> USE DEF PreviousDeployed, Deployed, OnDisk, PreviousIndexed
<1>a. readable' => /\ readable
                   /\ \A v \in Version : status[v] # "none" => pkl'[v] = pkl[v]
  BY IndexedKept, UnreadableForEver
<1>1. ASSUME NEW b \in Bundle, NEW v \in Version, Retrain(b, v)
     PROVE  PreviousDeployed'
  BY <1>1, <1>a, SMTT(30) DEF Retrain
<1>2. ASSUME NEW b \in Bundle, NEW v \in Version, ImportCandidate(b, v)
     PROVE  PreviousDeployed'
  BY <1>2, <1>a, SMTT(30) DEF ImportCandidate, Stage
<1>3. CASE SavePkl
  BY <1>3, <1>a, SMTT(30) DEF SavePkl
<1>4. CASE SaveMeta
  BY <1>4, <1>a, SMTT(30) DEF SaveMeta
<1>5. CASE SaveIndex
  BY <1>5, <1>a, SMTT(30) DEF SaveIndex
<1>6. CASE StageCandidate
  BY <1>6, <1>a, SMTT(30) DEF StageCandidate, Stage
<1>7. ASSUME NEW b \in Bundle, NEW r \in Request, DeployBlocked(b, r)
     PROVE  PreviousDeployed'
  BY <1>7, <1>a, SMTT(30) DEF DeployBlocked
<1>8. ASSUME NEW b \in Bundle, NEW r \in Request, StartDeploy(b, r)
     PROVE  PreviousDeployed'
  BY <1>8, <1>a, SMTT(30) DEF StartDeploy, Admitted, CandidateValid, NoCollision, Mandatory, IndexedOnDisk
<1>9. CASE SwapBackup
  BY <1>9, FirstOfMember, <1>a, SMTT(30) DEF SwapBackup
<1>10. CASE SwapReplace
  BY <1>10, FirstOfMember, <1>a, SMTT(30) DEF SwapReplace
<1>11. CASE CopyVersion
  BY <1>11, <1>a, SMTT(30) DEF CopyVersion
<1>12. CASE WriteMeta
  BY <1>12, <1>a, SMTT(30) DEF WriteMeta
<1>13. CASE PointLatest
  BY <1>13, <1>a, SMTT(30) DEF PointLatest, PointLatestAt
<1>14. CASE WriteIndex
  <2>1. /\ pc = "write_index" /\ active' = cur.version /\ pkl[cur.version] = cur.bundle
        /\ pc' = "status_meta" /\ UNCHANGED <<cur, pkl, staged, bversion, receipt>>
    BY <1>14 DEF WriteIndex, Activated, Vetting, DeployingVetted
  <2>2. Deployed(cur.version)
    BY <2>1
  <2> QED
    BY <1>a, <2>1, <2>2
<1>15. CASE SaveReceipt
  BY <1>15, <1>a, SMTT(30) DEF SaveReceipt
<1>16. ASSUME NEW d \in DeployId, Rollback(d)
     PROVE  PreviousDeployed'
  BY <1>16, <1>a, SMTT(30) DEF Rollback
<1>17. CASE UndoComponent
  BY <1>17, LastOfMember, <1>a, SMTT(30) DEF UndoComponent, UndoRestore, UndoUnlink, UndoMarker, Undone, UndoneBackup, UndoSteps, BackupHolds
<1>18. CASE UndoComponentFails
  BY <1>18, <1>a, SMTT(30) DEF UndoComponentFails, Undone, UndoSteps
<1>19. CASE UndoneFiles
  BY <1>19, <1>a, SMTT(30) DEF UndoneFiles
<1>20. CASE RollbackFailed
  BY <1>20, <1>a, SMTT(30) DEF RollbackFailed
<1>21. CASE UndoPointer
  BY <1>21, <1>a, SMTT(30) DEF UndoPointer, PointLatestAt
<1>22. CASE UndoIndex
  BY <1>22, <1>a, SMTT(30) DEF UndoIndex, Activated, Deactivated
<1>23. CASE DeployRaises
  BY <1>23, <1>a, SMTT(30) DEF DeployRaises, CutShort
<1>24. CASE RestoreFails
  BY <1>24, <1>a, SMTT(30) DEF RestoreFails, CutShort
<1>25. CASE Raises
  BY <1>25, <1>a, SMTT(30) DEF Raises, CutShort
<1>26. CASE Crash
  BY <1>26, <1>a, SMTT(30) DEF Crash, CutShort
<1>27. CASE UNCHANGED vars
  BY <1>27, <1>a, SMTT(30) DEF vars
<1> QED
  BY <1>1, <1>2, <1>3, <1>4, <1>5, <1>6, <1>7, <1>8, <1>9, <1>10, <1>11, <1>12, <1>13, <1>14,
     <1>15, <1>16, <1>17, <1>18, <1>19, <1>20, <1>21, <1>22, <1>23, <1>24, <1>25, <1>26, <1>27
  DEF Next, Candidates, Deploy, Undo

\* A step writes at most the metadata of the version the command is about.
LEMMA MetadataSteps ==
  ASSUME TypeInv, [Next]_vars
  PROVE  \A v \in Version : meta'[v] # meta[v] =>
           v = cur.version /\ pc \in {"save_meta", "write_meta", "status_meta"}
<1> USE DEF TypeInv, TypeOK
<1>1. CASE SaveMeta
  BY <1>1 DEF SaveMeta
<1>2. CASE WriteMeta
  BY <1>2 DEF WriteMeta
<1>3. CASE CutShort
  BY <1>3 DEF CutShort, registry
<1>4. CASE UNCHANGED meta
  BY <1>4
<1> QED
  BY <1>1, <1>2, <1>3, <1>4 DEF Next, Candidates, Deploy, Undo, Retrain, ImportCandidate, SavePkl,
     SaveIndex, StageCandidate, DeployBlocked, StartDeploy, SwapBackup, SwapReplace, CopyVersion, PointLatest,
     WriteIndex, SaveReceipt, Rollback, UndoComponent, UndoRestore, UndoUnlink, UndoMarker, UndoComponentFails,
     UndoneFiles, RollbackFailed, UndoPointer, UndoIndex, DeployRaises, RestoreFails, Raises, Crash, files,
     registry, vars

\* The version a rollback goes back to keeps the files that were served.
LEMMA NextPreviousKept ==
  ASSUME TypeInv, OnDisk, Vetting, CommandFits, PreviousDeployed, PreviousKept, [Next]_vars
  PROVE  PreviousKept'
<1> USE ConstantsAssumption
<1> USE DEF TypeInv, TypeOK, LocalsOK, Staging, Swapping, Activating, Undoing, Idling, Command, NoVersion,
            files, Begin, Goto, Finish, Idle, Outcome, NoOutcome, counters, records, bundles, registry, index, backups
<1> USE DEF PreviousDeployed, PreviousKept, WasServed, Loads, CommandFits, OnDisk, PreviousIndexed, SavingNew, Vetting
<1>a. readable' => /\ readable
                   /\ \A v \in Version : status[v] # "none" => pkl'[v] = pkl[v]
  BY IndexedKept, UnreadableForEver
<1>b. \A v \in Version : meta'[v] # meta[v] =>
        v = cur.version /\ pc \in {"save_meta", "write_meta", "status_meta"}
  BY MetadataSteps
<1>1. ASSUME NEW b \in Bundle, NEW v \in Version, Retrain(b, v)
     PROVE  PreviousKept'
  BY <1>1, <1>a, <1>b, SMTT(30) DEF Retrain
<1>2. ASSUME NEW b \in Bundle, NEW v \in Version, ImportCandidate(b, v)
     PROVE  PreviousKept'
  BY <1>2, <1>a, <1>b, SMTT(30) DEF ImportCandidate, Stage
<1>3. CASE SavePkl
  BY <1>3, <1>a, <1>b, SMTT(30) DEF SavePkl
<1>4. CASE SaveMeta
  BY <1>4, <1>a, <1>b, SMTT(30) DEF SaveMeta
<1>5. CASE SaveIndex
  BY <1>5, <1>a, <1>b, SMTT(30) DEF SaveIndex
<1>6. CASE StageCandidate
  BY <1>6, <1>a, <1>b, SMTT(30) DEF StageCandidate, Stage
<1>7. ASSUME NEW b \in Bundle, NEW r \in Request, DeployBlocked(b, r)
     PROVE  PreviousKept'
  BY <1>7, <1>a, <1>b, SMTT(30) DEF DeployBlocked
<1>8. ASSUME NEW b \in Bundle, NEW r \in Request, StartDeploy(b, r)
     PROVE  PreviousKept'
  BY <1>8, SMTT(30) DEF StartDeploy, Served, ServedModel, Component, Mandatory
<1>9. CASE SwapBackup
  BY <1>9, FirstOfMember, <1>a, <1>b, SMTT(30) DEF SwapBackup
<1>10. CASE SwapReplace
  BY <1>10, FirstOfMember, <1>a, <1>b, SMTT(30) DEF SwapReplace
<1>11. CASE CopyVersion
  BY <1>11, <1>a, <1>b, SMTT(30) DEF CopyVersion
<1>12. CASE WriteMeta
  BY <1>12, <1>a, <1>b, SMTT(30) DEF WriteMeta
<1>13. CASE PointLatest
  BY <1>13, <1>a, <1>b, SMTT(30) DEF PointLatest, PointLatestAt
<1>14. CASE WriteIndex
  BY <1>14, <1>a, <1>b, SMTT(30) DEF WriteIndex, Activated
<1>15. CASE SaveReceipt
  BY <1>15, <1>a, <1>b, SMTT(30) DEF SaveReceipt
<1>16. ASSUME NEW d \in DeployId, Rollback(d)
     PROVE  PreviousKept'
  BY <1>16, <1>a, <1>b, SMTT(30) DEF Rollback
<1>17. CASE UndoComponent
  BY <1>17, LastOfMember, <1>a, <1>b, SMTT(30) DEF UndoComponent, UndoRestore, UndoUnlink, UndoMarker, Undone, UndoneBackup, UndoSteps, BackupHolds
<1>18. CASE UndoComponentFails
  BY <1>18, <1>a, <1>b, SMTT(30) DEF UndoComponentFails, Undone, UndoSteps
<1>19. CASE UndoneFiles
  BY <1>19, <1>a, <1>b, SMTT(30) DEF UndoneFiles
<1>20. CASE RollbackFailed
  BY <1>20, <1>a, <1>b, SMTT(30) DEF RollbackFailed
<1>21. CASE UndoPointer
  BY <1>21, <1>a, <1>b, SMTT(30) DEF UndoPointer, PointLatestAt
<1>22. CASE UndoIndex
  BY <1>22, <1>a, <1>b, SMTT(30) DEF UndoIndex, Activated, Deactivated
<1>23. CASE DeployRaises
  BY <1>23, <1>a, <1>b, SMTT(30) DEF DeployRaises, CutShort
<1>24. CASE RestoreFails
  BY <1>24, <1>a, <1>b, SMTT(30) DEF RestoreFails, CutShort
<1>25. CASE Raises
  <2>1. /\ pc' = "idle" /\ UNCHANGED <<receipt, snapshot, active, status>>
        /\ tip' = IF cur.cmd = "retrain" THEN tip ELSE 0
        /\ pc \in {"save_pkl", "save_meta", "save_index", "stage", "receipt"}
    BY <1>25 DEF Raises, CutShort
  <2>2. ASSUME readable', tip' # 0
        PROVE  LET v == receipt[tip].prev IN
               v # NoVersion => pkl'[v] = pkl[v] /\ meta'[v] = meta[v]
    BY <1>a, <1>b, <2>1, <2>2
  <2>3. tip' # 0 => tip' = tip
    BY <2>1
  <2> QED
    BY <1>a, <2>1, <2>2, <2>3
<1>26. CASE Crash
  BY <1>26, <1>a, <1>b, SMTT(30) DEF Crash, CutShort
<1>27. CASE UNCHANGED vars
  BY <1>27, SMTT(30) DEF vars
<1> QED
  BY <1>1, <1>2, <1>3, <1>4, <1>5, <1>6, <1>7, <1>8, <1>9, <1>10, <1>11, <1>12, <1>13, <1>14,
     <1>15, <1>16, <1>17, <1>18, <1>19, <1>20, <1>21, <1>22, <1>23, <1>24, <1>25, <1>26, <1>27
  DEF Next, Candidates, Deploy, Undo

\* The swap of a deploy goes on as it has begun.
LEMMA NextSwapProgress ==
  ASSUME TypeInv, PlainFiles, CommandFits, SwapProgress, [Next]_vars
  PROVE  SwapProgress'
<1> USE ConstantsAssumption
<1> USE DEF TypeInv, TypeOK, LocalsOK, Staging, Swapping, Activating, Undoing, Idling, Command, NoVersion,
            files, Begin, Goto, Finish, Idle, Outcome, NoOutcome, counters, records, bundles, registry, index, backups
<1> USE DEF SwapProgress, PlainFiles, CommandFits, Plain, BackedUp, Untouched, Saved
<1>1. ASSUME NEW b \in Bundle, NEW v \in Version, Retrain(b, v)
     PROVE  SwapProgress'
  BY <1>1, SMTT(30) DEF Retrain
<1>2. ASSUME NEW b \in Bundle, NEW v \in Version, ImportCandidate(b, v)
     PROVE  SwapProgress'
  BY <1>2, SMTT(30) DEF ImportCandidate, Stage
<1>3. CASE SavePkl
  BY <1>3, SMTT(30) DEF SavePkl
<1>4. CASE SaveMeta
  BY <1>4, SMTT(30) DEF SaveMeta
<1>5. CASE SaveIndex
  BY <1>5, SMTT(30) DEF SaveIndex
<1>6. CASE StageCandidate
  BY <1>6, SMTT(30) DEF StageCandidate, Stage
<1>7. ASSUME NEW b \in Bundle, NEW r \in Request, DeployBlocked(b, r)
     PROVE  SwapProgress'
  BY <1>7, SMTT(30) DEF DeployBlocked
<1>8. ASSUME NEW b \in Bundle, NEW r \in Request, StartDeploy(b, r)
     PROVE  SwapProgress'
  BY <1>8, SMTT(30) DEF StartDeploy, Admitted, CandidateValid, Served
<1>9. CASE SwapBackup
  <2> DEFINE left == staged[cur.bundle]
             c == FirstOf(left)
  <2>1. /\ pc = "backup" /\ pc' = "replace" /\ left' = left /\ swapped' = swapped
        /\ cur' = cur /\ snapshot' = snapshot
        /\ backup' = [backup EXCEPT ![cur.deploy][c] = IF LiveExists(c) THEN live[c] ELSE Empty]
        /\ live' = IF LiveExists(c) THEN [live EXCEPT ![c] = Absent] ELSE live
    BY <1>9 DEF SwapBackup
  <2>2. left \subseteq Component /\ c \in left /\ c \notin swapped /\ cur.deploy \in DeployId
    BY <2>1, FirstOfMember
  <2>3. \A x \in Plain : LiveExists(x) <=> live[x] # Absent
    <3>1. \A x \in Plain : live[x] \notin Version
      BY DEF Version, Owner
    <3> QED
      BY <3>1 DEF LiveExists
  <2>4. c \in Plain => backup'[cur.deploy][c] = Saved(snapshot[cur.deploy][c])
    BY <2>1, <2>2, <2>3
  <2>5. \A x \in Plain \ {c} : live'[x] = live[x] /\ backup'[cur.deploy][x] = backup[cur.deploy][x]
    BY <2>1, <2>2
  <2>6. FirstOf(left)' = c
    BY <2>1
  <2> HIDE DEF c
  <2> QED
    BY <2>1, <2>2, <2>4, <2>5, <2>6
<1>10. CASE SwapReplace
  BY <1>10, FirstOfMember, SMTT(30) DEF SwapReplace
<1>11. CASE CopyVersion
  BY <1>11, SMTT(30) DEF CopyVersion
<1>12. CASE WriteMeta
  BY <1>12, SMTT(30) DEF WriteMeta
<1>13. CASE PointLatest
  BY <1>13, SMTT(30) DEF PointLatest, PointLatestAt
<1>14. CASE WriteIndex
  BY <1>14, SMTT(30) DEF WriteIndex, Activated
<1>15. CASE SaveReceipt
  BY <1>15, SMTT(30) DEF SaveReceipt
<1>16. ASSUME NEW d \in DeployId, Rollback(d)
     PROVE  SwapProgress'
  BY <1>16, SMTT(30) DEF Rollback
<1>17. CASE UndoComponent
  BY <1>17, LastOfMember, SMTT(30) DEF UndoComponent, UndoRestore, UndoUnlink, UndoMarker, Undone, UndoneBackup, UndoSteps, BackupHolds
<1>18. CASE UndoComponentFails
  BY <1>18, SMTT(30) DEF UndoComponentFails, Undone, UndoSteps
<1>19. CASE UndoneFiles
  BY <1>19, SMTT(30) DEF UndoneFiles
<1>20. CASE RollbackFailed
  BY <1>20, SMTT(30) DEF RollbackFailed
<1>21. CASE UndoPointer
  BY <1>21, SMTT(30) DEF UndoPointer, PointLatestAt
<1>22. CASE UndoIndex
  BY <1>22, SMTT(30) DEF UndoIndex, Activated, Deactivated
<1>23. CASE DeployRaises
  BY <1>23, SMTT(30) DEF DeployRaises, CutShort
<1>24. CASE RestoreFails
  BY <1>24, SMTT(30) DEF RestoreFails, CutShort
<1>25. CASE Raises
  BY <1>25, SMTT(30) DEF Raises, CutShort
<1>26. CASE Crash
  BY <1>26, SMTT(30) DEF Crash, CutShort
<1>27. CASE UNCHANGED vars
  BY <1>27, SMTT(30) DEF vars
<1> QED
  BY <1>1, <1>2, <1>3, <1>4, <1>5, <1>6, <1>7, <1>8, <1>9, <1>10, <1>11, <1>12, <1>13, <1>14,
     <1>15, <1>16, <1>17, <1>18, <1>19, <1>20, <1>21, <1>22, <1>23, <1>24, <1>25, <1>26, <1>27
  DEF Next, Candidates, Deploy, Undo

\* The deploy that is live keeps its files until another command replaces them.
LEMMA NextTipProgress ==
  ASSUME TypeInv, PlainFiles, CommandFits, SwapProgress, TipProgress, UndoProgress, [Next]_vars
  PROVE  TipProgress'
<1> USE ConstantsAssumption
<1> USE DEF TypeInv, TypeOK, LocalsOK, Staging, Swapping, Activating, Undoing, Idling, Command, NoVersion,
            files, Begin, Goto, Finish, Idle, Outcome, NoOutcome, counters, records, bundles, registry, index, backups
<1> USE DEF TipProgress, CommandFits, Plain, BackedUp, Untouched, Saved
<1>1. ASSUME NEW b \in Bundle, NEW v \in Version, Retrain(b, v)
     PROVE  TipProgress'
  BY <1>1, SMTT(30) DEF Retrain, UndoSteps, SwapProgress
<1>2. ASSUME NEW b \in Bundle, NEW v \in Version, ImportCandidate(b, v)
     PROVE  TipProgress'
  BY <1>2, SMTT(30) DEF ImportCandidate, Stage, UndoSteps, SwapProgress
<1>3. CASE SavePkl
  BY <1>3, SMTT(30) DEF SavePkl, UndoSteps, SwapProgress
<1>4. CASE SaveMeta
  BY <1>4, SMTT(30) DEF SaveMeta, UndoSteps, SwapProgress
<1>5. CASE SaveIndex
  BY <1>5, SMTT(30) DEF SaveIndex, UndoSteps, SwapProgress
<1>6. CASE StageCandidate
  BY <1>6, SMTT(30) DEF StageCandidate, Stage, UndoSteps, SwapProgress
<1>7. ASSUME NEW b \in Bundle, NEW r \in Request, DeployBlocked(b, r)
     PROVE  TipProgress'
  BY <1>7, SMTT(30) DEF DeployBlocked, UndoSteps, SwapProgress
<1>8. ASSUME NEW b \in Bundle, NEW r \in Request, StartDeploy(b, r)
     PROVE  TipProgress'
  BY <1>8, SMTT(30) DEF StartDeploy, Admitted, CandidateValid, Served, UndoSteps, SwapProgress
<1>9. CASE SwapBackup
  BY <1>9, FirstOfMember, SMTT(30) DEF SwapBackup, UndoSteps, SwapProgress
<1>10. CASE SwapReplace
  BY <1>10, FirstOfMember, SMTT(30) DEF SwapReplace, UndoSteps, SwapProgress
<1>11. CASE CopyVersion
  BY <1>11, SMTT(30) DEF CopyVersion, UndoSteps, SwapProgress
<1>12. CASE WriteMeta
  BY <1>12, SMTT(30) DEF WriteMeta, UndoSteps, SwapProgress
<1>13. CASE PointLatest
  BY <1>13, SMTT(30) DEF PointLatest, PointLatestAt, UndoSteps, SwapProgress
<1>14. CASE WriteIndex
  BY <1>14, SMTT(30) DEF WriteIndex, Activated, UndoSteps, SwapProgress
<1>15. CASE SaveReceipt
  BY <1>15, SMTT(30) DEF SaveReceipt, UndoSteps, SwapProgress
<1>16. ASSUME NEW d \in DeployId, Rollback(d)
     PROVE  TipProgress'
  BY <1>16, SMTT(30) DEF Rollback, UndoSteps, SwapProgress
<1>17. CASE UndoComponent
  BY <1>17, LastOfMember, SMTT(30) DEF UndoComponent, UndoRestore, UndoUnlink, UndoMarker, Undone, UndoneBackup, UndoSteps, BackupHolds, UndoSteps, SwapProgress
<1>18. CASE UndoComponentFails
  BY <1>18, SMTT(30) DEF UndoComponentFails, Undone, UndoSteps, UndoSteps, SwapProgress
<1>19. CASE UndoneFiles
  BY <1>19, SMTT(30) DEF UndoneFiles, UndoSteps, SwapProgress
<1>20. CASE RollbackFailed
  BY <1>20, SMTT(30) DEF RollbackFailed, UndoSteps, SwapProgress
<1>21. CASE UndoPointer
  BY <1>21, SMTT(30) DEF UndoPointer, PointLatestAt, UndoSteps, SwapProgress
<1>22. CASE UndoIndex
  BY <1>22, SMTT(30) DEF UndoIndex, Activated, Deactivated, UndoSteps, SwapProgress
<1>23. CASE DeployRaises
  BY <1>23, SMTT(30) DEF DeployRaises, CutShort, UndoSteps, SwapProgress
<1>24. CASE RestoreFails
  BY <1>24, SMTT(30) DEF RestoreFails, CutShort, UndoSteps, SwapProgress
<1>25. CASE Raises
  BY <1>25, SMTT(30) DEF Raises, CutShort, UndoSteps, SwapProgress
<1>26. CASE Crash
  BY <1>26, SMTT(30) DEF Crash, CutShort, UndoSteps, SwapProgress
<1>27. CASE UNCHANGED vars
  BY <1>27, SMTT(30) DEF vars
<1> QED
  BY <1>1, <1>2, <1>3, <1>4, <1>5, <1>6, <1>7, <1>8, <1>9, <1>10, <1>11, <1>12, <1>13, <1>14,
     <1>15, <1>16, <1>17, <1>18, <1>19, <1>20, <1>21, <1>22, <1>23, <1>24, <1>25, <1>26, <1>27
  DEF Next, Candidates, Deploy, Undo

\* A rollback of the live deploy restores one component after the other.
LEMMA NextUndoProgress ==
  ASSUME TypeInv, PlainFiles, CommandFits, TipProgress, UndoProgress, [Next]_vars
  PROVE  UndoProgress'
<1> USE ConstantsAssumption
<1> USE DEF TypeInv, TypeOK, LocalsOK, Staging, Swapping, Activating, Undoing, Idling, Command, NoVersion,
            files, Begin, Goto, Finish, Idle, Outcome, NoOutcome, counters, records, bundles, registry, index, backups
<1> USE DEF UndoProgress, TipProgress, PlainFiles, CommandFits, Plain, BackedUp, Untouched, Saved
<1>1. ASSUME NEW b \in Bundle, NEW v \in Version, Retrain(b, v)
     PROVE  UndoProgress'
  BY <1>1, SMTT(30) DEF Retrain, UndoSteps
<1>2. ASSUME NEW b \in Bundle, NEW v \in Version, ImportCandidate(b, v)
     PROVE  UndoProgress'
  BY <1>2, SMTT(30) DEF ImportCandidate, Stage, UndoSteps
<1>3. CASE SavePkl
  BY <1>3, SMTT(30) DEF SavePkl, UndoSteps
<1>4. CASE SaveMeta
  BY <1>4, SMTT(30) DEF SaveMeta, UndoSteps
<1>5. CASE SaveIndex
  BY <1>5, SMTT(30) DEF SaveIndex, UndoSteps
<1>6. CASE StageCandidate
  BY <1>6, SMTT(30) DEF StageCandidate, Stage, UndoSteps
<1>7. ASSUME NEW b \in Bundle, NEW r \in Request, DeployBlocked(b, r)
     PROVE  UndoProgress'
  BY <1>7, SMTT(30) DEF DeployBlocked, UndoSteps
<1>8. ASSUME NEW b \in Bundle, NEW r \in Request, StartDeploy(b, r)
     PROVE  UndoProgress'
  BY <1>8, SMTT(30) DEF StartDeploy, Admitted, CandidateValid, Served, UndoSteps
<1>9. CASE SwapBackup
  BY <1>9, FirstOfMember, SMTT(30) DEF SwapBackup, UndoSteps
<1>10. CASE SwapReplace
  BY <1>10, FirstOfMember, SMTT(30) DEF SwapReplace, UndoSteps
<1>11. CASE CopyVersion
  BY <1>11, SMTT(30) DEF CopyVersion, UndoSteps
<1>12. CASE WriteMeta
  BY <1>12, SMTT(30) DEF WriteMeta, UndoSteps
<1>13. CASE PointLatest
  BY <1>13, SMTT(30) DEF PointLatest, PointLatestAt, UndoSteps
<1>14. CASE WriteIndex
  BY <1>14, SMTT(30) DEF WriteIndex, Activated, UndoSteps
<1>15. CASE SaveReceipt
  BY <1>15, SMTT(30) DEF SaveReceipt, UndoSteps
<1>16. ASSUME NEW d \in DeployId, Rollback(d)
     PROVE  UndoProgress'
  <2>1. /\ Idle /\ cur'.deploy = d /\ swapped' = receipt[d].swapped /\ pc' = "undo"
        /\ UNCHANGED <<live, backup, snapshot, receipt, tip>>
    BY <1>16 DEF Rollback
  <2>2. tip = d => tip # 0
    BY DEF DeployId
  <2>3. ASSUME tip = d PROVE \A x \in Plain : IF x \in receipt[tip].swapped THEN BackedUp(tip, x) ELSE Untouched(tip, x)
    BY <2>1, <2>2, <2>3
  <2> QED
    BY <2>1, <2>3
<1>17. CASE UndoComponent
  <2> DEFINE c == Undone
             b == UndoneBackup
  <2>1. /\ pc \in {"undo", "undo_dirty"} /\ pc' = pc /\ cur' = cur /\ tip' = tip /\ snapshot' = snapshot
        /\ swapped # {}
    BY <1>17 DEF UndoComponent, UndoRestore, UndoUnlink, UndoMarker, UndoSteps
  <2>2. /\ c \in swapped /\ swapped \subseteq Component /\ cur.deploy \in DeployId
        /\ b = backup[cur.deploy][c]
    BY <2>1, LastOfMember DEF Undone, UndoneBackup
  <2>3. CASE UndoUnlink
    <3>1. \A x \in Plain \ {c} : live'[x] = live[x]
      BY <2>2, <2>3 DEF UndoUnlink
    <3>2. backup' = backup /\ swapped' = swapped
      BY <2>3 DEF UndoUnlink
    <3> HIDE DEF c, b
    <3> QED
      BY <2>1, <2>2, <3>1, <3>2
  <2>4. CASE UndoRestore \/ UndoMarker
    <3>1. /\ live' = [live EXCEPT ![c] = IF BackupHolds(b) THEN b ELSE live[c]]
          /\ backup' = [backup EXCEPT ![cur.deploy][c] = IF b \in Version THEN b ELSE Absent]
          /\ swapped' = swapped \ {c}
          /\ ~BackupHolds(b) => ~LiveExists(c)
      BY <2>2, <2>4 DEF UndoRestore, UndoMarker, BackupHolds
    <3>a. ASSUME c \in Plain PROVE /\ live[c] \in Owner \cup {Absent} /\ live[c] \notin Version
                                     /\ snapshot[cur.deploy][c] \in Owner \cup {Absent}
                                     /\ snapshot[cur.deploy][c] \notin Version
      BY <2>2, <3>a DEF Version, Owner
    <3>b. c \in Component
      BY <2>2
    <3> HIDE DEF c, b
    <3>2. c \in Plain /\ BackedUp(cur.deploy, c) => live'[c] = snapshot[cur.deploy][c]
      BY <2>2, <3>1, <3>a, <3>b DEF BackupHolds, LiveExists, Owner
    <3>3. \A x \in Plain \ {c} : live'[x] = live[x] /\ backup'[cur.deploy][x] = backup[cur.deploy][x]
      BY <2>2, <3>1
    <3> QED
      BY <2>1, <2>2, <3>1, <3>2, <3>3
  <2> QED
    BY <1>17, <2>3, <2>4 DEF UndoComponent
<1>18. CASE UndoComponentFails
  BY <1>18, SMTT(30) DEF UndoComponentFails, Undone, UndoSteps, UndoSteps
<1>19. CASE UndoneFiles
  BY <1>19, SMTT(30) DEF UndoneFiles, UndoSteps
<1>20. CASE RollbackFailed
  BY <1>20, SMTT(30) DEF RollbackFailed, UndoSteps
<1>21. CASE UndoPointer
  BY <1>21, SMTT(30) DEF UndoPointer, PointLatestAt, UndoSteps
<1>22. CASE UndoIndex
  BY <1>22, SMTT(30) DEF UndoIndex, Activated, Deactivated, UndoSteps
<1>23. CASE DeployRaises
  <2>1. pc \in Swapping \cup Activating /\ pc' = "undo" /\ tip' = tip /\ cur' = cur
    BY <1>23 DEF DeployRaises
  <2>2. tip' = 0 /\ cur'.deploy # 0
    BY <2>1 DEF DeployId
  <2> QED
    BY <2>1, <2>2
<1>24. CASE RestoreFails
  BY <1>24, SMTT(30) DEF RestoreFails, CutShort, UndoSteps
<1>25. CASE Raises
  BY <1>25, SMTT(30) DEF Raises, CutShort, UndoSteps
<1>26. CASE Crash
  BY <1>26, SMTT(30) DEF Crash, CutShort, UndoSteps
<1>27. CASE UNCHANGED vars
  BY <1>27, SMTT(30) DEF vars
<1> QED
  BY <1>1, <1>2, <1>3, <1>4, <1>5, <1>6, <1>7, <1>8, <1>9, <1>10, <1>11, <1>12, <1>13, <1>14,
     <1>15, <1>16, <1>17, <1>18, <1>19, <1>20, <1>21, <1>22, <1>23, <1>24, <1>25, <1>26, <1>27
  DEF Next, Candidates, Deploy, Undo

\* What the two properties about finished commands depend on.
observed == <<outcome, tip, receipt, snapshot, live, pkl, meta, readable, active>>

\* Only the last step of a command reports how it ended.
LEMMA CommandEnds ==
  ASSUME CommandFits, [Next]_vars
  PROVE  /\ SaveReceipt \/ UNCHANGED observed \/ outcome'.kind # "deployed"
         /\ UndoIndex \/ UNCHANGED observed \/ outcome'.kind # "rolled_back"
<1> DEFINE Ends == /\ SaveReceipt \/ UNCHANGED observed \/ outcome'.kind # "deployed"
                   /\ UndoIndex \/ UNCHANGED observed \/ outcome'.kind # "rolled_back"
<1> SUFFICES Ends
  OBVIOUS
<1> USE DEF CommandFits, observed, Staging, Swapping, Activating, Undoing, Begin, Goto, Finish, Idle, Outcome, NoOutcome,
            files, bundles, registry, backups, records, index
<1>1. ASSUME NEW b \in Bundle, NEW v \in Version, Retrain(b, v)
     PROVE  Ends
  BY <1>1, SMTT(30) DEF Retrain, UndoSteps
<1>2. ASSUME NEW b \in Bundle, NEW v \in Version, ImportCandidate(b, v)
     PROVE  Ends
  BY <1>2, SMTT(30) DEF ImportCandidate, Stage, UndoSteps
<1>3. CASE SavePkl
  BY <1>3, SMTT(30) DEF SavePkl, UndoSteps
<1>4. CASE SaveMeta
  BY <1>4, SMTT(30) DEF SaveMeta, UndoSteps
<1>5. CASE SaveIndex
  BY <1>5, SMTT(30) DEF SaveIndex, UndoSteps
<1>6. CASE StageCandidate
  BY <1>6, SMTT(30) DEF StageCandidate, Stage, UndoSteps
<1>7. ASSUME NEW b \in Bundle, NEW r \in Request, DeployBlocked(b, r)
     PROVE  Ends
  BY <1>7, SMTT(30) DEF DeployBlocked, UndoSteps
<1>8. ASSUME NEW b \in Bundle, NEW r \in Request, StartDeploy(b, r)
     PROVE  Ends
  BY <1>8, SMTT(30) DEF StartDeploy, Admitted, CandidateValid, Served, UndoSteps
<1>9. CASE SwapBackup
  BY <1>9, FirstOfMember, SMTT(30) DEF SwapBackup, UndoSteps
<1>10. CASE SwapReplace
  BY <1>10, FirstOfMember, SMTT(30) DEF SwapReplace, UndoSteps
<1>11. CASE CopyVersion
  BY <1>11, SMTT(30) DEF CopyVersion, UndoSteps
<1>12. CASE WriteMeta
  BY <1>12, SMTT(30) DEF WriteMeta, UndoSteps
<1>13. CASE PointLatest
  BY <1>13, SMTT(30) DEF PointLatest, PointLatestAt, UndoSteps
<1>14. CASE WriteIndex
  BY <1>14, SMTT(30) DEF WriteIndex, Activated, UndoSteps
<1>15. CASE SaveReceipt
  BY <1>15, SMTT(30) DEF SaveReceipt, UndoSteps
<1>16. ASSUME NEW d \in DeployId, Rollback(d)
     PROVE  Ends
  BY <1>16, SMTT(30) DEF Rollback, UndoSteps
<1>17. CASE UndoComponent
  BY <1>17, LastOfMember, SMTT(30) DEF UndoComponent, UndoRestore, UndoUnlink, UndoMarker, Undone, UndoneBackup, UndoSteps, BackupHolds, UndoSteps
<1>18. CASE UndoComponentFails
  BY <1>18, SMTT(30) DEF UndoComponentFails, Undone, UndoSteps, UndoSteps
<1>19. CASE UndoneFiles
  BY <1>19, SMTT(30) DEF UndoneFiles, UndoSteps
<1>20. CASE RollbackFailed
  BY <1>20, SMTT(30) DEF RollbackFailed, UndoSteps
<1>21. CASE UndoPointer
  BY <1>21, SMTT(30) DEF UndoPointer, PointLatestAt, UndoSteps
<1>22. CASE UndoIndex
  BY <1>22, SMTT(30) DEF UndoIndex, Activated, Deactivated, UndoSteps
<1>23. CASE DeployRaises
  BY <1>23, SMTT(30) DEF DeployRaises, CutShort, UndoSteps
<1>24. CASE RestoreFails
  BY <1>24, SMTT(30) DEF RestoreFails, CutShort, UndoSteps
<1>25. CASE Raises
  BY <1>25, SMTT(30) DEF Raises, CutShort, UndoSteps
<1>26. CASE Crash
  BY <1>26, SMTT(30) DEF Crash, CutShort, UndoSteps
<1>27. CASE UNCHANGED vars
  BY <1>27, SMTT(30) DEF vars
<1> QED
  BY <1>1, <1>2, <1>3, <1>4, <1>5, <1>6, <1>7, <1>8, <1>9, <1>10, <1>11, <1>12, <1>13, <1>14,
     <1>15, <1>16, <1>17, <1>18, <1>19, <1>20, <1>21, <1>22, <1>23, <1>24, <1>25, <1>26, <1>27
  DEF Next, Candidates, Deploy, Undo

\* A deploy ends with its own bundle in service.
LEMMA NextDeployedServed ==
  ASSUME TypeInv, OnDisk, Vetting, CommandFits, SwapProgress, DeployedBundleServed, [Next]_vars
  PROVE  DeployedBundleServed'
<1> USE ConstantsAssumption
<1> USE DEF TypeInv, TypeOK, LocalsOK, Staging, Swapping, Activating, Undoing, Idling, Command, NoVersion,
            files, Begin, Goto, Finish, Idle, Outcome, NoOutcome, counters, records, bundles, registry, index, backups
<1>1. CASE SaveReceipt
  <2> DEFINE d == cur.deploy
  <2>1. /\ pc = "receipt" /\ outcome'.bundle = cur.bundle /\ outcome'.deploy = d
        /\ receipt'[d].swapped = swapped
        /\ UNCHANGED <<live, pkl, meta, readable, active, snapshot>>
    BY <1>1 DEF SaveReceipt
  <2>2. staged[cur.bundle] = {} /\ Mandatory \subseteq swapped
    BY <2>1 DEF SwapProgress
  <2>3. ServedModel' = cur.bundle
    BY <2>1 DEF SwapProgress, Vetting, DeployingVetted, OnDisk, WrittenSoFar, ServedModel, Loads, Version, Owner
  <2>4. \A c \in Plain : live[c] = IF c \in swapped THEN cur.bundle ELSE snapshot[d][c]
    BY <2>1, <2>2 DEF SwapProgress, Untouched
  <2>5. Served' = [c \in Component |-> IF c = "lgbm_model" THEN cur.bundle ELSE live[c]]
    BY <2>1, <2>3 DEF Served
  <2>6. ASSUME NEW c \in Component
        PROVE  Served'[c] = IF c \in swapped THEN cur.bundle ELSE snapshot[d][c]
    BY <2>2, <2>4, <2>5 DEF Plain, Mandatory
  <2> QED
    BY <2>1, <2>2, <2>6 DEF DeployedBundleServed
<1>2. CASE UNCHANGED observed
  BY <1>2 DEF observed, DeployedBundleServed, Served, ServedModel, Loads
<1>3. CASE outcome'.kind # "deployed"
  BY <1>3 DEF DeployedBundleServed
<1>4. SaveReceipt \/ UNCHANGED observed \/ outcome'.kind # "deployed"
  BY CommandEnds
<1> QED
  BY <1>1, <1>2, <1>3, <1>4

\* A rollback of the live deploy ends with what was served before it.
LEMMA NextRollbackRestores ==
  ASSUME TypeInv, OnDisk, Vetting, Progress, RollbackRestores, [Next]_vars
  PROVE  RollbackRestores'
<1> USE ConstantsAssumption
<1> USE DEF TypeInv, TypeOK, LocalsOK, Staging, Swapping, Activating, Undoing, Idling, Command, NoVersion,
            files, Begin, Goto, Finish, Idle, Outcome, NoOutcome, counters, records, bundles, registry, index, backups
<1> USE DEF Progress
<1>1. CASE UndoIndex
  <2> DEFINE d == cur.deploy
  <2> SUFFICES ASSUME outcome'.kind = "rolled_back", outcome'.wasTip
               PROVE  Served' = snapshot'[outcome'.deploy]
    BY DEF RollbackRestores
  <2>1. /\ pc = "undo_index" /\ tip = d /\ outcome'.deploy = d /\ d \in DeployId /\ cur.cmd = "rollback"
        /\ UNCHANGED <<live, pkl, meta, snapshot>>
        /\ IF cur.prev = NoVersion THEN Deactivated ELSE Activated(cur.prev)
    BY <1>1 DEF UndoIndex, CommandFits
  <2>2. readable /\ swapped = {} /\ tip # 0 /\ cur.prev = receipt[tip].prev
    BY <2>1 DEF Vetting, SavingNew, UndoProgress, CommandFits, DeployId
  <2>3. \A c \in Plain : live[c] = snapshot[d][c]
    BY <2>1, <2>2 DEF UndoProgress, Untouched
  <2>4. readable' = TRUE /\ active' = cur.prev
    BY <2>1 DEF Deactivated, Activated
  <2>5. snapshot[d]["lgbm_model"] = IF cur.prev # NoVersion /\ Loads(cur.prev) THEN pkl[cur.prev] ELSE Absent
    BY <2>1, <2>2 DEF PreviousKept, WasServed
  <2>6. ServedModel' = snapshot[d]["lgbm_model"]
    BY <2>1, <2>4, <2>5 DEF ServedModel, Loads
  <2>7. Served' = [c \in Component |-> IF c = "lgbm_model" THEN snapshot[d]["lgbm_model"] ELSE live[c]]
    BY <2>1, <2>6 DEF Served
  <2>8. Served' = [c \in Component |-> snapshot[d][c]]
    BY <2>3, <2>7 DEF Plain
  <2>9. snapshot[d] = [c \in Component |-> snapshot[d][c]]
    BY <2>1
  <2> QED
    BY <2>1, <2>8, <2>9
<1>2. CASE UNCHANGED observed
  BY <1>2 DEF observed, RollbackRestores, Served, ServedModel, Loads
<1>3. CASE outcome'.kind # "rolled_back"
  BY <1>3 DEF RollbackRestores
<1>4. UndoIndex \/ UNCHANGED observed \/ outcome'.kind # "rolled_back"
  BY CommandEnds
<1> QED
  BY <1>1, <1>2, <1>3, <1>4

\* The invariants of the deploys and rollbacks hold in every state.
LEMMA RestoringHolds == Spec => []Restoring
<1>1. Init => TypeInv /\ OnDisk /\ Vetting /\ Restoring
  BY InitTypeInv, InitOnDisk, InitVetting, InitRestoring
<1>2. ASSUME TypeInv, OnDisk, Vetting, Restoring, [Next]_vars
      PROVE  TypeInv' /\ OnDisk' /\ Vetting' /\ Restoring'
  <2>1. TypeInv' /\ OnDisk' /\ Vetting'
    BY <1>2, NextTypeInv, NextOnDisk, NextVetting
  <2>2. PlainFiles' /\ CommandFits' /\ PreviousDeployed' /\ PreviousKept'
    BY <1>2, NextPlainFiles, NextCommandFits, NextPreviousDeployed, NextPreviousKept DEF Restoring, Progress
  <2>3. SwapProgress' /\ TipProgress' /\ UndoProgress'
    BY <1>2, NextSwapProgress, NextTipProgress, NextUndoProgress DEF Restoring, Progress
  <2>4. DeployedBundleServed' /\ RollbackRestores'
    BY <1>2, NextDeployedServed, NextRollbackRestores DEF Restoring, Progress
  <2> QED
    BY <2>1, <2>2, <2>3, <2>4 DEF Restoring, Progress
<1> QED
  BY <1>1, <1>2, PTL DEF Spec

\* A deploy that reported success serves its bundle, and nothing else changed.
THEOREM DeployServes == Spec => []DeployedBundleServed
<1>1. Restoring => DeployedBundleServed
  BY DEF Restoring
<1> QED
  BY <1>1, RestoringHolds, PTL

\* Rolling back the deploy that is live restores what was served before it.
THEOREM RollbackIsExact == Spec => []RollbackRestores
<1>1. Restoring => RollbackRestores
  BY DEF Restoring
<1> QED
  BY <1>1, RestoringHolds, PTL

-----------------------------------------------------------------------------
(***************************************************************************)
(* The tree implements the registry its readers rely on.  The refinement   *)
(* needs the files of the listed versions to be whole, not only there      *)
(* (IndexedWhole); Vetting says who owns them.                             *)
(***************************************************************************)
IndexedWhole ==
  /\ readable => \A v \in Version : status[v] # "none" => pkl[v] \in Owner
  /\ pc \in {"save_meta", "save_index"} => pkl[cur.version] = cur.bundle

\* What the baseline registers is whole.
LEMMA InitIndexedWhole == Init => IndexedWhole
<1> SUFFICES ASSUME Init PROVE IndexedWhole
  OBVIOUS
<1> QED
  BY ConstantsAssumption DEF Init, IndexedWhole, Owner, Version

\* What a step does to the index: it is listed whole, stays, or becomes active.
LEMMA IndexSteps ==
  ASSUME TypeInv, OnDisk, Vetting, [Next]_vars, UNCHANGED pkl
  PROVE  \/ UNCHANGED index
         \/ SaveIndex \/ WriteIndex \/ UndoIndex
         \/ readable' = FALSE /\ UNCHANGED <<active, status>>
BY DEF Next, Candidates, Deploy, Undo, Retrain, ImportCandidate, SavePkl, SaveMeta, StageCandidate,
   DeployBlocked, StartDeploy, SwapBackup, SwapReplace, CopyVersion, WriteMeta, PointLatest, SaveReceipt,
   Rollback, UndoComponent, UndoRestore, UndoUnlink, UndoMarker, UndoComponentFails, UndoneFiles, RollbackFailed, UndoPointer, DeployRaises,
   RestoreFails, Raises, Crash, CutShort, files, registry, index, vars

\* What a step does to the pickles: at most one is written, whole or torn,
\* of a version the index does not list; the index is left alone.
LEMMA PickleSteps ==
  ASSUME TypeInv, OnDisk, Vetting, [Next]_vars, ~UNCHANGED pkl
  PROVE  /\ UNCHANGED <<index, vetted>>
         /\ cur.version \in Version
         /\ readable => status[cur.version] = "none"
         /\ \E x \in Owner \cup {Torn} : pkl' = [pkl EXCEPT ![cur.version] = x]
<1>0. /\ pkl \in [Version -> Owner \cup {Absent, Torn}]
      /\ pc \in Staging \cup Activating => cur.version \in Version /\ cur.bundle \in Owner
      /\ pc = "copy_version" => live["lgbm_model"] = cur.bundle
      /\ pc = "save_pkl" /\ readable => status[cur.version] = "none"
      /\ \A v \in Version : status[v] # "none" => pkl[v] # Absent
  BY DEF TypeInv, TypeOK, OnDisk, IndexedOnDisk, Vetting, SavingNew, LocalsOK, Owner
<1> USE DEF Staging, Activating
<1>1. CASE SavePkl
  BY <1>0, <1>1 DEF SavePkl, index, records
<1>2. CASE CopyVersion
  <2>1. CASE pkl[cur.version] = Absent
    BY <1>0, <1>2, <2>1 DEF CopyVersion, index, records
  <2>2. CASE pkl[cur.version] # Absent
    <3>1. pkl' = pkl
      BY <1>0, <1>2, <2>2 DEF CopyVersion
    <3> QED
      BY <3>1
  <2> QED
    BY <2>1, <2>2
<1>3. CASE CutShort
  BY <1>0, <1>3 DEF CutShort, registry, index, records
<1> QED
  BY <1>1, <1>2, <1>3 DEF Next, Candidates, Deploy, Undo, Retrain, ImportCandidate, SaveMeta,
     SaveIndex, StageCandidate, DeployBlocked, StartDeploy, SwapBackup, SwapReplace, WriteMeta, PointLatest,
     WriteIndex, SaveReceipt, Rollback, UndoComponent, UndoRestore, UndoUnlink, UndoMarker, UndoComponentFails, UndoneFiles, RollbackFailed,
     UndoPointer, UndoIndex, DeployRaises, RestoreFails, Raises, Crash, files, registry, vars

\* Only SavePkl reaches the steps between a new pickle and its index entry.
LEMMA SavingSteps ==
  ASSUME TypeInv, [Next]_vars, pc' \in {"save_meta", "save_index"}
  PROVE  \/ SavePkl \/ SaveMeta
         \/ pc \in {"save_meta", "save_index"} /\ UNCHANGED <<pkl, cur>>
BY DEF Next, Candidates, Deploy, Undo, Retrain, ImportCandidate, SaveIndex, StageCandidate,
   DeployBlocked, StartDeploy, SwapBackup, SwapReplace, CopyVersion, WriteMeta, PointLatest, WriteIndex,
   SaveReceipt, Rollback, UndoComponent, UndoRestore, UndoUnlink, UndoMarker, UndoComponentFails, UndoneFiles, RollbackFailed, UndoPointer,
   UndoIndex, DeployRaises, RestoreFails, Raises, Crash, Begin, Goto, Finish, Idle, files, registry,
   UndoSteps, vars

\* Every step leaves the listed versions whole.
LEMMA NextIndexedWhole ==
  ASSUME TypeInv, OnDisk, Vetting, IndexedWhole, [Next]_vars
  PROVE  IndexedWhole'
<1>0. /\ pkl \in [Version -> Owner \cup {Absent, Torn}]
      /\ status \in [Version -> Status] /\ active \in Version \cup {NoVersion}
      /\ pc \in Staging \cup Activating => cur.version \in Version /\ cur.bundle \in Owner
      /\ cur.prev \in Version \cup {NoVersion}
  BY DEF TypeInv, TypeOK, LocalsOK, Owner
<1>1. pc' \in {"save_meta", "save_index"} => pkl'[cur'.version] = cur'.bundle
  <2> SUFFICES ASSUME pc' \in {"save_meta", "save_index"} PROVE pkl'[cur'.version] = cur'.bundle
    OBVIOUS
  <2>1. CASE SavePkl
    BY <1>0, <2>1 DEF SavePkl, Goto, Staging
  <2>2. CASE SaveMeta
    BY <2>2 DEF SaveMeta, Goto, IndexedWhole
  <2>3. CASE pc \in {"save_meta", "save_index"} /\ UNCHANGED <<pkl, cur>>
    BY <2>3 DEF IndexedWhole
  <2> QED
    BY <2>1, <2>2, <2>3, SavingSteps
<1>2. readable' => \A v \in Version : status'[v] # "none" => pkl'[v] \in Owner
  <2> SUFFICES ASSUME readable', NEW v \in Version, status'[v] # "none" PROVE pkl'[v] \in Owner
    OBVIOUS
  <2>0. readable
    BY UnreadableForEver
  <2>1. CASE ~UNCHANGED pkl
    BY <1>0, <2>0, <2>1, PickleSteps, IndexedKept DEF index, IndexedWhole
  <2>2. CASE UNCHANGED pkl /\ UNCHANGED index
    BY <2>0, <2>2 DEF index, IndexedWhole
  <2>3. CASE UNCHANGED pkl /\ SaveIndex
    BY <1>0, <2>0, <2>3 DEF SaveIndex, IndexedWhole, Staging
  <2>4. CASE UNCHANGED pkl /\ WriteIndex
    BY <1>0, <2>0, <2>4 DEF WriteIndex, Activated, IndexedWhole, Activating, Vetting, DeployingVetted
  <2>5. CASE UNCHANGED pkl /\ UndoIndex
    <3>1. status[v] # "none"
      BY <1>0, <2>5 DEF UndoIndex, Activated, Deactivated, OnDisk, PreviousIndexed
    <3> QED
      BY <2>0, <2>5, <3>1 DEF IndexedWhole
  <2> QED
    BY <2>1, <2>2, <2>3, <2>4, <2>5, IndexSteps
<1> QED
  BY <1>1, <1>2 DEF IndexedWhole

\* A step changes the vetted bundles by admitting one to a deploy.
LEMMA VettedSteps ==
  ASSUME [Next]_vars
  PROVE  \/ UNCHANGED vetted
         \/ UNCHANGED registry /\ \E b \in Bundle : vetted' = vetted \cup {b}
BY DEF Next, Candidates, Deploy, Undo, Retrain, ImportCandidate, SavePkl, SaveMeta, SaveIndex, StageCandidate,
   DeployBlocked, StartDeploy, SwapBackup, SwapReplace, CopyVersion, WriteMeta, PointLatest, WriteIndex,
   SaveReceipt, Rollback, UndoComponent, UndoRestore, UndoUnlink, UndoMarker, UndoComponentFails, UndoneFiles, RollbackFailed, UndoPointer,
   UndoIndex, DeployRaises, RestoreFails, Raises, Crash, CutShort, files, records, vars

\* The initial tree is an initial registry.
LEMMA InitRegistry == Init => Registry!Init
<1> SUFFICES ASSUME Init PROVE Registry!Init
  OBVIOUS
<1> USE ConstantsAssumption DEF Init, Version, NoVersion, Owner
<1>1. active \in {v \in Version : status[v] # "none"} \cup {NoVersion}
  OBVIOUS
<1>2. \A v \in {w \in Version : status[w] # "none"} : pkl[v] # Absent
  OBVIOUS
<1>3. pkl \in [Version -> (vetted \cup {Base}) \cup {Absent}]
  OBVIOUS
<1>4. vetted \cup {Base} \subseteq Owner /\ readable = TRUE
  OBVIOUS
<1> QED
  BY <1>1, <1>2, <1>3, <1>4 DEF Registry!Init

\* Every step of the tree is a step of the registry or leaves it alone.
LEMMA NextRegistry ==
  ASSUME TypeInv, OnDisk, Vetting, IndexedWhole, [Next]_vars
  PROVE  [Registry!Next]_(Registry!rvars)
<1> DEFINE Listed == {v \in Version : status[v] # "none"}
           Approved == vetted \cup {Base}
<1>0. /\ pkl \in [Version -> Owner \cup {Absent, Torn}]
      /\ status \in [Version -> Status] /\ active \in Version \cup {NoVersion}
      /\ readable \in BOOLEAN
      /\ pc \in Staging \cup Activating => cur.version \in Version /\ cur.bundle \in Owner
      /\ cur.prev \in Version \cup {NoVersion}
  BY DEF TypeInv, TypeOK, LocalsOK, Owner
<1>a. ASSUME NEW v \in Version, Registry!Store(v) \/ Registry!List(v) \/ Registry!Activate(v)
      PROVE  Registry!Next
  BY <1>a DEF Registry!Next
<1>1. CASE ~UNCHANGED pkl
  <2>1. /\ UNCHANGED <<readable, active, status, vetted>>
        /\ cur.version \in Version /\ (readable => cur.version \notin Listed)
        /\ \E x \in Owner \cup {Torn} : pkl' = [pkl EXCEPT ![cur.version] = x]
    BY <1>1, PickleSteps DEF index
  <2>2. PICK v \in Version : v = cur.version
    BY <2>1
  <2>3. Registry!Store(v)
    BY <2>1, <2>2 DEF Registry!Store
  <2> QED
    BY <2>3, <1>a
<1>2. CASE UNCHANGED registry /\ ~UNCHANGED vetted
  <2>1. PICK b \in Bundle : vetted' = vetted \cup {b}
    BY <1>2, VettedSteps
  <2>2. b \in Owner /\ Approved' = Approved \cup {b} /\ UNCHANGED <<readable, active, status, pkl>>
    BY <1>2, <2>1 DEF registry, index, Owner
  <2>3. Registry!Approve(b)
    BY <2>2 DEF Registry!Approve
  <2> QED
    BY <2>2, <2>3 DEF Registry!Next
<1>3. CASE UNCHANGED <<pkl, index, vetted>>
  BY <1>3 DEF index, Registry!rvars
<1>4. CASE UNCHANGED <<pkl, vetted>> /\ SaveIndex
  <2>1. /\ cur.version \in Version /\ readable /\ cur.version \notin Listed
        /\ pkl[cur.version] \in Owner
    BY <1>0, <1>4 DEF SaveIndex, Vetting, SavingNew, IndexedWhole, Staging
  <2>2. PICK v \in Version : v = cur.version
    BY <2>1
  <2>3. Listed' = Listed \cup {v} /\ UNCHANGED <<readable, active>>
    BY <1>0, <1>4, <2>1, <2>2 DEF SaveIndex
  <2>4. Registry!List(v)
    BY <1>4, <2>1, <2>2, <2>3 DEF Registry!List
  <2> QED
    BY <2>4, <1>a
<1>5. CASE UNCHANGED <<pkl, vetted>> /\ WriteIndex
  <2>1. cur.version \in Version /\ readable /\ pkl[cur.version] \in Approved
    BY <1>0, <1>5 DEF WriteIndex, Vetting, DeployingVetted, Activating
  <2>2. PICK v \in Version : v = cur.version
    BY <2>1
  <2>3. active' = v /\ readable' = readable /\ Listed' = Listed \cup {v}
    BY <1>0, <1>5, <2>1, <2>2 DEF WriteIndex, Activated
  <2>4. Registry!Activate(v)
    BY <1>5, <2>1, <2>2, <2>3 DEF Registry!Activate
  <2> QED
    BY <2>4, <1>a
<1>6. CASE UNCHANGED <<pkl, vetted>> /\ UndoIndex
  <2>0. readable
    BY <1>6 DEF UndoIndex, Vetting, SavingNew
  <2>1. CASE cur.prev = NoVersion
    <3>1. active' = NoVersion /\ readable' = readable /\ Listed' = Listed
      BY <1>0, <1>6, <2>0, <2>1 DEF UndoIndex, Deactivated
    <3>2. Registry!Deactivate
      BY <1>6, <2>0, <3>1 DEF Registry!Deactivate
    <3> QED
      BY <3>2 DEF Registry!Next
  <2>2. CASE cur.prev # NoVersion
    <3>1. cur.prev \in Version /\ status[cur.prev] # "none" /\ pkl[cur.prev] \in Approved
      BY <1>0, <2>0, <2>2 DEF OnDisk, PreviousIndexed, Vetting, RegistryVetted, Vetted, IndexedWhole, Owner
    <3>2. PICK v \in Version : v = cur.prev
      BY <3>1
    <3>3. active' = v /\ readable' = readable /\ Listed' = Listed \cup {v}
      BY <1>0, <1>6, <2>0, <2>2, <3>1, <3>2 DEF UndoIndex, Activated
    <3>4. Registry!Activate(v)
      BY <1>6, <2>0, <3>1, <3>2, <3>3 DEF Registry!Activate
    <3> QED
      BY <3>4, <1>a
  <2> QED
    BY <2>1, <2>2
<1>7. CASE UNCHANGED <<pkl, vetted>> /\ readable' = FALSE /\ UNCHANGED <<active, status>>
  BY <1>7 DEF Registry!Tear, Registry!Next
<1> QED
  BY <1>1, <1>2, <1>3, <1>4, <1>5, <1>6, <1>7, IndexSteps, VettedSteps DEF registry, index

\* The deployer, the nightly job and their crashes keep every promise of the
\* registry: a version is written before it is listed and never after, and
\* only whole models that passed the gate become active.
THEOREM ImplementsRegistry == Spec => RegistrySpec
<1> DEFINE Inv == TypeInv /\ OnDisk /\ Vetting /\ IndexedWhole
<1>1. Init => Inv
  BY InitTypeInv, InitOnDisk, InitVetting, InitIndexedWhole
<1>2. Inv /\ [Next]_vars => Inv'
  BY NextTypeInv, NextOnDisk, NextVetting, NextIndexedWhole
<1>3. Inv /\ [Next]_vars => [Registry!Next]_(Registry!rvars)
  BY NextRegistry
<1> QED
  BY <1>1, <1>2, <1>3, InitRegistry, PTL DEF Spec, RegistrySpec, Registry!Spec

\* The registry promises by itself that an active version can be served: no
\* sequence of its steps leaves a readable index naming a version that is
\* missing, torn or not approved.
THEOREM ActiveAlwaysServable == Registry!Spec => []Registry!ActiveServable
<1> DEFINE Listed == {v \in Version : status[v] # "none"}
           Inv == /\ DOMAIN pkl = Version /\ pkl = [v \in Version |-> pkl[v]]
                  /\ Registry!ActiveServable
<1>1. Registry!Init => Inv
  <2> SUFFICES ASSUME Registry!Init PROVE Inv
    OBVIOUS
  <2> QED
    BY DEF Registry!Init, Registry!ActiveServable
<1>2. ASSUME Inv, [Registry!Next]_(Registry!rvars)
      PROVE  Inv'
  <2>1. ASSUME NEW a \in Owner, Registry!Approve(a)
        PROVE  Inv'
    BY <1>2, <2>1 DEF Registry!Approve, Registry!ActiveServable
  <2>2. ASSUME NEW v \in Version, Registry!Store(v)
        PROVE  Inv'
    <3>1. PICK x \in Owner \cup {Torn} : pkl' = [pkl EXCEPT ![v] = x]
      BY <2>2 DEF Registry!Store
    <3>2. DOMAIN pkl' = Version /\ pkl' = [w \in Version |-> pkl'[w]]
      BY <1>2, <3>1
    <3>3. CASE readable /\ active # NoVersion
      <4>1. active # v /\ UNCHANGED <<readable, active, Listed, vetted \cup {Base}>>
        BY <1>2, <2>2, <3>3 DEF Registry!Store, Registry!ActiveServable
      <4>2. pkl'[active] = pkl[active]
        BY <1>2, <3>1, <4>1
      <4> QED
        BY <1>2, <3>2, <4>1, <4>2 DEF Registry!ActiveServable
    <3>4. CASE ~(readable /\ active # NoVersion)
      BY <2>2, <3>2, <3>4 DEF Registry!Store, Registry!ActiveServable
    <3> QED
      BY <3>3, <3>4
  <2>3. ASSUME NEW v \in Version, Registry!List(v)
        PROVE  Inv'
    BY <1>2, <2>3 DEF Registry!List, Registry!ActiveServable
  <2>4. ASSUME NEW v \in Version, Registry!Activate(v)
        PROVE  Inv'
    BY <1>2, <2>4 DEF Registry!Activate, Registry!ActiveServable
  <2>5. CASE Registry!Deactivate
    BY <1>2, <2>5 DEF Registry!Deactivate, Registry!ActiveServable
  <2>6. CASE Registry!Tear
    BY <1>2, <2>6 DEF Registry!Tear, Registry!ActiveServable
  <2>7. CASE UNCHANGED Registry!rvars
    BY <1>2, <2>7 DEF Registry!rvars, Registry!ActiveServable
  <2> QED
    BY <1>2, <2>1, <2>2, <2>3, <2>4, <2>5, <2>6, <2>7 DEF Registry!Next
<1>3. Inv => Registry!ActiveServable
  OBVIOUS
<1> QED
  BY <1>1, <1>2, <1>3, PTL DEF Registry!Spec

\* So it does in the deployed tree: whatever is interrupted or undone, the
\* pickle of the active version is whole and of a bundle that passed the gate.
THEOREM ServesWholeModels == Spec => []Registry!ActiveServable
BY ImplementsRegistry, ActiveAlwaysServable, PTL DEF RegistrySpec

=============================================================================
