---------------------------- MODULE ModeBDeployer ----------------------------
(***************************************************************************)
(* The night deployment of Flephant: ModeBDeployer.deploy / rollback       *)
(* (mode_b/deployer.py) over the artifact tree, with the part of           *)
(* ModelRegistry (models/registry.py) they go through and the retrainer    *)
(* that stages the candidate bundles.                                      *)
(*                                                                         *)
(* One step is one file operation.  Any of them may raise, and the process *)
(* may be killed between two of them or in the middle of a write that is   *)
(* not atomic: open("w") followed by json.dump, pickle.dump, copy2.        *)
(* Nothing runs at start-up to finish or undo an interrupted command.      *)
(*                                                                         *)
(* Contents are abstract.  A file is Absent, the Empty marker, Torn, the   *)
(* artifact of a bundle (Base: what was installed first), or, for          *)
(* latest_model.pkl only, a version number: the relative symlink to        *)
(* <version>.pkl.  Version 1 is "baseline", version n is "v<n>".           *)
(***************************************************************************)
EXTENDS Naturals

CONSTANTS
  Bundle,        \* candidate bundle ids
  Base,          \* owner of the artifacts installed before the first bundle
  Absent,        \* no such file
  Empty,         \* the zero-byte .bak that stands for "there was no file"
  Torn,          \* a file whose write was cut short
  OptionalSets,  \* the optional components a bundle may be staged with
  MaxVersion,    \* bound on the version numbers
  MaxDeploys,    \* bound on the deploy ids
  MaxFaults      \* bound on exceptions and crashes in a behaviour

Owner     == Bundle \cup {Base}
Version   == 1 .. MaxVersion
NoVersion == 0
DeployId  == 1 .. MaxDeploys
Mandatory == {"factor_zoo", "lgbm_model", "committee_model"}
Optional  == {"ppo_policy", "agent_constraints"}
Component == Mandatory \cup Optional
SwapRank  == [factor_zoo |-> 1, lgbm_model |-> 2, committee_model |-> 3, ppo_policy |-> 4,
              agent_constraints |-> 5]
File      == Owner \cup {Absent, Empty, Torn} \cup Version
Status    == {"none", "candidate", "active", "rollback"}

ASSUME ConstantsAssumption ==
  /\ MaxVersion \in Nat \ {0}
  /\ MaxDeploys \in Nat /\ MaxFaults \in Nat
  /\ OptionalSets \subseteq SUBSET Optional
  /\ Base \notin Bundle
  /\ {Absent, Empty, Torn} \cap Owner = {}
  /\ (Owner \cup {Absent, Empty, Torn}) \cap Nat = {}
  /\ Absent # Empty /\ Absent # Torn /\ Empty # Torn

VARIABLES
  live,      \* the live artifact of each component
  staged,    \* artifacts/bundles/<id>: the component files still in it
  bversion,  \* the version in the bundle's model metadata
  pkl,       \* <version>.pkl of the production registry
  meta,      \* <version>_metadata.json: the bundle it names
  readable,  \* registry.json parses
  active,    \* its active_version
  status,    \* its entries
  backup,    \* artifacts/backup/<deploy id>/*.bak
  receipt,   \* artifacts/backup/<deploy id>/metadata.json
  pc,        \* where the running command is
  cur,       \* its arguments
  swapped,   \* its list of swapped components
  nextId,    \* the next deploy id
  faults,    \* exceptions and crashes so far
  vetted,    \* history: bundles that passed the deploy gate
  snapshot,  \* history: what was served when each deploy started
  tip,       \* history: the deploy whose result is the live state (0: none)
  outcome    \* history: how the last command ended (none while one runs)

index    == <<readable, active, status>>
registry == <<pkl, meta, index>>
bundles  == <<staged, bversion>>
backups  == <<backup, receipt>>
files    == <<live, bundles, registry, backups>>
counters == <<nextId, faults>>
records  == <<vetted, snapshot>>
vars     == <<files, pc, cur, swapped, counters, records, tip, outcome>>

Idle == pc = "idle"

(***************************************************************************)
(* What the service reads: the agents load the model through the registry  *)
(* (ModelRegistry.load_latest), every other component from its live path.  *)
(* load_version raises unless pickle and metadata are both there and parse. *)
(***************************************************************************)
Loads(v) == pkl[v] \in Owner /\ meta[v] \in Owner

ServedModel == IF readable /\ active # NoVersion /\ Loads(active) THEN pkl[active] ELSE Absent

Served == [c \in Component |-> IF c = "lgbm_model" THEN ServedModel ELSE live[c]]

\* Path.exists() of a live path: a symlink exists when its target does.
LiveExists(c) ==
  /\ live[c] # Absent
  /\ live[c] \in Version => pkl[live[c]] # Absent

BackupHoldsMarker(f) == f \notin {Absent} \cup Version  \* mutant: no size test

\* backup_path.exists() and st_size > 0: a relative symlink moved into the
\* backup directory dangles, so it does not exist there.
BackupHolds(f) == f \notin {Absent, Empty} \cup Version

\* NightlyLGBMRetrainer._next_version: "v<max+1>", and "v2" when the registry
\* is empty or cannot be read.
Registered == {v \in Version : status[v] # "none" /\ v > 1}

IsNextVersionReused(v) ==  \* mutant: the highest number itself
  IF readable /\ Registered # {}
  THEN v \in Registered /\ \A w \in Registered : w <= v
  ELSE v = 2

IsNextVersion(v) ==
  IF readable /\ Registered # {}
  THEN v - 1 \in Registered /\ \A w \in Registered : w < v
  ELSE v = 2

\* The deploy swaps the components of its bundle in the order of SWAP_ORDER and
\* undoes them in the reverse order.
FirstOf(S) == CHOOSE c \in S : \A d \in S : SwapRank[c] <= SwapRank[d]
LastOf(S)  == CHOOSE c \in S : \A d \in S : SwapRank[c] >= SwapRank[d]

NoReceipt == [swapped |-> {}, prev |-> NoVersion, written |-> FALSE]
Command(cmd, d, b, v, prev) ==
  [cmd |-> cmd, deploy |-> d, bundle |-> b, version |-> v, prev |-> prev]
Idling    == Command("none", 0, Base, NoVersion, NoVersion)
Outcome(kind, d, b, wasTip) == [kind |-> kind, deploy |-> d, bundle |-> b, wasTip |-> wasTip]
NoOutcome == Outcome("none", 0, Base, FALSE)

\* A command starts; it moves to its next step; it ends.
Begin(command, step) == cur' = command /\ pc' = step /\ outcome' = NoOutcome
Goto(step) == pc' = step /\ UNCHANGED <<cur, tip, outcome>>
Finish(kind) ==
  /\ pc' = "idle" /\ cur' = Idling /\ swapped' = {}
  /\ outcome' = Outcome(kind, cur.deploy, cur.bundle, tip = cur.deploy)
  /\ tip' = IF cur.cmd = "retrain" THEN tip ELSE IF kind = "deployed" THEN cur.deploy ELSE 0

\* An exception the state forces is no fault; any other one, and a crash, is.
Fault(forced) ==
  \/ forced /\ UNCHANGED faults
  \/ ~forced /\ faults < MaxFaults /\ faults' = faults + 1

-----------------------------------------------------------------------------
(***************************************************************************)
(* Either a fresh tree, or one with a baseline registered and served.      *)
(***************************************************************************)
Init ==
  /\ \E installed \in BOOLEAN :
       /\ live   = [c \in Component |->
                      IF ~installed \/ c \in Optional THEN Absent
                      ELSE IF c = "lgbm_model" THEN 1 ELSE Base]
       /\ pkl    = [v \in Version |-> IF installed /\ v = 1 THEN Base ELSE Absent]
       /\ meta   = [v \in Version |-> IF installed /\ v = 1 THEN Base ELSE Absent]
       /\ active = IF installed THEN 1 ELSE NoVersion
       /\ status = [v \in Version |-> IF installed /\ v = 1 THEN "active" ELSE "none"]
  /\ readable = TRUE
  /\ staged   = [b \in Bundle |-> {}]
  /\ bversion = [b \in Bundle |-> NoVersion]
  /\ backup   = [d \in DeployId |-> [c \in Component |-> Absent]]
  /\ receipt  = [d \in DeployId |-> NoReceipt]
  /\ snapshot = [d \in DeployId |-> [c \in Component |-> Absent]]
  /\ pc = "idle" /\ cur = Idling /\ swapped = {}
  /\ nextId = 1 /\ faults = 0
  /\ vetted = {} /\ tip = 0 /\ outcome = NoOutcome

-----------------------------------------------------------------------------
(***************************************************************************)
(* Candidates.  stage_4 retrains: ModelRegistry.save(is_latest = FALSE)    *)
(* writes the pickle, the metadata and the index in turn, then the bundle  *)
(* is staged.  (save() also relabels the oldest entries beyond             *)
(* max_versions_keep = 20; MaxVersion stays below it.)                     *)
(***************************************************************************)
Retrain(b, v) ==
  /\ Idle /\ bversion[b] = NoVersion
  /\ IsNextVersion(v)
  /\ Begin(Command("retrain", 0, b, v, NoVersion), "save_pkl")
  /\ UNCHANGED <<files, swapped, counters, records, tip>>

SavePkl ==
  /\ pc = "save_pkl"
  /\ pkl' = [pkl EXCEPT ![cur.version] = cur.bundle]
  /\ Goto("save_meta")
  /\ UNCHANGED <<live, bundles, meta, index, backups, swapped, counters, records>>

SaveMeta ==
  /\ pc = "save_meta"
  /\ meta' = [meta EXCEPT ![cur.version] = cur.bundle]
  /\ Goto("save_index")
  /\ UNCHANGED <<live, bundles, pkl, index, backups, swapped, counters, records>>

SaveIndex ==
  /\ pc = "save_index" /\ readable
  /\ status' = [status EXCEPT ![cur.version] = "candidate"]
  /\ Goto("stage")
  /\ UNCHANGED <<live, bundles, pkl, meta, readable, active, backups, swapped, counters, records>>

Stage(b, v) ==
  /\ \E extra \in OptionalSets : staged' = [staged EXCEPT ![b] = Mandatory \cup extra]
  /\ bversion' = [bversion EXCEPT ![b] = v]

StageCandidate ==
  /\ pc = "stage"
  /\ Stage(cur.bundle, cur.version)
  /\ Finish("none")
  /\ UNCHANGED <<live, registry, backups, counters, records>>

\* stage_lgbm_candidate_bundle.py: a bundle trained in another registry is
\* staged as it is, whatever version number it carries.
ImportCandidate(b, v) ==
  /\ Idle /\ bversion[b] = NoVersion /\ v > 1
  /\ Stage(b, v)
  /\ UNCHANGED <<live, registry, backups, pc, cur, swapped, counters, records, tip, outcome>>

-----------------------------------------------------------------------------
(***************************************************************************)
(* deploy(): the gates, then one component after the other.                *)
(***************************************************************************)
Request == [verdict: {"pass", "warn", "fail"}, sanityOk: BOOLEAN, flagged: BOOLEAN,
            evidenceOk: BOOLEAN]

GatePassed(r) == r.sanityOk /\ r.verdict = "pass" /\ ~r.flagged /\ r.evidenceOk

\* _validate_candidate_bundle
CandidateValid(b) == Mandatory \subseteq staged[b] /\ bversion[b] # NoVersion

NoCollisionCheck(b) == TRUE  \* mutant: the version is not checked

\* _check_lgbm_version_collision: a version file that exists must hold the
\* candidate's bytes and belong to no other bundle.
NoCollision(b) ==
  pkl[bversion[b]] # Absent => pkl[bversion[b]] = b /\ meta[bversion[b]] \in {b, Base}

Admitted(b, r) == GatePassed(r) /\ CandidateValid(b) /\ NoCollision(b)

\* DeployBlocked leaves every artifact alone.
DeployBlocked(b, r) ==
  /\ Idle /\ ~Admitted(b, r)
  /\ outcome' = Outcome("blocked", 0, b, FALSE)
  /\ UNCHANGED <<files, pc, cur, swapped, counters, records, tip>>

StartDeploy(b, r) ==
  /\ Idle /\ nextId \in DeployId
  /\ Admitted(b, r)
  /\ Begin(Command("deploy", nextId, b, bversion[b], IF readable THEN active ELSE NoVersion),
           "backup")
  /\ nextId' = nextId + 1
  /\ vetted' = vetted \cup {b}
  /\ snapshot' = [snapshot EXCEPT ![nextId] = Served]
  /\ tip' = 0
  /\ UNCHANGED <<files, swapped, faults>>

\* _swap_single, first half: the live file moves into the backup directory,
\* or the empty marker is written there.
SwapBackup ==
  LET c == FirstOf(staged[cur.bundle]) IN
  /\ pc = "backup"
  /\ backup' = [backup EXCEPT ![cur.deploy][c] = IF LiveExists(c) THEN live[c] ELSE Empty]
  /\ live' = IF LiveExists(c) THEN [live EXCEPT ![c] = Absent] ELSE live
  /\ Goto("replace")
  /\ UNCHANGED <<bundles, registry, receipt, swapped, counters, records>>

\* _swap_single, second half: os.replace takes the candidate out of its bundle.
SwapReplace ==
  LET c    == FirstOf(staged[cur.bundle])
      left == staged[cur.bundle] \ {c} IN
  /\ pc = "replace"
  /\ live' = [live EXCEPT ![c] = cur.bundle]
  /\ staged' = [staged EXCEPT ![cur.bundle] = left]
  /\ swapped' = swapped \cup {c}
  /\ Goto(IF left = {} THEN "copy_version" ELSE "backup")
  /\ UNCHANGED <<bversion, registry, backups, counters, records>>

\* _activate_lgbm_registry, then ModelRegistry.activate_deployed_candidate:
\* pickle, metadata, latest pointer, index, metadata again.
CopyVersionSkipped ==  \* mutant: the index will name a file never written
  /\ pc = "copy_version"
  /\ Goto("write_meta")
  /\ UNCHANGED <<files, swapped, counters, records>>

CopyVersion ==
  /\ pc = "copy_version"
  /\ pkl' = [pkl EXCEPT ![cur.version] = IF @ = Absent THEN live["lgbm_model"] ELSE @]
  /\ Goto("write_meta")
  /\ UNCHANGED <<live, bundles, meta, index, backups, swapped, counters, records>>

WriteMeta ==
  /\ pc \in {"write_meta", "status_meta"}
  /\ meta' = [meta EXCEPT ![cur.version] = cur.bundle]
  /\ Goto(IF pc = "write_meta" THEN "pointer" ELSE "receipt")
  /\ UNCHANGED <<live, bundles, pkl, index, backups, swapped, counters, records>>

\* _update_latest_pointer: a symlink, or a copy where symlinks fail.
PointLatestAt(v) == \E f \in {v, pkl[v]} : live' = [live EXCEPT !["lgbm_model"] = f]

PointLatest ==
  /\ pc = "pointer"
  /\ PointLatestAt(cur.version)
  /\ Goto("write_index")
  /\ UNCHANGED <<bundles, registry, backups, swapped, counters, records>>

ActivatedEarlier(v) ==  \* mutant: only the first activation is recorded
  /\ active' = IF active = NoVersion THEN v ELSE active
  /\ status' = [status EXCEPT ![v] = "active"]
  /\ readable' = TRUE

\* The entry of the new active version, every other active one demoted.
Activated(v) ==
  /\ active' = v
  /\ status' = [w \in Version |-> IF w = v THEN "active"
                                  ELSE IF status[w] = "active" THEN "rollback" ELSE status[w]]
  /\ readable' = TRUE

WriteIndex ==
  /\ pc = "write_index" /\ readable
  /\ Activated(cur.version)
  /\ Goto("status_meta")
  /\ UNCHANGED <<live, bundles, pkl, meta, backups, swapped, counters, records>>

\* _save_backup_metadata: only now can the deploy be rolled back by its id.
SaveReceipt ==
  /\ pc = "receipt"
  /\ receipt' = [receipt EXCEPT ![cur.deploy] =
                   [swapped |-> swapped, prev |-> cur.prev, written |-> TRUE]]
  /\ Finish("deployed")
  /\ UNCHANGED <<live, bundles, registry, backup, counters, records>>

-----------------------------------------------------------------------------
(***************************************************************************)
(* Undoing: the same _rollback_components and restore_active_version serve *)
(* a deploy that raised and an operator's rollback(deploy_id).  pc is      *)
(* "undo_dirty" once the undo of a component has raised.                   *)
(***************************************************************************)
UndoSteps == {"undo", "undo_dirty"}

Rollback(d) ==
  /\ Idle /\ receipt[d].written
  /\ Begin(Command("rollback", d, Base, NoVersion, receipt[d].prev), "undo")
  /\ swapped' = receipt[d].swapped
  /\ UNCHANGED <<files, counters, records, tip>>

\* The component whose turn it is, and what its backup is.
Undone       == LastOf(swapped)
UndoneBackup == backup[cur.deploy][Undone]

\* Either the backup moves back ...
UndoRestore ==
  /\ pc \in UndoSteps /\ swapped # {} /\ BackupHolds(UndoneBackup)
  /\ live' = [live EXCEPT ![Undone] = UndoneBackup]
  /\ backup' = [backup EXCEPT ![cur.deploy][Undone] = Absent]
  /\ swapped' = swapped \ {Undone}
  /\ UNCHANGED <<bundles, registry, receipt, pc, cur, counters, records, tip, outcome>>

\* ... or, nothing being held, the live file is deleted and then the marker.
UndoUnlink ==
  /\ pc \in UndoSteps /\ swapped # {} /\ ~BackupHolds(UndoneBackup) /\ LiveExists(Undone)
  /\ live' = [live EXCEPT ![Undone] = Absent]
  /\ UNCHANGED <<bundles, registry, backups, swapped, pc, cur, counters, records, tip, outcome>>

\* A link that dangles in the backup directory does not exist and stays there.
UndoMarker ==
  /\ pc \in UndoSteps /\ swapped # {} /\ ~BackupHolds(UndoneBackup) /\ ~LiveExists(Undone)
  /\ backup' = [backup EXCEPT ![cur.deploy][Undone] = IF @ \in Version THEN @ ELSE Absent]
  /\ swapped' = swapped \ {Undone}
  /\ UNCHANGED <<live, bundles, registry, receipt, pc, cur, counters, records, tip, outcome>>

UndoComponent == UndoRestore \/ UndoUnlink \/ UndoMarker

UndoComponentFails ==
  /\ pc \in UndoSteps /\ swapped # {}
  /\ Fault(FALSE)
  /\ swapped' = swapped \ {Undone}
  /\ Goto("undo_dirty")
  /\ UNCHANGED <<files, nextId, records>>

UndoneFiles ==
  /\ pc = "undo" /\ swapped = {}
  /\ Goto("undo_pointer")
  /\ UNCHANGED <<files, swapped, counters, records>>

\* DeployRollbackFailed skips the registry.
RollbackFailed ==
  /\ pc = "undo_dirty" /\ swapped = {}
  /\ Finish("rollback_failed")
  /\ UNCHANGED <<files, counters, records>>

\* restore_active_version raises on an unreadable index, a missing pickle or a
\* version that is not in the index.
RestoreRaises ==
  \/ ~readable
  \/ cur.prev # NoVersion /\ (pkl[cur.prev] = Absent \/ status[cur.prev] = "none")

UndoPointer ==
  /\ pc = "undo_pointer" /\ ~RestoreRaises
  /\ IF cur.prev = NoVersion THEN UNCHANGED live ELSE PointLatestAt(cur.prev)
  /\ Goto("undo_index")
  /\ UNCHANGED <<bundles, registry, backups, swapped, counters, records>>

\* An active entry of a bundle is a candidate again; only the entry of the
\* baseline, version 1, carries no bundle_id.
Deactivated ==
  /\ active' = NoVersion
  /\ status' = [w \in Version |-> IF status[w] # "active" THEN status[w]
                                  ELSE IF w > 1 THEN "candidate" ELSE "rollback"]
  /\ readable' = TRUE

UndoIndex ==
  /\ pc = "undo_index"
  /\ IF cur.prev = NoVersion THEN Deactivated ELSE Activated(cur.prev)
  /\ Finish(IF cur.cmd = "deploy" THEN "partial_rollback" ELSE "rolled_back")
  /\ UNCHANGED <<live, bundles, pkl, meta, backups, counters, records>>

-----------------------------------------------------------------------------
(***************************************************************************)
(* Failures.  A write that raises or is killed half-way leaves the file    *)
(* Torn; renames are all or nothing.                                       *)
(***************************************************************************)
CutShort ==
  /\ \/ UNCHANGED registry
     \/ /\ pc \in {"save_pkl", "copy_version"}
        /\ pc = "copy_version" => pkl[cur.version] = Absent
        /\ pkl' = [pkl EXCEPT ![cur.version] = Torn]
        /\ UNCHANGED <<meta, index>>
     \/ /\ pc \in {"save_meta", "write_meta", "status_meta"}
        /\ meta' = [meta EXCEPT ![cur.version] = Torn]
        /\ UNCHANGED <<pkl, index>>
     \/ /\ pc \in {"save_index", "write_index", "undo_index"}
        /\ readable' = FALSE
        /\ UNCHANGED <<pkl, meta, active, status>>
  /\ UNCHANGED <<live, bundles, backups, nextId, records>>

\* deploy() catches an exception of the swap or of the activation and undoes
\* the components in its variable swapped, which _atomic_swap_all assigns only
\* by returning: an exception inside it leaves the list empty.
DeployRaises ==
  /\ pc \in {"backup", "replace", "copy_version", "write_meta", "pointer", "write_index",
             "status_meta"}
  /\ Fault(pc = "write_index" /\ ~readable) /\ CutShort
  /\ swapped' = IF pc \in {"backup", "replace"} THEN {} ELSE swapped
  /\ Goto("undo")

\* deploy() swallows an exception of restore_active_version; rollback() does
\* not.
RestoreFails ==
  /\ pc \in {"undo_pointer", "undo_index"}
  /\ Fault(pc = "undo_pointer" /\ RestoreRaises) /\ CutShort
  /\ Finish(IF cur.cmd = "deploy" THEN "partial_rollback" ELSE "error")

\* An exception nobody catches: out of save(), or of _save_backup_metadata
\* after the new bundle went live.
Raises ==
  /\ pc \in {"save_pkl", "save_meta", "save_index", "stage", "receipt"}
  /\ Fault(pc = "save_index" /\ ~readable) /\ CutShort
  /\ Finish("error")

Crash ==
  /\ ~Idle
  /\ Fault(FALSE) /\ CutShort
  /\ Finish("crashed")

-----------------------------------------------------------------------------
Candidates ==
  \/ \E b \in Bundle, v \in Version : Retrain(b, v)
  \/ \E b \in Bundle, v \in Version : ImportCandidate(b, v)
  \/ SavePkl \/ SaveMeta \/ SaveIndex \/ StageCandidate

Deploy ==
  \/ \E b \in Bundle, r \in Request : DeployBlocked(b, r)
  \/ \E b \in Bundle, r \in Request : StartDeploy(b, r)
  \/ SwapBackup \/ SwapReplace
  \/ CopyVersion \/ WriteMeta \/ PointLatest \/ WriteIndex \/ SaveReceipt

Undo ==
  \/ \E d \in DeployId : Rollback(d)
  \/ UndoComponent \/ UndoComponentFails \/ UndoneFiles \/ RollbackFailed
  \/ UndoPointer \/ UndoIndex

Next == Candidates \/ Deploy \/ Undo \/ DeployRaises \/ RestoreFails \/ Raises \/ Crash

Spec == Init /\ [][Next]_vars

-----------------------------------------------------------------------------
(***************************************************************************)
(* Properties.                                                             *)
(***************************************************************************)
Outcomes == {"none", "blocked", "deployed", "partial_rollback", "rollback_failed",
             "rolled_back", "error", "crashed"}

Steps == {"idle", "save_pkl", "save_meta", "save_index", "stage", "backup", "replace",
          "copy_version", "write_meta", "pointer", "write_index", "status_meta", "receipt",
          "undo", "undo_dirty", "undo_pointer", "undo_index"}

\* Every variable keeps its type.
TypeOK ==
  /\ live \in [Component -> File]
  /\ staged \in [Bundle -> SUBSET Component]
  /\ bversion \in [Bundle -> Version \cup {NoVersion}]
  /\ pkl \in [Version -> Owner \cup {Absent, Torn}]
  /\ meta \in [Version -> Owner \cup {Absent, Torn}]
  /\ readable \in BOOLEAN
  /\ active \in Version \cup {NoVersion}
  /\ status \in [Version -> Status]
  /\ backup \in [DeployId -> [Component -> File]]
  /\ receipt \in [DeployId -> [swapped: SUBSET Component, prev: Version \cup {NoVersion},
                               written: BOOLEAN]]
  /\ pc \in Steps
  /\ cur \in [cmd: {"none", "retrain", "deploy", "rollback"}, deploy: DeployId \cup {0},
              bundle: Owner, version: Version \cup {NoVersion},
              prev: Version \cup {NoVersion}]
  /\ swapped \subseteq Component
  /\ nextId \in Nat \ {0}
  /\ vetted \subseteq Bundle
  /\ snapshot \in [DeployId -> [Component -> File]]
  /\ tip \in DeployId \cup {0}
  /\ faults \in 0 .. MaxFaults
  /\ outcome \in [kind: Outcomes, deploy: DeployId \cup {0}, bundle: Owner, wasTip: BOOLEAN]

\* No live path and no served model ever holds the artifact of a bundle that
\* did not pass the deploy gate, whatever is interrupted, undone or re-trained
\* (deployer.py: _check_preconditions, _check_verdict, the regression gate).
OnlyVettedServed ==
  \A c \in Component : Served[c] \in Bundle => Served[c] \in vetted

\* The version the index calls active has its pickle on disk, and its
\* metadata, whenever the index can be read at all: the files are written
\* before the index names them, and a rollback never activates a version
\* without a pickle.
ActiveVersionOnDisk ==
  readable /\ active # NoVersion
    => pkl[active] # Absent /\ meta[active] # Absent

\* A deploy that reported success serves its own bundle in every component it
\* carried, the model through the registry included, and left the optional
\* components it did not carry as they were.
DeployedBundleServed ==
  outcome.kind = "deployed" /\ tip = outcome.deploy =>
    LET d == outcome.deploy
        carried == receipt[d].swapped IN
    /\ Mandatory \subseteq carried
    /\ \A c \in Component : Served[c] = IF c \in carried THEN outcome.bundle ELSE snapshot[d][c]

\* Rolling back the deploy that is live brings back exactly what was served
\* before it.
RollbackRestores ==
  outcome.kind = "rolled_back" /\ outcome.wasTip => Served = snapshot[outcome.deploy]

\* While the index can be read, no step overwrites the pickle of a version the
\* index already lists.
IndexedBytesImmutable ==
  [][readable => \A v \in Version :
       status[v] # "none" => pkl'[v] = pkl[v]]_vars

\* The tree keeps the promises of the registry to the agents that load from
\* it: versions are written before they are listed and final afterwards, and
\* only whole models that passed the gate become active.
Registry == INSTANCE ModelRegistry WITH
  listed <- {v \in Version : status[v] # "none"}, bytes <- pkl,
  approved <- vetted \cup {Base}, Artifact <- Owner

RegistrySpec == Registry!Spec

\* A failed deploy undoes every component it had already swapped (the promise
\* rollback_on_failure; test_atomic_swap_rollback_on_failure).
FailedDeployRestores ==
  outcome.kind = "partial_rollback" =>
    \A c \in Component \ {"lgbm_model"} : live[c] = snapshot[outcome.deploy][c]

\* A rollback removes a live file only if the deploy recorded, by the empty
\* marker, that there was none before it.
RollbackKeepsWhatExisted ==
  outcome.kind = "rolled_back" =>
    \A c \in Component : snapshot[outcome.deploy][c] # Absent => Served[c] # Absent
=============================================================================
