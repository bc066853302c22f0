---------------------------- MODULE ModelRegistry ----------------------------
(***************************************************************************)
(* What the agents rely on when they load a model through ModelRegistry    *)
(* (models/registry.py), whatever the nightly job, a deploy, a rollback or *)
(* a crash does to the tree underneath: ModeBDeployer implements it.       *)
(*                                                                         *)
(* A version is written before it is listed and is final once it is; only  *)
(* a whole model whose owner was approved becomes active; an index that    *)
(* was torn is never believed again.                                       *)
(***************************************************************************)
CONSTANTS
  Version,    \* version numbers
  NoVersion,
  Artifact,   \* models, named by the bundle they come from
  Absent, Torn

VARIABLES
  readable,  \* the index parses
  active,    \* the version it calls active
  listed,    \* the versions it lists
  bytes,     \* the model file of each version
  approved   \* models that may be served

rvars == <<readable, active, listed, bytes, approved>>

Init ==
  /\ readable = TRUE
  /\ active \in listed \cup {NoVersion}
  /\ listed \subseteq Version /\ approved \subseteq Artifact
  /\ bytes \in [Version -> approved \cup {Absent}]
  /\ \A v \in listed : bytes[v] # Absent

Approve(a) ==
  /\ approved' = approved \cup {a}
  /\ UNCHANGED <<readable, active, listed, bytes>>

\* A model file is written, whole or not, unless the index lists it.
Store(v) ==
  /\ readable => v \notin listed
  /\ \E x \in Artifact \cup {Torn} : bytes' = [bytes EXCEPT ![v] = x]
  /\ UNCHANGED <<readable, active, listed, approved>>

List(v) ==
  /\ readable /\ v \notin listed /\ bytes[v] \in Artifact
  /\ listed' = listed \cup {v}
  /\ UNCHANGED <<readable, active, bytes, approved>>

\* A version becomes active, listed with the same write if it was not.
Activate(v) ==
  /\ readable /\ bytes[v] \in approved
  /\ active' = v /\ listed' = listed \cup {v}
  /\ UNCHANGED <<readable, bytes, approved>>

Deactivate ==
  /\ readable
  /\ active' = NoVersion
  /\ UNCHANGED <<readable, listed, bytes, approved>>

\* The write of the index is cut short.
Tear ==
  /\ readable' = FALSE
  /\ UNCHANGED <<active, listed, bytes, approved>>

Next ==
  \/ \E a \in Artifact : Approve(a)
  \/ \E v \in Version : Store(v) \/ List(v) \/ Activate(v)
  \/ Deactivate \/ Tear

Spec == Init /\ [][Next]_rvars

\* A reader that can parse the index and finds an active version finds its
\* model file there, whole and approved, and among those listed.  (Whether the
\* reader can parse the metadata next to it is not part of the promise.)
ActiveServable ==
  readable /\ active # NoVersion => active \in listed /\ bytes[active] \in approved
=============================================================================
