------------------------------ MODULE MCContest ------------------------------
(***************************************************************************)
(* Models for TLC of what a contest runs on one machine and its operators  *)
(* start and stop: the control files and workers (Contest), the listeners  *)
(* and tunnels (Resources) and the worker containers (DockerPool).  They   *)
(* share no variable: a behaviour is one of a single part, the others rest *)
(* in their initial state.                                                 *)
(***************************************************************************)
EXTENDS Contest, Resources, DockerPool, TLC

VARIABLE part

MCWorker == {1}
MCSlot   == {1, 2}

ContestInit ==
  /\ part \in {"control", "resources", "pool"}
  /\ Init /\ ResourcesInit /\ PoolInit

ContestNext ==
  \/ part = "control" /\ Next /\ UNCHANGED <<part, resourceVars, poolVars>>
  \/ part = "resources" /\ ResourcesNext /\ UNCHANGED <<part, vars, poolVars>>
  \/ part = "pool" /\ PoolNext /\ UNCHANGED <<part, vars, resourceVars>>

ContestSpec == ContestInit /\ [][ContestNext]_<<part, vars, resourceVars, poolVars>>

\* The sessions of the three parts have the same names.
Symmetry == Permutations(Operator) \cup Permutations(Pid)

(* The values every variable of the three parts takes.                     *)
PartsTypeOK == TypeOK /\ ResourcesTypeOK /\ PoolTypeOK
=============================================================================
