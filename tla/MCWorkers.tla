----------------------------- MODULE MCWorkers -----------------------------
(***************************************************************************)
(* Models of WorkerLoop for TLC, one scene per behaviour.                  *)
(*   leases: two challenges pass between two workers, whose solvers find   *)
(*     no flag.                                                            *)
(*   operator: one worker and the operator's `platform submit` post the    *)
(*     flag of one challenge, while the operator releases it and arms or   *)
(*     disarms the contest.                                                *)
(*   wrong: the operator tries any flag beside the worker that has the     *)
(*     right one.                                                          *)
(***************************************************************************)
EXTENDS WorkerLoop, TLC

CONSTANTS c1, right

VARIABLE scene

ScenesInit ==
  /\ scene \in {"leases", "operator", "wrong"}
  /\ Init
  /\ source = [c \in Challenge |-> IF scene = "leases" \/ c = c1 THEN "platform" ELSE "none"]

\* What WorkerStep leaves when the solver finds nothing.
FlaglessStep(w) == \/ ClaimChallenge(w) \/ ClaimNothing(w) \/ ReadFlags(w) \/ StartSolving(w)
                   \/ SolverDone(w) \/ ListSubmissions(w) \/ ReadState(w) \/ Park(w)

LeaseStep ==
  \/ \E w \in Worker : FlaglessStep(w) \/ Crash(w) \/ Fail(w) \/ Restart(w)
  \/ \E c \in Challenge : LeaseExpires(c) \/ Ingest(c)
  \/ \E c \in Challenge, p \in Priority : QueueAdd(c, p)
  \/ Sync

\* One worker, not so slow that its lease expires; c1 stays the platform's.
Alone(w) == \A v \in Worker \ {w} : workerStatus[v] = "unregistered"
OperatorScene ==
  \/ \E w \in Worker : Alone(w) /\ (WorkerStep(w) \/ Fail(w) \/ Restart(w))
  \/ \E o \in Operator : OperatorStep(o)
  \/ \E p \in Process : Crash(p)
  \/ \E c \in Challenge : Q!Claimed(c) /\ job[owner[c]] # c /\ LeaseExpires(c)
  \/ \E w \in Worker, s \in {"queued", "stalled"} : Alone(w) /\ QueueRelease(w, c1, s)
  \/ Ingest(c1) \/ Arm \/ Disarm \/ Sync

OperatorTries == {f \in Flag : \E o \in Operator : f \in mem'[o].todo}

WrongScene == \/ \E w \in Worker : Alone(w) /\ (WorkerStep(w) \/ Fail(w))
              \/ \E o \in Operator : OperatorStep(o)

\* The contest is disarmed only while the worker is between runs: it reads the
\* flags once, and a submit finds the same in a contest armed without submission.
BetweenRuns ==
  armed' = {} => \A w \in Worker : pc'[w] \in {"idle", "claimed", "guard"}

ScenesNext ==
  \/ scene = "leases" /\ LeaseStep /\ UNCHANGED scene
  \/ /\ scene # "leases" /\ UNCHANGED scene
     /\ \/ scene = "operator" /\ OperatorScene /\ OperatorTries \subseteq {right}
        \/ scene = "wrong" /\ WrongScene
     /\ source' = source /\ BetweenRuns
     /\ \A o \in Operator : job'[o] \in {NoJob, c1}

ScenesSpec == ScenesInit /\ [][ScenesNext]_<<scene, vars>>

Symmetry == Permutations(Worker)

MCPolicy == [autoSubmit |-> TRUE, rejectFake |-> TRUE, dedupe |-> TRUE, maxWrong |-> 1,
             cooldown |-> TRUE, requireHigh |-> TRUE, mediumWithoutLimit |-> FALSE]
AllCorrect  == [c \in Challenge |-> right]
OnlyRight   == [c \in Challenge |-> {right}]
AllHigh     == [f \in Flag |-> "high"]
MayBeAbsent == [c \in Challenge |-> {"none", "platform"}]
CompetitionOptions == {"live_submit", "confirm_submit", "confirm_competition"}
=============================================================================
