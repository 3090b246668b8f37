------------------------------- MODULE MCFair -------------------------------
(***************************************************************************)
(* Models for TLC of what must eventually happen: an interactive           *)
(* solve-loop gives its challenge back (SolveLoop), and the unattended     *)
(* workers park every challenge, also when some of them crash              *)
(* (WorkerLoop).  A behaviour is one of a single part.                     *)
(***************************************************************************)
EXTENDS SolveLoop, TLC

CONSTANTS solver, right, Worker, Challenge, NoWorker

VARIABLES part,
  status, source, priority, owner, expired, workerStatus, submissions, armed,
  workerPc, job, workerMem, posts, platform, contended, unanswered, orphaned

workerVars == <<status, source, priority, owner, expired, workerStatus, submissions, armed,
                workerPc, job, workerMem, posts, platform, contended, unanswered, orphaned>>

\* One of the workers may crash; the others run with --no-stop-when-empty.
W == INSTANCE WorkerLoop WITH
       pc <- workerPc, mem <- workerMem, credited <- platform, Operator <- {},
       Flag <- {right}, Correct <- [c \in Challenge |-> right],
       Candidates <- [c \in Challenge |-> {right}], Class <- [f \in {right} |-> "high"],
       Priority <- {1}, PlatformPriority <- 1, PlatformKind <- "real_platform",
       RunMode <- "competition", ProfilePolicy <- {"allow_submission"}, Adapter <- "ready",
       Options <- {"live_submit", "confirm_submit", "confirm_competition"},
       StopWhenEmpty <- FALSE, Mortal <- {CHOOSE w \in Worker : TRUE},
       InitialSource <- [c \in Challenge |-> {"none", "platform"}],
       Disturbances <- {"crash"}

MCPolicy == [autoSubmit |-> TRUE, rejectFake |-> TRUE, dedupe |-> TRUE, maxWrong |-> 1,
             cooldown |-> TRUE, requireHigh |-> TRUE, mediumWithoutLimit |-> FALSE]

\* One session solves, the other does everything by hand.
Loops      == {"loop", "loop_named"}
MCCommands == [a \in Agent |-> IF a = solver THEN Loops ELSE CommandNames \ Loops]
MCLooks    == [f \in Flag |-> "high"]

FairInit ==
  /\ part \in {"solve", "workers"}
  /\ SolveInit /\ W!Init
  /\ part = "workers" => row = "todo"
  /\ source = [c \in Challenge |-> IF part = "workers" THEN "platform" ELSE "none"]

InSolve(A)   == part = "solve" /\ A /\ UNCHANGED <<part, workerVars>>
InWorkers(A) == part = "workers" /\ A /\ UNCHANGED <<part, solveVars>>

FairNext == InSolve(SolveNext) \/ InWorkers(W!Next)

allVars == <<part, solveVars, workerVars>>

\* The fairness of SolveFairSpec and of WorkerLoop's FairSpec.
FairSpec ==
  /\ FairInit /\ [][FairNext]_allVars
  /\ \A a \in Agent : WF_allVars(InSolve(Step(a)))
  /\ \A w \in Worker : WF_allVars(InWorkers(W!WorkerStep(w)))
  /\ \A c \in Challenge : WF_allVars(InWorkers(W!LeaseExpires(c)))

(* The properties of the workers: see WorkerLoop. *)
EveryChallengeParked == W!EveryChallengeParked
ClaimComesBack       == W!ClaimComesBack
=============================================================================
