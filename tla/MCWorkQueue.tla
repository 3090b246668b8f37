---------------------------- MODULE MCWorkQueue ----------------------------
(***************************************************************************)
(* Models for TLC of the records a contest is worked from: the queue of    *)
(* the workers (WorkQueue) and, for the interactive operator, a            *)
(* challenge's solve-loop (SolveLoop), the rows of the board from sync to  *)
(* sync (BoardSync) and the settings (OperatorConfig).  They share no      *)
(* variable: a behaviour is one of a single part, the others rest.         *)
(***************************************************************************)
EXTENDS WorkQueue, SolveLoop, BoardSync, OperatorConfig, TLC

CONSTANTS c1, c2, right

VARIABLE part

CanonOf   == [t \in Title |-> IF t = "bird_static" THEN "bird" ELSE t]
OpeningOf == [c \in Task |-> IF c \in Shells THEN "bird_static" ELSE "bird"]

MCPolicy == [autoSubmit |-> TRUE, rejectFake |-> TRUE, dedupe |-> TRUE, maxWrong |-> 1,
             cooldown |-> TRUE, requireHigh |-> TRUE, mediumWithoutLimit |-> FALSE]

\* One session solves, the other does everything by hand.
Loops      == {"loop", "loop_named"}
MCCommands == [a \in Agent |-> IF a = "solver" THEN Loops ELSE CommandNames \ Loops]
MCLooks    == [f \in Flag |-> "high"]

RecordsInit ==
  /\ part \in {"queue", "solve", "sync", "config"}
  /\ Init /\ SolveInit /\ SyncInit /\ ConfigInit
  /\ part # "solve" => row = "todo"
  /\ part # "sync" => \A c \in Task : form[c] = "slug"

RecordsNext ==
  \/ part = "queue" /\ Next /\ UNCHANGED <<part, solveVars, syncVars, configVars>>
  \/ part = "solve" /\ SolveNext /\ UNCHANGED <<part, queueVars, syncVars, configVars>>
  \/ part = "sync" /\ SyncNext /\ UNCHANGED <<part, queueVars, solveVars, configVars>>
  \/ part = "config" /\ ConfigNext /\ UNCHANGED <<part, queueVars, solveVars, syncVars>>

RecordsSpec == RecordsInit /\ [][RecordsNext]_<<part, queueVars, solveVars, syncVars, configVars>>

\* Workers are interchangeable, and so are challenges; the wrong flags and the
\* consoles bear the challenges' names.
Symmetry == Permutations(Worker) \cup Permutations(Challenge)

(* The values the variables of the four parts take.                        *)
PartsTypeOK == TypeOK /\ SolveTypeOK /\ SyncTypeOK /\ ConfigTypeOK
=============================================================================
