------------------------------ MODULE MCLedger ------------------------------
(***************************************************************************)
(* Models for TLC of what the workers write down: two of them post flags   *)
(* for one challenge (WorkerLoop), and they and the operator leave papers  *)
(* and archives beside it once it is solved (Finish).  The two share no    *)
(* variable: a behaviour is one of a single part.                          *)
(***************************************************************************)
EXTENDS WorkerLoop, Finish, TLC

CONSTANT right

VARIABLE part

LedgerInit ==
  /\ part \in {"ledger", "papers"}
  /\ Init /\ FinishInit
  /\ part = "ledger" => verdict = "solved"

\* The ledger's properties exempt contended challenges: no need to look further.
LedgerNext ==
  \/ part = "ledger" /\ contended = {} /\ Next /\ UNCHANGED <<part, finishVars>>
  \/ part = "papers" /\ FinishNext /\ UNCHANGED <<part, vars>>

LedgerSpec == LedgerInit /\ [][LedgerNext]_<<part, vars, finishVars>>

Symmetry == Permutations(Worker) \cup Permutations(Flag \ {right})

MCPolicy == [autoSubmit |-> TRUE, rejectFake |-> TRUE, dedupe |-> TRUE, maxWrong |-> 1,
             cooldown |-> TRUE, requireHigh |-> TRUE, mediumWithoutLimit |-> FALSE]
AllCorrect   == [c \in Challenge |-> right]
AnyFlag      == [c \in Challenge |-> Flag]
AllHigh      == [f \in Flag |-> "high"]
FromPlatform == [c \in Challenge |-> {"platform"}]
CompetitionOptions == {"live_submit", "confirm_submit", "confirm_competition"}
ThreePapers == <<"solve_summary", "timeline", "postsolve_summary">>
=============================================================================
