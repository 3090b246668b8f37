--------------------------- MODULE MCWorkerLoop ---------------------------
(* Models of WorkerLoop for TLC.                                           *)
EXTENDS WorkerLoop, TLC

CONSTANTS w1, w2, o1, c1, c2, right, wrong, wrong2

Symmetry == Permutations(Worker) \cup Permutations(Flag \ {right})

MCPolicy == [autoSubmit |-> TRUE, rejectFake |-> TRUE, dedupe |-> TRUE, maxWrong |-> 1,
             cooldown |-> TRUE, requireHigh |-> TRUE, mediumWithoutLimit |-> FALSE]

TwoWrong == [MCPolicy EXCEPT !.maxWrong = 2]

AllCorrect == [c \in Challenge |-> right]
AnyFlag   == [c \in Challenge |-> Flag]
NoFlag    == [c \in Challenge |-> {}]
AllHigh    == [f \in Flag |-> "high"]
FromPlatform == [c \in Challenge |-> {"platform"}]
AddedByHand  == [c \in Challenge |-> {"manual"}]
CompetitionOptions == {"live_submit", "confirm_submit", "confirm_competition"}
===========================================================================
