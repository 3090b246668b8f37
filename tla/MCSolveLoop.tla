---------------------------- MODULE MCSolveLoop ----------------------------
(* Models of SolveLoop for TLC.                                            *)
EXTENDS SolveLoop, TLC

CONSTANTS a1, a2, right, wrong, other

MCPolicy == [autoSubmit |-> TRUE, rejectFake |-> TRUE, dedupe |-> TRUE, maxWrong |-> 1,
             cooldown |-> TRUE, requireHigh |-> TRUE, mediumWithoutLimit |-> FALSE]

\* One session solves, the other does everything by hand.
MCCommands == [a \in Agent |-> IF a = a1 THEN {"loop", "loop_named"}
                               ELSE CommandNames \ {"loop", "loop_named"}]

Symmetry == Permutations(Flag \ {right})

TwoWrong == [MCPolicy EXCEPT !.maxWrong = 2]

MCLooks == [f \in Flag |-> "high"]
=============================================================================
