--------------------------- MODULE ChallengeLock ---------------------------
(***************************************************************************)
(* What the lock files under claims/ promise to the sessions, with no      *)
(* mention of files, of the board or of commands: a challenge is granted   *)
(* only while nobody has it, and its lock goes only together with its      *)
(* owner's hold on it, when the owner lets go of it, or after a verdict    *)
(* settled it.  A session may let go and leave the lock behind: it died.   *)
(* A verdict is for good, and by itself grants or takes away nothing.      *)
(***************************************************************************)
CONSTANTS Session, Item

VARIABLES owners,   \* [Item -> SUBSET Session]: whose the lock of an item is
          holding,  \* [Session -> SUBSET Item]: what a session may work on
          settled   \* items with a verdict

lockVars == <<owners, holding, settled>>

LockInit == /\ owners = [c \in Item |-> {}]
            /\ holding = [s \in Session |-> {}]
            /\ settled = {}

\* Verdicts that fall.
SomeSettle == settled' \in {settled \cup S : S \in SUBSET Item}

\* What is left of the locks without those of R.
Without(R) == [c \in Item |-> IF c \in R THEN {} ELSE owners[c]]

Grant(s, c) == /\ owners[c] = {}
               /\ owners' = [owners EXCEPT ![c] = {s}]
               /\ holding' = [holding EXCEPT ![s] = @ \cup {c}]
               /\ UNCHANGED settled

\* A session lets go of Q, maybe with the answer that settles something; of the
\* locks it owns there, those of R go with it.
LetGo(s, Q, R) == /\ \A c \in R : owners[c] = {s}
                  /\ owners' = Without(R)
                  /\ holding' = [holding EXCEPT ![s] = @ \ Q]
                  /\ SomeSettle

\* Anybody takes the locks of settled items away.
Close(R) == /\ R \subseteq settled
            /\ owners' = Without(R)
            /\ UNCHANGED <<holding, settled>>

Settle == SomeSettle /\ UNCHANGED <<owners, holding>>

LockNext ==
  \/ \E s \in Session, c \in Item : Grant(s, c)
  \/ \E s \in Session, Q \in SUBSET Item : \E R \in SUBSET Q : LetGo(s, Q, R)
  \/ \E R \in SUBSET Item : Close(R)
  \/ Settle

LockSpec == LockInit /\ [][LockNext]_lockVars
=============================================================================
