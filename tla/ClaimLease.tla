---------------------------- MODULE ClaimLease ----------------------------
(***************************************************************************)
(* What the claims table of the work queue promises to the workers, with   *)
(* no mention of statuses, priorities or SQL: every job is leased to at    *)
(* most one worker, a lease is taken from its holder for somebody else     *)
(* only after it expired, and a batch of expired leases is revoked in the  *)
(* same step as the grant that asked for it.                               *)
(***************************************************************************)
CONSTANTS Worker, Job, NoWorker

VARIABLES holder,   \* [Job -> Worker \cup {NoWorker}]
          expired   \* [Job -> BOOLEAN], meaningful while the job is leased

leaseVars == <<holder, expired>>

Free(j) == holder[j] = NoWorker

LeaseInit == /\ holder = [j \in Job |-> NoWorker]
             /\ expired = [j \in Job |-> FALSE]

\* Take back a set of expired leases.
Revoke(R) == /\ \A j \in R : ~Free(j) /\ expired[j]
             /\ holder' = [j \in Job |-> IF j \in R THEN NoWorker ELSE holder[j]]
             /\ expired' = [j \in Job |-> IF j \in R THEN FALSE ELSE expired[j]]

\* Lease a free job, or one whose expired lease is revoked by this very step.
Grant(w, j, R) ==
  /\ \A i \in R : ~Free(i) /\ expired[i]
  /\ Free(j) \/ j \in R
  /\ holder' = [i \in Job |-> IF i = j THEN w
                              ELSE IF i \in R THEN NoWorker ELSE holder[i]]
  /\ expired' = [i \in Job |-> IF i = j \/ i \in R THEN FALSE ELSE expired[i]]

Return(j) == /\ holder' = [holder EXCEPT ![j] = NoWorker]
             /\ expired' = [expired EXCEPT ![j] = FALSE]

Renew(j) == /\ ~Free(j)
            /\ expired' = [expired EXCEPT ![j] = FALSE]
            /\ UNCHANGED holder

Lapse(j) == /\ ~Free(j)
            /\ expired' = [expired EXCEPT ![j] = TRUE]
            /\ UNCHANGED holder

LeaseNext ==
  \/ \E R \in SUBSET Job : Revoke(R)
  \/ \E w \in Worker, j \in Job, R \in SUBSET Job : Grant(w, j, R)
  \/ \E j \in Job : Return(j) \/ Renew(j) \/ Lapse(j)

LeaseSpec == LeaseInit /\ [][LeaseNext]_leaseVars
===========================================================================
