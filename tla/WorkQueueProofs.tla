-------------------------- MODULE WorkQueueProofs --------------------------
(***************************************************************************)
(* Proofs about WorkQueue for every set of workers and challenges: type    *)
(* correctness, the agreement of claims and statuses, the handover rule,   *)
(* and that the queue implements ClaimLease.                               *)
(***************************************************************************)
EXTENDS WorkQueue, TLAPS

(* The inductive invariant.  Only a claim row has a heartbeat, hence       *)
(* ExpiredIsClaimed; ClaimConsistent needs it for nothing, but the lease   *)
(* refinement speaks of expired leases and needs them to be leases.        *)
ExpiredIsClaimed == \A c \in Challenge : expired[c] => Claimed(c)

IInv == TypeOK /\ ClaimConsistent /\ ExpiredIsClaimed

USE WorkQueueAssumption
USE DEF MaybeWorker, Claimed, Known
-----------------------------------------------------------------------------
(* The statuses are told apart by what a worker may do with them.          *)
LEMMA StatusClasses ==
  /\ Claimable \subseteq Statuses /\ Leased \subseteq Statuses
  /\ Parked \subseteq Statuses /\ "absent" \notin Statuses
  BY DEF Claimable, Leased, Parked, Statuses

(* The reclaim performed by reclaim_stale_claims and, inside its own       *)
(* transaction, by claim_next_challenge (state.py:387): afterwards every   *)
(* row is well-typed, a claim survives only where it was not stale, and    *)
(* the statuses it requeues belong to claims it deleted.                   *)
LEMMA ReclaimEffect ==
  ASSUME IInv
  PROVE  /\ StatusReclaimed \in [Challenge -> Statuses \cup {"absent"}]
         /\ OwnerReclaimed \in [Challenge -> MaybeWorker]
         /\ WorkerReclaimed \in [Worker -> {"unregistered", "idle", "busy", "stale"}]
         /\ Reset(expired, StaleClaims, FALSE) \in [Challenge -> BOOLEAN]
         /\ \A c \in Challenge :
              /\ (c \in StaleClaims) =>
                   /\ StatusReclaimed[c] = "queued" /\ OwnerReclaimed[c] = NoWorker
                   /\ ~Reset(expired, StaleClaims, FALSE)[c]
              /\ (c \notin StaleClaims) =>
                   /\ StatusReclaimed[c] = status[c] /\ OwnerReclaimed[c] = owner[c]
                   /\ Reset(expired, StaleClaims, FALSE)[c] = expired[c]
              /\ StatusReclaimed[c] # "absent" <=> status[c] # "absent"
  <1>1. "queued" \in Statuses \cup {"absent"} /\ "queued" # "absent"
    BY DEF Statuses, Claimable
  <1>2. StatusReclaimed \in [Challenge -> Statuses \cup {"absent"}]
    BY <1>1 DEF IInv, TypeOK, StatusReclaimed, Reset
  <1>3. OwnerReclaimed \in [Challenge -> MaybeWorker]
    BY DEF IInv, TypeOK, OwnerReclaimed, Reset
  <1>4. WorkerReclaimed \in [Worker -> {"unregistered", "idle", "busy", "stale"}]
    BY DEF IInv, TypeOK, WorkerReclaimed, Reset
  <1>5. Reset(expired, StaleClaims, FALSE) \in [Challenge -> BOOLEAN]
    BY DEF IInv, TypeOK, Reset
  <1>6. ASSUME NEW c \in Challenge
        PROVE  /\ StatusReclaimed[c] = IF c \in StaleClaims THEN "queued" ELSE status[c]
               /\ OwnerReclaimed[c] = IF c \in StaleClaims THEN NoWorker ELSE owner[c]
               /\ Reset(expired, StaleClaims, FALSE)[c]
                    = IF c \in StaleClaims THEN FALSE ELSE expired[c]
    BY DEF IInv, TypeOK, StatusReclaimed, OwnerReclaimed, Reset
  <1>7. ASSUME NEW c \in StaleClaims PROVE status[c] # "absent"
    BY DEF StaleClaims, Leased
  <1> QED
    BY <1>1, <1>2, <1>3, <1>4, <1>5, <1>6, <1>7
-----------------------------------------------------------------------------
LEMMA InitEstablishesInv == Init => IInv
  BY DEF Init, IInv, TypeOK, ClaimConsistent, ExpiredIsClaimed

(* Writing the worker's row keeps it a legal row.                          *)
LEMMA SetWorkerType ==
  ASSUME TypeOK, NEW w, NEW s \in {"idle", "busy", "stale"}, SetWorker(w, s)
  PROVE  workerStatus' \in [Worker -> {"unregistered", "idle", "busy", "stale"}]
  BY DEF TypeOK, SetWorker

(* Writing the challenge's row keeps it a legal row, and neither makes nor *)
(* loses one; a claimed challenge has a row to be written.                 *)
LEMMA SetRowEffect ==
  ASSUME IInv, NEW c \in Challenge, NEW s \in Statuses, SetRow(c, s)
  PROVE  /\ status' \in [Challenge -> Statuses \cup {"absent"}]
         /\ \A d \in Challenge : status'[d] # "absent" <=> status[d] # "absent"
         /\ \A d \in Challenge : status'[d] = status[d] \/ (d = c /\ status'[d] = s)
  <1>1. s # "absent"
    BY StatusClasses
  <1>2. status \in [Challenge -> Statuses \cup {"absent"}]
    BY DEF IInv, TypeOK
  <1>3. status' = [status EXCEPT ![c] = IF status[c] # "absent" THEN s ELSE status[c]]
    BY DEF SetRow
  <1>4. status' \in [Challenge -> Statuses \cup {"absent"}]
    BY <1>2, <1>3
  <1>5. \A d \in Challenge : status'[d] = status[d] \/ (d = c /\ status'[d] = s)
    BY <1>2, <1>3
  <1>6. \A d \in Challenge : status'[d] # "absent" <=> status[d] # "absent"
    BY <1>1, <1>2, <1>3
  <1> QED
    BY <1>4, <1>5, <1>6

(* The functions that write a verdict archive the claim with it.           *)
LEMMA ArchivingKeepsInv ==
  ASSUME IInv, NEW c \in Challenge, NEW s \in Statuses, NEW w,
         ArchiveClaims(c), SetRow(c, s),
         SetWorker(w, "idle"), UNCHANGED <<source, priority>>
  PROVE  IInv'
  <1>1. TypeOK'
    BY SetWorkerType, SetRowEffect DEF IInv, TypeOK, ArchiveClaims
  <1>2. ClaimConsistent'
    BY SetRowEffect DEF IInv, TypeOK, ClaimConsistent, ArchiveClaims
  <1>3. ExpiredIsClaimed'
    BY DEF IInv, TypeOK, ExpiredIsClaimed, ArchiveClaims
  <1> QED
    BY <1>1, <1>2, <1>3 DEF IInv

LEMMA StepKeepsInv == IInv /\ [Next]_queueVars => IInv'
  <1> SUFFICES ASSUME IInv, [Next]_queueVars PROVE IInv'
    OBVIOUS
  <1> USE DEF IInv
  <1>1. ASSUME NEW w \in Worker, RegisterWorker(w) \/ ClaimNone(w) PROVE IInv'
    BY <1>1 DEF RegisterWorker, ClaimNone, TypeOK, ClaimConsistent, ExpiredIsClaimed
  <1>2. ASSUME NEW c \in Challenge, NEW p \in Priority, AddManual(c, p) PROVE IInv'
    <2>1. TypeOK'
      BY <1>2 DEF AddManual, TypeOK, Statuses, Claimable
    <2>2. ClaimConsistent' /\ ExpiredIsClaimed'
      BY <1>2 DEF AddManual, TypeOK, ClaimConsistent, ExpiredIsClaimed, Leased
    <2> QED
      BY <2>1, <2>2
  <1>3. ASSUME NEW c \in Challenge, Ingested(c) PROVE IInv'
    <2>1. TypeOK'
      BY <1>3 DEF Ingested, TypeOK, Statuses, Claimable
    <2>2. ClaimConsistent' /\ ExpiredIsClaimed'
      BY <1>3 DEF Ingested, TypeOK, ClaimConsistent, ExpiredIsClaimed
    <2> QED
      BY <2>1, <2>2
  <1>4. ASSUME NEW c \in Challenge, Expire(c) PROVE IInv'
    BY <1>4 DEF Expire, TypeOK, ClaimConsistent, ExpiredIsClaimed
  <1>5. ASSUME NEW S \in SUBSET Challenge, UpsertPlatform(S) PROVE IInv'
    <2>1. TypeOK'
      BY <1>5 DEF UpsertPlatform, SyncStatus, SyncSource, TypeOK, Statuses,
                  Claimable, KeptBySync
    <2>2. ASSUME NEW c \in Challenge PROVE owner'[c] = owner[c] /\ expired'[c] = expired[c]
      BY <1>5 DEF UpsertPlatform
    <2>3. ASSUME NEW c \in Challenge, Claimed(c)
          PROVE  status'[c] \in {status[c], "new"}
      BY <1>5 DEF UpsertPlatform, SyncStatus, TypeOK
    <2>4. ClaimConsistent'
      BY <2>2, <2>3 DEF ClaimConsistent
    <2>5. ExpiredIsClaimed'
      BY <2>2 DEF ExpiredIsClaimed
    <2> QED
      BY <2>1, <2>4, <2>5
  <1>6. CASE ReclaimStale
    <2>1. TypeOK'
      BY <1>6, ReclaimEffect DEF ReclaimStale, TypeOK
    <2>2. ClaimConsistent'
      BY <1>6, ReclaimEffect DEF ReclaimStale, ClaimConsistent
    <2>3. ExpiredIsClaimed'
      BY <1>6, ReclaimEffect DEF ReclaimStale, ExpiredIsClaimed
    <2> QED
      BY <2>1, <2>2, <2>3
  <1>7. ASSUME NEW w \in Worker, NEW c \in Challenge, ClaimNext(w, c) PROVE IInv'
    <2>1. StatusReclaimed[c] # "absent"
      BY <1>7 DEF ClaimNext, FreeToClaim, Claimable
    <2>2. /\ status' \in [Challenge -> Statuses \cup {"absent"}]
          /\ owner' \in [Challenge -> MaybeWorker]
          /\ expired' \in [Challenge -> BOOLEAN]
          /\ workerStatus' \in [Worker -> {"unregistered", "idle", "busy", "stale"}]
      BY <1>7, ReclaimEffect DEF ClaimNext, Statuses, Leased
    <2>3. ASSUME NEW d \in Challenge
          PROVE  /\ d = c => status'[d] = "claimed" /\ owner'[d] = w /\ ~expired'[d]
                 /\ d # c => /\ status'[d] = StatusReclaimed[d]
                             /\ owner'[d] = OwnerReclaimed[d]
                             /\ expired'[d] = Reset(expired, StaleClaims, FALSE)[d]
      BY <1>7, ReclaimEffect DEF ClaimNext
    <2>4. TypeOK'
      <3>1. ASSUME NEW d \in Challenge
            PROVE  status'[d] # "absent" <=> status[d] # "absent"
        BY <2>1, <2>3, ReclaimEffect
      <3>2. UNCHANGED <<source, priority>>
        BY <1>7 DEF ClaimNext
      <3> QED
        BY <2>2, <3>1, <3>2 DEF TypeOK
    <2>5. ClaimConsistent'
      BY <2>3, ReclaimEffect DEF ClaimConsistent, Leased
    <2>6. ExpiredIsClaimed'
      BY <2>3, ReclaimEffect DEF ExpiredIsClaimed
    <2> QED
      BY <2>4, <2>5, <2>6
  <1>8. ASSUME NEW w \in Worker, NEW c \in Challenge, HeartbeatClaim(w, c) PROVE IInv'
    BY <1>8 DEF HeartbeatClaim, TypeOK, ClaimConsistent, ExpiredIsClaimed
  <1>9. ASSUME NEW w \in MaybeWorker, NEW c \in Challenge, NEW s \in Statuses,
               SetStatus(w, c, s)
        PROVE  IInv'
    <2>1. CASE s \in Leased /\ w \in Worker /\ SetWorker(w, "busy")
               /\ expired' = [expired EXCEPT ![c] = @ /\ owner[c] # w] /\ UNCHANGED owner
      <3>1. TypeOK'
        BY <1>9, <2>1, SetWorkerType, SetRowEffect DEF SetStatus, TypeOK
      <3>2. ClaimConsistent' /\ ExpiredIsClaimed'
        BY <1>9, <2>1, SetRowEffect DEF SetStatus, TypeOK, ClaimConsistent, ExpiredIsClaimed
      <3> QED
        BY <3>1, <3>2
    <2>2. CASE s \in Leased /\ w = NoWorker /\ UNCHANGED <<owner, expired, workerStatus>>
      <3>1. TypeOK'
        BY <1>9, <2>2, SetRowEffect DEF SetStatus, TypeOK
      <3>2. ClaimConsistent' /\ ExpiredIsClaimed'
        BY <1>9, <2>2, SetRowEffect DEF SetStatus, TypeOK, ClaimConsistent, ExpiredIsClaimed
      <3> QED
        BY <3>1, <3>2
    <2>3. CASE s \notin Leased /\ ArchiveClaims(c) /\ SetWorker(w, "idle")
      BY <1>9, <2>3, ArchivingKeepsInv DEF SetStatus
    <2> QED
      BY <1>9, <2>1, <2>2, <2>3 DEF SetStatus
  <1>10. ASSUME NEW w \in Worker, NEW c \in Challenge, NEW s \in Statuses,
                ReleaseClaim(w, c, s)
         PROVE  IInv'
    BY <1>10, ArchivingKeepsInv DEF ReleaseClaim
  <1>11. ASSUME NEW w \in MaybeWorker, NEW c \in Challenge, MarkSolved(w, c) PROVE IInv'
    <2>1. "solved" \in Statuses
      BY DEF Statuses, Parked
    <2> QED
      BY <1>11, <2>1, ArchivingKeepsInv DEF MarkSolved
  <1>12. CASE UNCHANGED queueVars
    BY <1>12 DEF queueVars, TypeOK, ClaimConsistent, ExpiredIsClaimed
  <1> QED
    BY <1>1, <1>2, <1>3, <1>4, <1>5, <1>6, <1>7, <1>8, <1>9, <1>10, <1>11, <1>12
       DEF Next

(* The queue's inductive invariant holds in every reachable state.         *)
THEOREM QueueInvariant == Spec => []IInv
  BY InitEstablishesInv, StepKeepsInv, PTL DEF Spec

(* Type correctness of the three tables.                                   *)
THEOREM TypeCorrect == Spec => []TypeOK
  <1>1. IInv => TypeOK
    BY DEF IInv
  <1> QED
    BY <1>1, QueueInvariant, PTL

(* No challenge keeps a claim once a verdict parked or requeued it.        *)
THEOREM ClaimsMatchStatuses == Spec => []ClaimConsistent
  <1>1. IInv => ClaimConsistent
    BY DEF IInv
  <1> QED
    BY <1>1, QueueInvariant, PTL

-----------------------------------------------------------------------------
(* Every operation but claim_next_challenge leaves a claim where it is or  *)
(* deletes it.                                                             *)
LEMMA OnlyClaimMoves ==
  ASSUME IInv, [Next]_queueVars, NEW c \in Challenge,
         Claimed(c), owner'[c] # NoWorker, owner'[c] # owner[c]
  PROVE  \E w \in Worker, d \in Challenge : ClaimNext(w, d)
  <1> SUFFICES ASSUME ~\E w \in Worker, d \in Challenge : ClaimNext(w, d)
               PROVE  owner'[c] \in {owner[c], NoWorker}
    OBVIOUS
  <1> USE DEF IInv, TypeOK
  <1>1. ASSUME NEW w \in Worker,
               RegisterWorker(w) \/ ClaimNone(w) \/ (\E d \in Challenge : HeartbeatClaim(w, d))
        PROVE  owner' = owner
    BY <1>1 DEF RegisterWorker, ClaimNone, HeartbeatClaim
  <1>2. ASSUME NEW d \in Challenge,
               (\E p \in Priority : AddManual(d, p)) \/ Ingested(d) \/ Expire(d)
        PROVE  owner' = owner
    BY <1>2 DEF AddManual, Ingested, Expire
  <1>3. ASSUME NEW S \in SUBSET Challenge, UpsertPlatform(S) PROVE owner' = owner
    BY <1>3 DEF UpsertPlatform
  <1>4. CASE ReclaimStale
    BY <1>4, ReclaimEffect DEF ReclaimStale
  <1>5. ASSUME NEW w \in MaybeWorker, NEW d \in Challenge, NEW s \in Statuses,
               SetStatus(w, d, s) \/ ReleaseClaim(w, d, s) \/ MarkSolved(w, d)
        PROVE  owner'[c] \in {owner[c], NoWorker}
    BY <1>5 DEF SetStatus, ReleaseClaim, MarkSolved, ArchiveClaims
  <1>6. "solved" \in Statuses
    BY DEF Statuses, Parked
  <1> QED
    BY <1>1, <1>2, <1>3, <1>4, <1>5, <1>6 DEF Next, queueVars

(* A claim passes to another worker only in the reclaim of ClaimNext.      *)
LEMMA HandoverStep ==
  ASSUME IInv, [Next]_queueVars, NEW c \in Challenge,
         Claimed(c), owner'[c] # NoWorker, owner'[c] # owner[c]
  PROVE  expired[c] /\ status[c] \in Leased
  <1>1. PICK w \in Worker, d \in Challenge : ClaimNext(w, d)
    BY OnlyClaimMoves
  <1>2. CASE c = d
    <2>1. OwnerReclaimed[c] = NoWorker
      BY <1>1, <1>2 DEF ClaimNext, FreeToClaim
    <2> QED
      BY <2>1, ReclaimEffect DEF StaleClaims
  <1>3. CASE c # d
    <2>1. owner'[c] = OwnerReclaimed[c]
      BY <1>1, <1>3, ReclaimEffect DEF ClaimNext
    <2> QED
      BY <2>1, ReclaimEffect DEF StaleClaims
  <1> QED
    BY <1>2, <1>3

(* A claim passes to another worker only once its lease had expired and    *)
(* while its challenge was claimed or being solved.                        *)
THEOREM HandoverRule == Spec => HandoverOnlyWhenStale
  <1>1. IInv /\ [Next]_queueVars
          => \A c \in Challenge :
               Claimed(c) /\ owner[c]' # NoWorker /\ owner[c]' # owner[c]
                 => expired[c] /\ status[c] \in Leased
    BY HandoverStep
  <1> QED
    BY <1>1, QueueInvariant, PTL DEF Spec, HandoverOnlyWhenStale
-----------------------------------------------------------------------------
(* The refinement, one lemma for the initial states and one for a step.    *)
LEMMA LeaseInitially == Init => Lease!LeaseInit
  BY DEF Init, Lease!LeaseInit

(* Deleting the claim of one challenge is Return.                          *)
LEMMA ArchiveReturns ==
  ASSUME NEW c \in Challenge, ArchiveClaims(c)
  PROVE  Lease!LeaseNext
  <1>1. Lease!Return(c)
    BY DEF ArchiveClaims, Lease!Return
  <1> QED
    BY <1>1 DEF Lease!LeaseNext

(* A heartbeat by w renews the claim if w holds it and is void otherwise.  *)
LEMMA HeartbeatRenews ==
  ASSUME IInv, NEW w \in Worker, NEW c \in Challenge, UNCHANGED owner,
         expired' = [expired EXCEPT ![c] = @ /\ owner[c] # w]
  PROVE  [Lease!LeaseNext]_(Lease!leaseVars)
  <1>1. CASE owner[c] = w
    <2>1. Lease!Renew(c)
      BY <1>1 DEF Lease!Renew, Lease!Free, IInv, TypeOK
    <2> QED
      BY <2>1 DEF Lease!LeaseNext
  <1>2. CASE owner[c] # w
    BY <1>2 DEF Lease!leaseVars, IInv, TypeOK
  <1> QED
    BY <1>1, <1>2

LEMMA LeaseStep == IInv /\ [Next]_queueVars => [Lease!LeaseNext]_(Lease!leaseVars)
  <1> SUFFICES ASSUME IInv, [Next]_queueVars PROVE [Lease!LeaseNext]_(Lease!leaseVars)
    OBVIOUS
  <1> DEFINE Stutter == UNCHANGED Lease!leaseVars
  <1>1. ASSUME NEW w \in Worker, RegisterWorker(w) \/ ClaimNone(w) PROVE Stutter
    BY <1>1 DEF RegisterWorker, ClaimNone, Lease!leaseVars
  <1>2. ASSUME NEW c \in Challenge, (\E p \in Priority : AddManual(c, p)) \/ Ingested(c)
        PROVE  Stutter
    BY <1>2 DEF AddManual, Ingested, Lease!leaseVars
  <1>3. ASSUME NEW S \in SUBSET Challenge, UpsertPlatform(S) PROVE Stutter
    BY <1>3 DEF UpsertPlatform, Lease!leaseVars
  <1>4. ASSUME NEW c \in Challenge, Expire(c) PROVE Lease!LeaseNext
    <2>1. Lease!Lapse(c)
      BY <1>4 DEF Expire, Lease!Lapse, Lease!Free
    <2> QED
      BY <2>1 DEF Lease!LeaseNext
  <1>5. CASE ReclaimStale
    <2>1. \A c \in StaleClaims : ~Lease!Free(c) /\ expired[c]
      BY DEF StaleClaims, Lease!Free
    <2>2. Lease!Revoke(StaleClaims)
      BY <1>5, <2>1 DEF ReclaimStale, OwnerReclaimed, Reset, Lease!Revoke, IInv, TypeOK
    <2>3. StaleClaims \in SUBSET Challenge
      BY DEF StaleClaims
    <2> QED
      BY <2>2, <2>3 DEF Lease!LeaseNext
  <1>6. ASSUME NEW w \in Worker, NEW c \in Challenge, ClaimNext(w, c) PROVE Lease!LeaseNext
    <2>1. \A d \in StaleClaims : ~Lease!Free(d) /\ expired[d]
      BY DEF StaleClaims, Lease!Free
    <2>2. Lease!Free(c) \/ c \in StaleClaims
      BY <1>6, ReclaimEffect DEF ClaimNext, FreeToClaim, Lease!Free
    <2>3. owner' = [d \in Challenge |-> IF d = c THEN w
                                        ELSE IF d \in StaleClaims THEN NoWorker ELSE owner[d]]
      BY <1>6 DEF ClaimNext, OwnerReclaimed, Reset, IInv, TypeOK
    <2>4. expired' = [d \in Challenge |-> IF d = c \/ d \in StaleClaims THEN FALSE
                                          ELSE expired[d]]
      BY <1>6 DEF ClaimNext, Reset, IInv, TypeOK
    <2>5. Lease!Grant(w, c, StaleClaims)
      BY <2>1, <2>2, <2>3, <2>4 DEF Lease!Grant
    <2>6. StaleClaims \in SUBSET Challenge
      BY DEF StaleClaims
    <2> QED
      BY <2>5, <2>6 DEF Lease!LeaseNext
  <1>7. ASSUME NEW w \in Worker, NEW c \in Challenge, HeartbeatClaim(w, c)
        PROVE  [Lease!LeaseNext]_(Lease!leaseVars)
    BY <1>7, HeartbeatRenews DEF HeartbeatClaim
  <1>8. ASSUME NEW w \in MaybeWorker, NEW c \in Challenge, NEW s \in Statuses,
               SetStatus(w, c, s)
        PROVE  [Lease!LeaseNext]_(Lease!leaseVars)
    <2>1. CASE w \in Worker /\ expired' = [expired EXCEPT ![c] = @ /\ owner[c] # w]
               /\ UNCHANGED owner
      BY <2>1, HeartbeatRenews
    <2>2. CASE UNCHANGED <<owner, expired, workerStatus>>
      BY <2>2 DEF Lease!leaseVars
    <2>3. CASE ArchiveClaims(c)
      BY <2>3, ArchiveReturns
    <2> QED
      BY <1>8, <2>1, <2>2, <2>3 DEF SetStatus
  <1>9. ASSUME NEW w \in MaybeWorker, NEW c \in Challenge,
               (\E s \in Statuses : ReleaseClaim(w, c, s)) \/ MarkSolved(w, c)
        PROVE  Lease!LeaseNext
    BY <1>9, ArchiveReturns DEF ReleaseClaim, MarkSolved
  <1>10. CASE UNCHANGED queueVars
    BY <1>10 DEF queueVars, Lease!leaseVars
  <1> QED
    BY <1>1, <1>2, <1>3, <1>4, <1>5, <1>6, <1>7, <1>8, <1>9, <1>10 DEF Next

(* The work queue implements the lease.                                    *)
THEOREM QueueImplementsLease == Spec => LeaseRefined
  BY LeaseInitially, LeaseStep, QueueInvariant, PTL DEF Spec, LeaseRefined, Lease!LeaseSpec
=============================================================================
