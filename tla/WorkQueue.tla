----------------------------- MODULE WorkQueue -----------------------------
(***************************************************************************)
(* The SQLite work queue of ctf_runner/state.py: the tables challenges,    *)
(* claims and workers.  Every operation below is one function of state.py; *)
(* each of them changes the database in one transaction, so each is one    *)
(* step.  The specification at the end is the queue's interface: any       *)
(* caller may call any operation with any arguments at any time, which is  *)
(* what the worker processes and the operator's command line do.           *)
(*                                                                         *)
(* Time is abstracted to the one question the code asks of it: "expired"   *)
(* says that a claim's heartbeat_at is older than now - stale_after_sec.   *)
(* created_at, which breaks ties of priority, is abstracted to a choice.   *)
(* Names, points and metadata, and the append-only tables claim_history    *)
(* and events, which no operation reads back, are left out.                *)
(***************************************************************************)
EXTENDS Naturals

CONSTANTS Worker,     \* worker ids
          Challenge,  \* challenge ids
          NoWorker,   \* the owner of an unclaimed challenge; a missing worker_id
          Priority,   \* the priorities in use; the smallest is served first
          PlatformPriority  \* what a challenge inserted by a sync gets

ASSUME WorkQueueAssumption == /\ NoWorker \notin Worker
                              /\ Priority \subseteq Nat
                              /\ PlatformPriority \in Priority

VARIABLES
  status,       \* challenges.status, "absent" when there is no row
  source,       \* challenges.source, "none" when there is no row
  priority,     \* challenges.priority
  owner,        \* worker_id of the active row of claims for the challenge
  expired,      \* that row's heartbeat_at is beyond the stale cutoff
  workerStatus  \* workers.status

queueVars == <<status, source, priority, owner, expired, workerStatus>>

Claimable == {"new", "queued", "ingest_ready"}
Leased    == {"claimed", "solving"}
Parked    == {"submit_planned", "solved", "stalled", "error",
              "blocked_by_mode", "abandoned"}
Statuses  == Claimable \cup Leased \cup Parked
\* Faulty: a sync that forgets the solved challenges.
KeptButSolved == {"ingest_ready", "solving", "submit_planned", "stalled", "error",
                  "abandoned"}
KeptBySync == {"ingest_ready", "solving", "submit_planned", "solved",
               "stalled", "error", "abandoned"}

Known(c)   == status[c] # "absent"
Claimed(c) == owner[c] # NoWorker

\* f with the value v on the set S.
Reset(f, S, v) == [x \in DOMAIN f |-> IF x \in S THEN v ELSE f[x]]

\* UPDATE workers SET status: nothing happens when the worker has no row.
SetWorker(w, s) ==
  workerStatus' = [x \in Worker |-> IF x = w /\ workerStatus[x] # "unregistered"
                                    THEN s ELSE workerStatus[x]]

Init ==
  /\ status = [c \in Challenge |-> "absent"]
  /\ source = [c \in Challenge |-> "none"]
  /\ priority = [c \in Challenge |-> PlatformPriority]
  /\ owner = [c \in Challenge |-> NoWorker]
  /\ expired = [c \in Challenge |-> FALSE]
  /\ workerStatus = [w \in Worker |-> "unregistered"]
-----------------------------------------------------------------------------
(* The rows of challenges and workers.                                     *)

RegisterWorker(w) ==
  /\ workerStatus' = [workerStatus EXCEPT ![w] = "idle"]
  /\ UNCHANGED <<status, source, priority, owner, expired>>

AddManual(c, p) ==
  /\ status' = [status EXCEPT ![c] = IF Known(c) THEN @ ELSE "queued"]
  /\ source' = [source EXCEPT ![c] = "manual"]
  /\ priority' = [priority EXCEPT ![c] = p]
  /\ UNCHANGED <<owner, expired, workerStatus>>

SyncStatus(c) ==
  IF source[c] = "manual" \/ status[c] \in KeptBySync THEN status[c] ELSE "new"

SyncSource(c) == IF source[c] = "manual" THEN "manual" ELSE "platform"

UpsertPlatform(S) ==
  /\ status' = [c \in Challenge |-> IF c \in S THEN SyncStatus(c) ELSE status[c]]
  /\ source' = [c \in Challenge |-> IF c \in S THEN SyncSource(c) ELSE source[c]]
  /\ priority' = [c \in Challenge |-> IF c \in S /\ ~Known(c) THEN PlatformPriority
                                      ELSE priority[c]]
  /\ UNCHANGED <<owner, expired, workerStatus>>

\* The row is rewritten whatever its status was, and its claim is left alone.
Ingested(c) ==
  /\ Known(c)
  /\ status' = [status EXCEPT ![c] = "ingest_ready"]
  /\ UNCHANGED <<source, priority, owner, expired, workerStatus>>
-----------------------------------------------------------------------------
(* The claims table.                                                       *)

\* Faulty: a reclaim without the cutoff, one that forgets a claim made but not
\* yet worked on, and one that forgets a claim being worked on.
LiveClaims     == {c \in Challenge : Claimed(c) /\ status[c] \in Leased}
StaleSolving   == {c \in Challenge : Claimed(c) /\ expired[c] /\ status[c] = "solving"}
StaleUnstarted == {c \in Challenge : Claimed(c) /\ expired[c] /\ status[c] = "claimed"}

StaleClaims == {c \in Challenge : Claimed(c) /\ expired[c] /\ status[c] \in Leased}

\* Faulty: a reclaim that deletes the claims and leaves the challenges as they are.
StatusUntouched == status

\* _reclaim_stale_claims_conn: the values of the tables once it has run.
StatusReclaimed == Reset(status, StaleClaims, "queued")
OwnerReclaimed  == Reset(owner, StaleClaims, NoWorker)
WorkerReclaimed ==
  Reset(workerStatus,
        {w \in Worker : /\ workerStatus[w] # "unregistered"
                        /\ \E c \in StaleClaims : owner[c] = w},
        "stale")

ReclaimStale ==
  /\ status' = StatusReclaimed
  /\ owner' = OwnerReclaimed
  /\ expired' = Reset(expired, StaleClaims, FALSE)
  /\ workerStatus' = WorkerReclaimed
  /\ UNCHANGED <<source, priority>>

\* Faulty: a selection by status alone, without the claims.
FreeByStatus == {c \in Challenge : StatusReclaimed[c] \in Claimable}

\* What claim_next_challenge selects from, after its own reclaim.
FreeToClaim == {c \in Challenge : /\ StatusReclaimed[c] \in Claimable
                                  /\ OwnerReclaimed[c] = NoWorker}

ClaimNext(w, c) ==
  /\ c \in FreeToClaim
  /\ \A d \in FreeToClaim : priority[c] <= priority[d]
  /\ status' = [StatusReclaimed EXCEPT ![c] = "claimed"]
  /\ owner' = [OwnerReclaimed EXCEPT ![c] = w]
  /\ expired' = [Reset(expired, StaleClaims, FALSE) EXCEPT ![c] = FALSE]
  /\ workerStatus' = [WorkerReclaimed EXCEPT ![w] = "busy"]
  /\ UNCHANGED <<source, priority>>

ClaimNone(w) ==
  /\ FreeToClaim = {}
  /\ workerStatus' = [workerStatus EXCEPT ![w] = "idle"]
  /\ UNCHANGED <<status, source, priority, owner, expired>>

HeartbeatClaim(w, c) ==
  /\ expired' = [expired EXCEPT ![c] = @ /\ owner[c] # w]
  /\ UNCHANGED <<status, source, priority, owner, workerStatus>>

\* _archive_claims
ArchiveClaims(c) == /\ owner' = [owner EXCEPT ![c] = NoWorker]
                    /\ expired' = [expired EXCEPT ![c] = FALSE]

\* UPDATE challenges SET status: nothing happens when the challenge has no row.
SetRow(c, s) == status' = [status EXCEPT ![c] = IF Known(c) THEN s ELSE @]

\* update_challenge_status: nobody asks whether w still owns c.
SetStatus(w, c, s) ==
  /\ SetRow(c, s)
  /\ UNCHANGED <<source, priority>>
  /\ \/ s \in Leased /\ w \in Worker
        /\ expired' = [expired EXCEPT ![c] = @ /\ owner[c] # w]
        /\ SetWorker(w, "busy")
        /\ UNCHANGED owner
     \/ s \in Leased /\ w = NoWorker
        /\ UNCHANGED <<owner, expired, workerStatus>>
     \/ s \notin Leased
        /\ ArchiveClaims(c)
        /\ SetWorker(w, "idle")

ReleaseClaim(w, c, s) ==
  /\ s \in {"queued", "stalled", "abandoned"}
  /\ ArchiveClaims(c)
  /\ SetRow(c, s)
  /\ SetWorker(w, "idle")
  /\ UNCHANGED <<source, priority>>

\* Faulty: the claim stays.
MarkSolvedOnly(w, c) ==
  /\ SetRow(c, "solved")
  /\ SetWorker(w, "idle")
  /\ UNCHANGED <<source, priority, owner, expired>>

MarkSolved(w, c) ==
  /\ SetRow(c, "solved")
  /\ ArchiveClaims(c)
  /\ SetWorker(w, "idle")
  /\ UNCHANGED <<source, priority>>

\* The passage of stale_after_sec seconds without a heartbeat.
Expire(c) ==
  /\ Claimed(c) /\ ~expired[c]
  /\ expired' = [expired EXCEPT ![c] = TRUE]
  /\ UNCHANGED <<status, source, priority, owner, workerStatus>>
-----------------------------------------------------------------------------
MaybeWorker == Worker \cup {NoWorker}

Next ==
  \/ \E w \in Worker : RegisterWorker(w) \/ ClaimNone(w)
  \/ \E c \in Challenge, p \in Priority : AddManual(c, p)
  \/ \E c \in Challenge : Ingested(c) \/ Expire(c)
  \/ \E S \in SUBSET Challenge : UpsertPlatform(S)
  \/ ReclaimStale
  \/ \E w \in Worker, c \in Challenge : ClaimNext(w, c) \/ HeartbeatClaim(w, c)
  \/ \E w \in MaybeWorker, c \in Challenge, s \in Statuses : SetStatus(w, c, s)
  \/ \E w \in Worker, c \in Challenge, s \in Statuses : ReleaseClaim(w, c, s)
  \/ \E w \in MaybeWorker, c \in Challenge : MarkSolved(w, c)

Spec == Init /\ [][Next]_queueVars
-----------------------------------------------------------------------------
(* Every cell holds a value of its column (state.py, SCHEMA), and a        *)
(* challenge has a status exactly when it has a row.                       *)
TypeOK ==
  /\ status \in [Challenge -> Statuses \cup {"absent"}]
  /\ source \in [Challenge -> {"none", "manual", "platform"}]
  /\ \A c \in Challenge : Known(c) <=> source[c] # "none"
  /\ priority \in [Challenge -> Priority]
  /\ owner \in [Challenge -> MaybeWorker]
  /\ expired \in [Challenge -> BOOLEAN]
  /\ workerStatus \in [Worker -> {"unregistered", "idle", "busy", "stale"}]

(* A claim row never outlives the verdict on its challenge: a challenge    *)
(* whose status is queued or parked has no active claim, although five     *)
(* different functions write the status and only some of them touch the    *)
(* claims table.  A claim left on a parked challenge could neither be      *)
(* reclaimed nor claimed again.                                            *)
ClaimConsistent ==
  \A c \in Challenge : Claimed(c) => status[c] \in Leased \cup {"new", "ingest_ready"}

(* A claim passes from one worker straight to another only when its lease  *)
(* had expired and the challenge was still being worked on: between a      *)
(* heartbeat and the cutoff nobody else can get the challenge through      *)
(* claim_next_challenge, whatever the other callers do to the row.         *)
HandoverOnlyWhenStale ==
  [][\A c \in Challenge :
       Claimed(c) /\ owner[c]' # NoWorker /\ owner[c]' # owner[c]
         => expired[c] /\ status[c] \in Leased]_queueVars

(* The claims table implements the lease of module ClaimLease, whatever    *)
(* the callers do: claim_next_challenge revokes the expired claims and     *)
(* grants one challenge in a single step, and no other operation moves a   *)
(* claim to another worker.                                                *)
Lease == INSTANCE ClaimLease WITH Job <- Challenge, holder <- owner
LeaseRefined == Lease!LeaseSpec
=============================================================================
