---------------------------- MODULE WorkerLoop ----------------------------
(***************************************************************************)
(* The unattended solve loop of ctf_runner/worker_loop.py over the work    *)
(* queue: worker processes that claim a challenge, check the run mode,     *)
(* solve, plan and post flags, and park the challenge; the operator's      *)
(* `platform submit` processes (cli.py), which post flags of their own;    *)
(* the operator's other commands; and the contest platform.  Between two   *)
(* database transactions of one process every other process may run, so    *)
(* each transaction, each read that is used later, and each live post is a *)
(* step of its own.                                                        *)
(***************************************************************************)
EXTENDS SubmitPolicy, RunModeGuard

CONSTANTS
  Worker,            \* ids of the worker processes
  Operator,          \* `platform submit` processes of the operator
  Challenge, NoWorker, Priority, PlatformPriority,  \* as in WorkQueue
  Flag,              \* flag-like strings
  Candidates,        \* [Challenge -> SUBSET Flag]: what solvers come up with
  Correct,           \* [Challenge -> Flag]: the flag the platform accepts
  Class,             \* [Flag -> Classes]: their confidence class
  RunMode,           \* CTF_RUN_MODE of the processes
  Options,           \* the command-line switches they were started with
  PlatformKind,      \* target kind of the platform's challenges
  ProfilePolicy,     \* the platform profile's policy
  Adapter,           \* its adapter is "ready", "refuses" for want of settings, or "none"
  Policy,            \* the submit policy
  StopWhenEmpty,     \* the workers run with --stop-when-empty (the default)
  Mortal,            \* the workers that may crash
  InitialSource,     \* sources a challenge may have at the start, "none" without a row
  Disturbances       \* what the environment does, see Environment below

ASSUME WorkerLoopAssumption ==
  /\ NoWorker \notin Worker /\ Worker \cap Operator = {} /\ "none" \notin Challenge
  /\ Priority \subseteq Nat /\ PlatformPriority \in Priority /\ IsFiniteSet(Flag)
  /\ Correct \in [Challenge -> Flag] /\ Candidates \in [Challenge -> SUBSET Flag]
  /\ Class \in [Flag -> Classes]
  /\ RunMode \in RunModes /\ PlatformKind \in TargetKinds /\ Policy \in PolicyType
  /\ Adapter \in {"ready", "refuses", "none"}
  /\ Adapter = "ready" => "allow_submission" \in ProfilePolicy
  /\ Mortal \subseteq Worker /\ StopWhenEmpty \in BOOLEAN
  /\ InitialSource \in [Challenge -> SUBSET {"none", "manual", "platform"}]

VARIABLES
  status, source, priority, owner, expired, workerStatus,  \* see WorkQueue
  submissions,  \* table submissions: [Challenge -> [Flag -> RowStatuses]]
  armed,        \* contest flags {"contest_armed", "allow_live_submit"} in force
  pc, job, mem, \* control state, challenge and locals of each process
  posts,        \* [Challenge -> [Flag -> 0..2]]: live posts, 2 = two or more
  credited,     \* challenges the platform has credited
  contended,    \* challenges taken from a live worker or posted to beside it
  unanswered,   \* <<challenge, flag>> posted without a verdict being recorded
  orphaned      \* challenges claimed by a worker that crashed since

Q == INSTANCE WorkQueue

Process == Worker \cup Operator
queueVars  == <<status, source, priority, owner, expired, workerStatus>>
ghosts     == <<posts, credited, contended, unanswered, orphaned>>
vars == <<queueVars, submissions, armed, pc, job, mem, ghosts>>

AtRest(p) == pc[p] \in {"idle", "off", "down"}
NoJob == "none"
InUse(c) == \E p \in Process : job[p] = c
Rest(p) == IF p \in Worker THEN "idle" ELSE "off"

\* The locals of run_worker_once and _cmd_platform_submit that outlive a step.
\* A solver's output is not fixed when it returns but revealed as it is used:
\* "todo" holds the candidates that may still come, and the worker may stop at
\* any time; "outcome" is what _final_status would make of the plans so far.
Blank == [kind |-> "none", flags |-> {}, live |-> FALSE, todo |-> {},
          previous |-> {}, solved |-> FALSE, outcome |-> "stalled",
          sent |-> "none", reply |-> "none", row |-> "none"]

Init ==
  /\ source \in {s \in [Challenge -> {"none", "manual", "platform"}] :
                   \A c \in Challenge : s[c] \in InitialSource[c]}
  /\ status = [c \in Challenge |-> CASE source[c] = "none"   -> "absent"
                                     [] source[c] = "manual" -> "queued"
                                     [] OTHER                -> "new"]
  /\ priority = [c \in Challenge |-> PlatformPriority]
  /\ owner = [c \in Challenge |-> NoWorker]
  /\ expired = [c \in Challenge |-> FALSE]
  /\ workerStatus = [w \in Worker |-> "unregistered"]
  /\ submissions = [c \in Challenge |-> [f \in Flag |-> "none"]]
  /\ armed = {"contest_armed", "allow_live_submit"}
  /\ pc = [p \in Process |-> Rest(p)]
  /\ job = [p \in Process |-> NoJob]
  /\ mem = [p \in Process |-> Blank]
  /\ posts = [c \in Challenge |-> [f \in Flag |-> 0]]
  /\ credited = {} /\ contended = {} /\ unanswered = {} /\ orphaned = {}
-----------------------------------------------------------------------------
(* Steps of a process.                                                     *)

Goto(p, l) == pc' = [pc EXCEPT ![p] = l]

\* Faulty: the process forgets to drop its challenge.
LeaveLate(p) == /\ pc' = [pc EXCEPT ![p] = Rest(p)]
                /\ mem' = [mem EXCEPT ![p] = Blank]
                /\ UNCHANGED job

Leave(p) == /\ pc' = [pc EXCEPT ![p] = Rest(p)]
            /\ job' = [job EXCEPT ![p] = NoJob]
            /\ mem' = [mem EXCEPT ![p] = Blank]

\* target_kind_for_challenge: only rows inserted by a sync count as the platform's.
TargetKind(c) == IF source[c] = "platform" THEN PlatformKind ELSE "local"

\* The claims the reclaim inside claim_next_challenge takes from live workers.
Usurped == {c \in Q!StaleClaims : job[owner[c]] = c}

ClaimChallenge(w) == \E c \in Challenge :
  /\ pc[w] = "idle"
  /\ Q!ClaimNext(w, c)
  /\ Goto(w, "claimed")
  /\ job' = [job EXCEPT ![w] = c]
  /\ mem' = [mem EXCEPT ![w].kind = TargetKind(c)]
  /\ orphaned' = orphaned \ {c}
  /\ contended' = contended \cup Usurped \cup {d \in {c} : \E o \in Operator : job[o] = d}
  /\ UNCHANGED <<submissions, armed, posts, credited, unanswered>>

\* run_worker_forever ends at the first empty answer, or asks again after a pause.
ClaimNothing(w) ==
  /\ pc[w] = "idle"
  /\ Q!ClaimNone(w)
  /\ Goto(w, IF StopWhenEmpty THEN "down" ELSE "idle")
  /\ UNCHANGED <<submissions, armed, job, mem, ghosts>>

\* contest_guard_flags is read once and used for the whole run.
ReadFlags(w) ==
  /\ pc[w] = "claimed"
  /\ Goto(w, "guard")
  /\ mem' = [mem EXCEPT ![w].flags = Options \cup armed]
  /\ UNCHANGED <<queueVars, submissions, armed, job, ghosts>>

MaySolve(w) ==
  ActionAllowed(RunMode, "real_challenge_solve", mem[w].kind, mem[w].flags, {})

\* --live-submit takes effect only if the guard agrees and --confirm-submit is set.
MaySubmit(kind, flags) ==
  /\ "live_submit" \in Options /\ "confirm_submit" \in Options
  /\ ActionAllowed(RunMode, "live_submit", kind, flags, ProfilePolicy)

BlockByMode(w) ==
  /\ pc[w] = "guard" /\ ~MaySolve(w)
  /\ Q!SetStatus(w, job[w], "blocked_by_mode")
  /\ Leave(w)
  /\ UNCHANGED <<submissions, armed, ghosts>>

StartSolving(w) ==
  /\ pc[w] = "guard" /\ MaySolve(w)
  /\ Q!SetStatus(w, job[w], "solving")
  /\ Goto(w, "solving")
  /\ UNCHANGED <<submissions, armed, job, mem, ghosts>>

SolverDone(w) ==
  /\ pc[w] = "solving"
  /\ Q!HeartbeatClaim(w, job[w])
  /\ Goto(w, "listing")
  /\ mem' = [mem EXCEPT ![w] = [Blank EXCEPT !.todo = Candidates[job[w]],
                                             !.live = MaySubmit(mem[w].kind, mem[w].flags)]]
  /\ UNCHANGED <<submissions, armed, job, ghosts>>

ListSubmissions(p) ==
  /\ pc[p] = "listing"
  /\ Goto(p, "reading")
  /\ mem' = [mem EXCEPT ![p].previous = Listed(submissions[job[p]])]
  /\ UNCHANGED <<queueVars, submissions, armed, job, ghosts>>

ReadState(p) ==
  /\ pc[p] = "reading"
  /\ Goto(p, IF p \in Worker THEN "planning" ELSE "permission")
  /\ mem' = [mem EXCEPT ![p].solved = status[job[p]] = "solved"]
  /\ UNCHANGED <<queueVars, submissions, armed, job, ghosts>>

\* The operator vouches for the flag: it is of high confidence unless fake.
ClassFor(p, f) == IF p \in Operator /\ Class[f] = "medium" THEN "high" ELSE Class[f]

\* should_submit; whether the cooldown is still running is left open.
Decision(p, f, cooling) ==
  ShouldSubmit(Policy, f, ClassFor(p, f), mem[p].previous, mem[p].solved, cooling)

\* Faulty: a throttled attempt is taken for an acceptance.
OutcomeLenient(old, s) == CASE s \in {"accepted", "rate_limited"} -> "solved"
                            [] s = "planned" /\ old # "solved" -> "submit_planned"
                            [] OTHER -> old

\* The best plan so far decides; a refused or rejected one changes nothing.
Outcome(old, s) == CASE s = "accepted" -> "solved"
                     [] s = "planned" /\ old # "solved" -> "submit_planned"
                     [] OTHER -> old

\* record_submission_attempt, first half: the row is read outside a transaction.
ReadRow(p, f, s) ==
  /\ Goto(p, "recording")
  /\ mem' = [mem EXCEPT ![p].sent = f, ![p].reply = s, ![p].row = submissions[job[p]][f]]

Posted(p, f, cooling) == mem[p].live /\ Decision(p, f, cooling) /\ Adapter = "ready"

\* The candidate is not posted.  A worker's is planned when submit is not live
\* or there is no platform, blocked when refused by the policy or the adapter;
\* an operator's without --live is planned whatever the policy says.
Plan(p, f, cooling) ==
  IF \/ p \in Worker /\ Decision(p, f, cooling) /\ (mem[p].live => Adapter = "none")
     \/ p \in Operator /\ "live_submit" \notin Options
  THEN "planned" ELSE "blocked"

PlanFlag(p) == \E f \in mem[p].todo, cooling \in BOOLEAN :
  /\ pc[p] = "planning"
  /\ ~Posted(p, f, cooling)
  /\ ReadRow(p, f, Plan(p, f, cooling))
  /\ UNCHANGED <<queueVars, submissions, armed, job, ghosts>>

\* The platform has credited the challenge, perhaps in an answer that was lost.
Granted(c) == c \in credited \/ <<c, Correct[c]>> \in unanswered

\* The platform's verdict, or none: it throttles, or the answer makes no sense.
\* Once it has credited the challenge it may call it already solved whatever the
\* flag, which the adapter takes for an acceptance.
Replies(c, f) ==
  {"rate_limited", "unknown"}
    \cup (IF f = Correct[c] \/ Granted(c) THEN {"accepted"} ELSE {})
    \cup (IF f = Correct[c] THEN {} ELSE {"rejected"})

PostFlag(p) == \E f \in mem[p].todo, cooling \in BOOLEAN :
  LET c == job[p] IN
  /\ pc[p] = "planning"
  /\ Posted(p, f, cooling)
  /\ Goto(p, "posted")
  /\ \E r \in Replies(c, f) :
       /\ mem' = [mem EXCEPT ![p].sent = f, ![p].reply = r]
       /\ credited' = IF r = "accepted" THEN credited \cup {c} ELSE credited
       /\ unanswered' = IF r = "unknown" THEN unanswered \cup {<<c, f>>} ELSE unanswered
  /\ posts' = [posts EXCEPT ![c][f] = IF @ < 2 THEN @ + 1 ELSE 2]
  /\ UNCHANGED <<queueVars, submissions, armed, job, contended, orphaned>>

RecordReply(p) ==
  /\ pc[p] = "posted"
  /\ ReadRow(p, mem[p].sent, IF mem[p].reply = "unknown" THEN "blocked" ELSE mem[p].reply)
  /\ UNCHANGED <<queueVars, submissions, armed, job, ghosts>>

\* Its second half, and previous.append: the row is written as the first half
\* found it, and an INSERT fails (see Fail) when it has appeared since.
\* A verdict on file makes a plan no write, and is what is appended.
Record(p) ==
  LET c == job[p]
      f == mem[p].sent
      new == Recorded(mem[p].row, mem[p].reply)
  IN /\ pc[p] = "recording"
     /\ mem[p].row = "none" => submissions[c][f] = "none"
     /\ submissions' = IF new = mem[p].reply THEN [submissions EXCEPT ![c][f] = new]
                       ELSE submissions
     /\ mem' = [mem EXCEPT ![p].todo = @ \ {f},
                           ![p].previous = @ \cup {[flag |-> f, status |-> new, fresh |-> TRUE]},
                           ![p].outcome = Outcome(@, mem[p].reply),
                           ![p].sent = "none", ![p].reply = "none", ![p].row = "none"]
     /\ Goto(p, "planning")
     /\ UNCHANGED <<queueVars, armed, job, ghosts>>

Planned(p) == pc[p] = "planning" /\ (p \in Operator => mem[p].todo = {})

\* A solver that reports STATUS: error beside its candidates parks the challenge
\* as "error" whatever became of them (_final_status asks for that first).
Park(w) == \E s \in {mem[w].outcome, "error"} :
  /\ Planned(w) /\ s # "solved"
  /\ Q!SetStatus(w, job[w], s)
  /\ Leave(w)
  /\ UNCHANGED <<submissions, armed, ghosts>>

ParkSolved(w) ==
  /\ Planned(w) /\ mem[w].outcome = "solved"
  /\ Q!MarkSolved(w, job[w])
  /\ Goto(w, "postsolve")
  /\ mem' = [mem EXCEPT ![w] = Blank]
  /\ UNCHANGED <<submissions, armed, job, ghosts>>

PostsolveDone(w) ==
  /\ pc[w] = "postsolve"
  /\ Leave(w)
  /\ UNCHANGED <<queueVars, submissions, armed, ghosts>>

\* Every exception inside run_worker_once's try ends here.
PostLost(p) ==
  IF pc[p] = "posted" \/ (pc[p] = "recording" /\ mem[p].reply \in Terminal)
  THEN unanswered \cup {<<job[p], mem[p].sent>>} ELSE unanswered

Failing == {"guard", "solving", "listing", "reading", "planning", "posted", "recording",
            "postsolve"}

\* Faulty: the handler gives up without touching the database.
FailSilently(w) ==
  /\ pc[w] \in Failing
  /\ Leave(w)
  /\ unanswered' = PostLost(w)
  /\ UNCHANGED <<queueVars, submissions, armed, posts, credited, contended, orphaned>>

Fail(w) ==
  /\ pc[w] \in Failing
  /\ Q!SetStatus(w, job[w], "error")
  /\ Leave(w)
  /\ unanswered' = PostLost(w)
  /\ UNCHANGED <<submissions, armed, posts, credited, contended, orphaned>>
-----------------------------------------------------------------------------
(* The operator's `platform submit`, which shares ListSubmissions,         *)
(* ReadState, PlanFlag, PostFlag, RecordReply and Record with the workers. *)

SubmitFlag(o) == \E c \in Challenge, f \in Flag :
  /\ pc[o] = "off" /\ "submit" \in Disturbances
  /\ Goto(o, "listing")
  /\ job' = [job EXCEPT ![o] = c]
  /\ mem' = [mem EXCEPT ![o].todo = {f}, ![o].kind = PlatformKind]
  /\ contended' = IF InUse(c) THEN contended \cup {c} ELSE contended
  /\ UNCHANGED <<queueVars, submissions, armed, posts, credited, unanswered, orphaned>>

CheckPermission(o) ==
  /\ pc[o] = "permission"
  /\ Goto(o, "planning")
  /\ mem' = [mem EXCEPT ![o].live = MaySubmit(mem[o].kind, Options \cup armed)]
  /\ UNCHANGED <<queueVars, submissions, armed, job, ghosts>>

SubmitAccepted(o) ==
  /\ Planned(o) /\ mem[o].outcome = "solved"
  /\ Q!MarkSolved(NoWorker, job[o])
  /\ Goto(o, "rerecord")
  /\ UNCHANGED <<submissions, armed, job, mem, ghosts>>

\* update_challenge_solved records the acceptance once more, in a second transaction.
RecordAccepted(o) == \E e \in mem[o].previous :
  /\ pc[o] = "rerecord" /\ e.fresh
  /\ submissions' = [submissions EXCEPT ![job[o]][e.flag] = "accepted"]
  /\ Leave(o)
  /\ UNCHANGED <<queueVars, armed, ghosts>>

SubmitEnds(o) ==
  /\ Planned(o) /\ mem[o].outcome # "solved"
  /\ Leave(o)
  /\ UNCHANGED <<queueVars, submissions, armed, ghosts>>
-----------------------------------------------------------------------------
(* The environment, as far as Disturbances lets it act.                    *)

Disturb(d) == d \in Disturbances /\ UNCHANGED <<pc, job, mem>>

Crash(p) ==
  /\ "crash" \in Disturbances /\ p \in Mortal \cup Operator /\ ~AtRest(p)
  /\ pc' = [pc EXCEPT ![p] = IF p \in Worker THEN "down" ELSE "off"]
  /\ job' = [job EXCEPT ![p] = NoJob]
  /\ mem' = [mem EXCEPT ![p] = Blank]
  /\ unanswered' = PostLost(p)
  /\ orphaned' = IF owner[job[p]] = p THEN orphaned \cup {job[p]} ELSE orphaned
  /\ UNCHANGED <<queueVars, submissions, armed, posts, credited, contended>>

\* The supervisor starts a worker that ended again, under the same worker id.
Restart(w) ==
  /\ "restart" \in Disturbances /\ pc[w] = "down"
  /\ Goto(w, "idle")
  /\ UNCHANGED <<queueVars, submissions, armed, job, mem, ghosts>>

\* stale_after_sec passes: always for a dead worker's claim, for a live one's
\* only if it may be that slow (the solver's timeout is as long as the lease).
LeaseExpires(c) ==
  /\ Q!Claimed(c) /\ (job[owner[c]] = c => "slow" \in Disturbances)
  /\ Q!Expire(c)
  /\ UNCHANGED <<submissions, armed, pc, job, mem, ghosts>>

Sync == /\ Disturb("sync")
        /\ \E S \in SUBSET Challenge : Q!UpsertPlatform(S)
        /\ UNCHANGED <<submissions, armed, ghosts>>

QueueAdd(c, p) == /\ Disturb("manual")
                  /\ Q!AddManual(c, p)
                  /\ UNCHANGED <<submissions, armed, ghosts>>

\* A worker in postsolve has no claim any more, so its challenge can be claimed.
Ingest(c) ==
  /\ Disturb("ingest")
  /\ Q!Ingested(c)
  /\ contended' = IF ~Q!Claimed(c) /\ InUse(c) THEN contended \cup {c} ELSE contended
  /\ UNCHANGED <<submissions, armed, posts, credited, unanswered, orphaned>>

QueueRelease(w, c, s) ==
  /\ Disturb("release")
  /\ Q!ReleaseClaim(w, c, s)
  /\ contended' = IF InUse(c) THEN contended \cup {c} ELSE contended
  /\ UNCHANGED <<submissions, armed, posts, credited, unanswered, orphaned>>

Arm == /\ Disturb("arm")
       /\ armed' \in {{"contest_armed"}, {"contest_armed", "allow_live_submit"}}
       /\ UNCHANGED <<queueVars, submissions, ghosts>>

Disarm == /\ Disturb("arm")
          /\ armed' = {}
          /\ UNCHANGED <<queueVars, submissions, ghosts>>
-----------------------------------------------------------------------------
SubmitStep(p) == ListSubmissions(p) \/ ReadState(p) \/ PlanFlag(p) \/ PostFlag(p)
                 \/ RecordReply(p) \/ Record(p)

WorkerStep(w) == \/ ClaimChallenge(w) \/ ClaimNothing(w) \/ ReadFlags(w)
                 \/ BlockByMode(w) \/ StartSolving(w) \/ SolverDone(w)
                 \/ SubmitStep(w) \/ Park(w) \/ ParkSolved(w) \/ PostsolveDone(w)

OperatorStep(o) == \/ SubmitFlag(o) \/ SubmitStep(o) \/ CheckPermission(o)
                   \/ SubmitAccepted(o) \/ RecordAccepted(o) \/ SubmitEnds(o)

Environment ==
  \/ \E p \in Process : Crash(p)
  \/ \E w \in Worker : Fail(w) \/ Restart(w)
  \/ Sync \/ Arm \/ Disarm
  \/ \E c \in Challenge : LeaseExpires(c) \/ Ingest(c)
  \/ \E c \in Challenge, p \in Priority : QueueAdd(c, p)
  \/ \E w \in Worker, c \in Challenge, s \in Q!Statuses : QueueRelease(w, c, s)

Next == \/ \E w \in Worker : WorkerStep(w)
        \/ \E o \in Operator : OperatorStep(o)
        \/ Environment

Spec == Init /\ [][Next]_vars

(* Fairness: a worker process that has not crashed is scheduled, its       *)
(* solver returns (it runs under a timeout) and the platform answers (the  *)
(* HTTP client has one); the clock reaches the cutoff of a dead worker's   *)
(* claim.  Nothing is assumed of the operator, of crashes or of failures.  *)
FairSpec == /\ Spec
            /\ \A w \in Worker : WF_vars(WorkerStep(w))
            /\ \A c \in Challenge : WF_vars(LeaseExpires(c))
-----------------------------------------------------------------------------
Labels == {"idle", "claimed", "guard", "solving", "listing", "reading", "planning",
           "posted", "recording", "postsolve", "down", "off", "permission", "rerecord"}
Entries == [flag : Flag, status : RowStatuses, fresh : BOOLEAN]

(* Every process is at a known point of run_worker_once (or of             *)
(* _cmd_platform_submit) and has a challenge exactly when it is not at     *)
(* rest; the queue tables and the submissions table are well-typed.        *)
TypeOK ==
  /\ Q!TypeOK
  /\ submissions \in [Challenge -> [Flag -> RowStatuses]]
  /\ armed \subseteq {"contest_armed", "allow_live_submit"}
  /\ pc \in [Process -> Labels]
  /\ \A p \in Process : job[p] \in IF AtRest(p) THEN {NoJob} ELSE Challenge
  /\ \A p \in Process : /\ mem[p].todo \subseteq Flag /\ mem[p].previous \subseteq Entries
                         /\ mem[p].outcome \in {"stalled", "submit_planned", "solved"}

(* Two workers never work on one challenge unless a live worker's lease    *)
(* was taken by a stale reclaim, or while it was being worked on the       *)
(* operator released the challenge, submitted a flag for it, or ingested   *)
(* it again during postsolve.  Neither a sync nor an ingest during the     *)
(* solve, nor a crash and restart under the same worker id, hands a        *)
(* challenge out twice.                                                    *)
Exclusive ==
  \A v, w \in Worker : v # w /\ job[v] = job[w] /\ job[v] # NoJob => job[v] \in contended

(* Every way out of run_worker_once gives the claim back: blocked by mode, *)
(* parked, solved, an exception at any point, also after the claim passed  *)
(* to somebody else.  Only a crash leaves a claim without a worker, and    *)
(* until the challenge is claimed again the property says no more of it.   *)
NoLeakedClaim ==
  \A c \in Challenge : Q!Claimed(c) => job[owner[c]] = c \/ c \in orphaned

(* A challenge shown as claimed or solving has an active claim, so that it *)
(* is either being worked on or can be reclaimed.  (Beside a contender it  *)
(* may not: the first to finish deletes the other's claim.)                *)
LeasedIsClaimed ==
  \A c \in Challenge : status[c] \in Q!Leased => Q!Claimed(c) \/ c \in contended

(* The state database never claims more than the platform granted: a       *)
(* solved challenge was credited, a flag on record as accepted or rejected *)
(* was posted for that challenge, the accepted one belongs to a credited   *)
(* challenge and the rejected one is not its flag.  (An accepted flag need *)
(* not be the right one: a solved challenge may accept any.)               *)
NothingInvented ==
  \A c \in Challenge :
    /\ status[c] = "solved" => c \in credited
    /\ \A f \in Flag :
         /\ submissions[c][f] = "accepted" => c \in credited /\ posts[c][f] > 0
         /\ submissions[c][f] = "rejected" => f # Correct[c] /\ posts[c][f] > 0

(* A flag the platform has judged keeps a verdict in the ledger, whatever  *)
(* planned, blocked or repeated attempts are recorded for it later: a      *)
(* lost verdict would let the flag be posted again.  (Two processes that   *)
(* record one flag at once may lose it: the row is read before it is       *)
(* written, with no transaction around the two.)                           *)
VerdictsKept ==
  \A c \in Challenge \ contended, f \in Flag :
    posts[c][f] > 0 /\ submissions[c][f] \notin Terminal
      => \/ <<c, f>> \in unanswered
         \/ \E p \in Process : /\ pc[p] \in {"posted", "recording"}
                               /\ job[p] = c /\ mem[p].sent = f

(* No flag is posted twice for a challenge, over any number of runs,       *)
(* crashes and re-ingests, unless two processes contended for the          *)
(* challenge, the first post's verdict never reached the ledger, or the    *)
(* policy does not ask for it (duplicate_detection is not "sha256").       *)
NoDuplicatePost ==
  \A c \in Challenge, f \in Flag :
    Policy.dedupe /\ posts[c][f] > 1 => c \in contended \/ <<c, f>> \in unanswered

(* Never more rejected flags for a challenge than max_wrong_per_challenge, *)
(* over all runs and workers, unless they contended for it.                *)
WrongLimitKept ==
  \A c \in Challenge :
    Policy.maxWrong >= 0 /\ c \notin contended
      => Cardinality({f \in Flag : submissions[c][f] = "rejected"}) <= Policy.maxWrong

(* A solved challenge stays solved, beside workers whose runs began before *)
(* it was and syncs that do not know it: only an ingest, a release by the  *)
(* operator while nobody works on it, and an exception that its own worker *)
(* meets in postsolve open it again, unless processes contended for it.    *)
Reopened(c) ==
  \/ c \in contended'
  \/ Ingest(c)
  \/ \E w \in Worker, s \in Q!Statuses : ~InUse(c) /\ QueueRelease(w, c, s)
  \/ \E w \in Worker : job[w] = c /\ pc[w] = "postsolve" /\ Fail(w)

SolvedSticks ==
  [][\A c \in Challenge : status[c] = "solved" /\ status[c]' # "solved" => Reopened(c)]_vars
-----------------------------------------------------------------------------
(* Liveness, under FairSpec.                                               *)

(* As long as one worker survives, every challenge that can be claimed is  *)
(* eventually parked with some verdict, also when the other workers crash  *)
(* while they hold it.  (The workers run with --no-stop-when-empty, and    *)
(* nobody syncs or ingests meanwhile: see ClaimComesBack.)                 *)
EveryChallengeParked ==
  \A c \in Challenge : status[c] \in Q!Claimable ~> status[c] \in Q!Parked

(* Heartbeats and stale_after_sec give a crashed worker's claim back: it   *)
(* does not stay with its dead owner for ever (docs/threat-model.md, stale *)
(* worker ownership).                                                      *)
Dead(c) == Q!Claimed(c) /\ job[owner[c]] # c
ClaimComesBack == \A c \in Challenge : Dead(c) ~> ~Dead(c)
-----------------------------------------------------------------------------
(* What the documents say of the loop, see the findings in the README.     *)

(* Workers look at the already-solved state before a live submit           *)
(* (docs/threat-model.md, duplicate submit race): nothing is posted for a  *)
(* challenge that has an accepted flag on record.                          *)
NoPostAfterAcceptance ==
  [][\A c \in Challenge : posts[c]' # posts[c] =>
       \A f \in Flag : submissions[c][f] # "accepted"]_vars

(* Setup and rehearsal block real live submit before the platform's code   *)
(* is called (docs/threat-model.md, mode confusion).                       *)
LivePostOnlyInCompetition ==
  \A c \in Challenge, f \in Flag :
    posts[c][f] > 0 /\ PlatformKind = "real_platform" => RunMode = "competition"

(* max_wrong_per_challenge blocks after the configured number of rejected  *)
(* attempts (docs/submit-policy.md), and not before: a candidate that      *)
(* nothing else speaks against is not refused while the ledger holds fewer *)
(* rejected attempts.                                                      *)
LimitCountsAttempts ==
  \A p \in Process : LET c == job[p] IN
    pc[p] = "planning" /\ c \notin contended /\ WrongLimitReached(Policy, mem[p].previous)
      => Cardinality({f \in Flag : submissions[c][f] = "rejected"}) >= Policy.maxWrong
===========================================================================
