----------------------------- MODULE Rehearsal -----------------------------
(***************************************************************************)
(* The rehearsals: full_rehearsal.py with worker processes ("full") or     *)
(* threads ("codex"), multi_worker.run_local_e2e ("e2e") and               *)
(* worker_supervisor.run_supervisor_smoke ("smoke").  Each takes a fake    *)
(* platform up, brings its challenges in, lets workers solve them, tears   *)
(* everything down and reports.  It may be interrupted at any step, or     *)
(* killed, and what it left behind meets the next one.                     *)
(* That a step of the teardown finds all there is to stop is the matter of *)
(* Contest, Resources and DockerPool; here it stops what is listed.        *)
(***************************************************************************)
EXTENDS Naturals, FiniteSets, Sequences

CONSTANTS
  Helper,       \* worker ids: worker-1, ...
  Task, Solvable, NoTask,  \* the fixtures, those the solver solves, none
  Kinds,        \* the rehearsals an operator runs
  MaxParallel,  \* max_parallel: threads that solve at once
  MinSolved,    \* the solved challenges the acceptance criteria ask for
  MaxRuns, MaxKillings, MaxRaises   \* bounds

ASSUME RehearsalAssumption ==
  /\ NoTask \notin Task /\ Solvable \subseteq Task
  /\ Kinds \subseteq {"full", "codex", "e2e", "smoke"}
  /\ MaxParallel \in Nat \ {0} /\ MinSolved \in Nat
  /\ MaxRuns \in Nat /\ MaxKillings \in Nat /\ MaxRaises \in Nat

VARIABLES
  kind, doing,   \* the rehearsal that runs and the step it takes next
  raised,       \* an exception is on its way out
  waited,       \* the workers ended before timeout_sec
  stopped,      \* worker_stop has a result
  db,           \* status of each task in the rehearsal's queue
  accepted,     \* tasks with an accepted row in its submissions
  platform,     \* tasks the fake platform of this run counts as solved
  server,       \* it is up
  crew,         \* the workers that live
  armed, public, pool,  \* control.json; tunnel and listener; containers
  report,       \* the last report written or returned
  runs, killings, raises,
  broken,     \* a start was broken off between the process and its pid
  unclean       \* the run was killed, or its teardown was broken off

left == <<crew, armed, public, pool>>
rehearsalVars == <<kind, doing, raised, waited, stopped, db, accepted, platform, server, left,
                   report, runs, killings, raises, broken, unclean>>

\* "home" is the queue a worker was started on: full and codex share one file.
Member == [id : Helper, home : 0..MaxRuns, how : {"process", "unlisted", "thread"},
           at : {"ready", "gate", "solve", "post", "record", "settle"}, task : Task \cup {NoTask}]

\* The fake platform's challenges: a codex rehearsal has a few that can all be
\* solved, the others have one besides that only yields a handoff.
MiniFixtures == Solvable
Fixtures(k)  == IF k = "codex" THEN MiniFixtures ELSE Task

Here == IF kind \in {"full", "codex"} THEN 0 ELSE runs

RehearsalInit ==
  /\ kind \in Kinds /\ doing = "over" /\ raised = FALSE /\ waited = FALSE /\ stopped = FALSE
  /\ db = [t \in Task |-> "none"] /\ accepted = {} /\ platform = {} /\ server = FALSE
  /\ crew = {} /\ armed = FALSE /\ public = FALSE /\ pool = FALSE
  /\ report = [run |-> 0, ok |-> FALSE, solved |-> {}]
  /\ runs = 0 /\ killings = 0 /\ raises = 0 /\ broken = FALSE /\ unclean = FALSE
-----------------------------------------------------------------------------
(* The order of a rehearsal's steps.                                       *)

\* The finally; disarm_contest stops and cleans once more.
Teardown == {"f_stop", "f_resources", "f_pool", "d_control", "d_stop", "d_resources", "d_pool"}

\* What each of the four does, in its order.
Script(k) ==
  CASE k = "full"  -> <<"reset", "init", "c_stop", "c_resources", "c_pool",
                        "serve", "intake", "arm", "pool", "public", "public_stop",
                        "start", "wait", "stop", "leave",
                        "f_stop", "f_resources", "f_pool", "d_control", "d_stop", "d_resources", "d_pool",
                        "count", "over">>
    [] k = "codex" -> <<"reset", "init", "c_stop", "c_resources", "c_pool",
                        "serve", "intake", "arm", "pool", "public", "public_stop",
                        "threads", "join", "leave",
                        "f_stop", "f_resources", "f_pool", "d_control", "d_stop", "d_resources", "d_pool",
                        "count", "over">>
    [] k = "e2e"   -> <<"init", "serve", "intake", "threads", "join", "count", "leave", "over">>
    [] k = "smoke" -> <<"init", "serve", "intake", "start", "wait", "stop", "count", "leave", "over">>

After(k, s) ==
  LET i == CHOOSE i \in DOMAIN Script(k) : Script(k)[i] = s IN Script(k)[i + 1]

\* Inside the try and the with of run_full_rehearsal.
Guarded == {"serve", "intake", "arm", "pool", "public", "public_stop", "start", "wait", "stop",
            "threads", "join", "leave"}

\* Where an exception at a step goes on: through the finally, or out.
Caught == IF kind \in {"full", "codex"} /\ doing \in Guarded THEN "f_stop" ELSE "over"

Proceed == doing' = IF raised /\ After(kind, doing) = "count" THEN "over" ELSE After(kind, doing)

Lives(ms) == {m \in ms : m.how # "thread"}
\* Faulty: a worker that holds a challenge is not found.
Resting(k) == {m \in crew : m.how = "process" /\ (m.home = 0) = (k \in {"full", "codex"}) /\ m.task = NoTask}

\* stop_workers finds the processes of its contest whose pid is on file.
Listed(k) == {m \in crew : m.how = "process" /\ (m.home = 0) = (k \in {"full", "codex"})}
-----------------------------------------------------------------------------
(* Steps of the rehearsal.                                                 *)

BeginRehearsal(k) ==
  /\ doing = "over" /\ runs < MaxRuns
  /\ kind' = k /\ doing' = Head(Script(k)) /\ runs' = runs + 1
  /\ raised' = FALSE /\ waited' = FALSE /\ stopped' = FALSE
  /\ UNCHANGED <<db, accepted, platform, server, left, report, killings, raises, broken, unclean>>

\* _reset_rehearsal_db; e2e and smoke make a directory of their own.
ResetQueue ==
  /\ doing \in {"reset", "init"}
  /\ IF doing = "reset" \/ Here # 0
     THEN db' = [t \in Task |-> "none"] /\ accepted' = {}
     ELSE UNCHANGED <<db, accepted>>
  /\ Proceed
  /\ UNCHANGED <<kind, raised, waited, stopped, platform, server, left, report, runs, killings, raises, broken, unclean>>

Serve ==
  /\ doing = "serve" /\ server' = TRUE /\ platform' = {} /\ Proceed
  /\ unclean' = (unclean /\ Here # 0)
  /\ UNCHANGED <<kind, raised, waited, stopped, db, accepted, left, report, runs, killings, raises, broken>>

\* Discover, upsert, download and ingest: "ready" is ingest_ready.  Adding a
\* challenge again keeps the status it has.
Intake ==
  /\ doing = "intake" /\ Proceed
  /\ db' = [t \in Task |-> IF t \in Fixtures(kind) THEN "ready" ELSE db[t]]
  /\ UNCHANGED <<kind, raised, waited, stopped, accepted, platform, server, left, report, runs, killings, raises, broken, unclean>>

Arm ==
  /\ doing \in {"arm", "d_control"} /\ armed' = (doing = "arm") /\ Proceed
  /\ UNCHANGED <<kind, raised, waited, stopped, db, accepted, platform, server, crew, public, pool, report, runs, killings, raises, broken, unclean>>

StartPool ==
  /\ doing \in {"pool", "c_pool", "f_pool", "d_pool"} /\ pool' = (doing = "pool") /\ Proceed
  /\ UNCHANGED <<kind, raised, waited, stopped, db, accepted, platform, server, crew, armed, public, report, runs, killings, raises, broken, unclean>>

Public ==
  /\ doing \in {"public", "public_stop", "c_resources", "f_resources", "d_resources"}
  /\ public' = (doing = "public") /\ Proceed
  /\ UNCHANGED <<kind, raised, waited, stopped, db, accepted, platform, server, crew, armed, pool, report, runs, killings, raises, broken, unclean>>

\* start_worker_process: one that runs is left alone.  Broken off between
\* the process and its pid, the start leaves a worker nobody finds.
Recruit(h, how, at) == [id |-> h, home |-> Here, how |-> how, at |-> at, task |-> NoTask]
Absentees == {h \in Helper : ~\E m \in Listed(kind) : m.id = h}

Start ==
  /\ doing = "start"
  /\ \/ \E h \in Absentees : crew' = crew \cup {Recruit(h, "process", "ready")} /\ UNCHANGED <<doing, raises, raised, broken>>
     \/ \E h \in Absentees :
          /\ raises < MaxRaises /\ raises' = raises + 1
          /\ crew' = crew \cup {Recruit(h, "unlisted", "ready")} /\ broken' = TRUE
          /\ raised' = TRUE /\ doing' = Caught
     \/ Absentees = {} /\ Proceed /\ UNCHANGED <<crew, raises, raised, broken>>
  /\ server' = (server /\ ~raised')
  /\ UNCHANGED <<kind, waited, stopped, db, accepted, platform, armed, public, pool, report, runs, killings, unclean>>

\* _wait_for_workers gives up after timeout_sec.
Wait ==
  /\ doing = "wait" /\ Proceed /\ waited' = (Listed(kind) = {})
  /\ UNCHANGED <<kind, raised, stopped, db, accepted, platform, server, left, report, runs, killings, raises, broken, unclean>>

Stop ==
  /\ doing \in {"stop", "c_stop", "f_stop", "d_stop"}
  /\ crew' = IF doing = "f_stop" /\ stopped THEN crew ELSE crew \ Listed(kind)
  /\ stopped' = (stopped \/ doing \in {"stop", "f_stop"})
  /\ Proceed
  /\ UNCHANGED <<kind, raised, waited, db, accepted, platform, server, armed, public, pool, report, runs, killings, raises, broken, unclean>>

\* _run_workers_once: every thread waits for max_parallel; the executor's
\* exit waits for all of them, also with an exception on its way.
Threads ==
  /\ doing = "threads" /\ crew' = crew \cup {Recruit(h, "thread", "gate") : h \in Helper}
  /\ Proceed
  /\ UNCHANGED <<kind, raised, waited, stopped, db, accepted, platform, server, armed, public, pool, report, runs, killings, raises, broken, unclean>>

Join ==
  /\ doing = "join" /\ ~\E m \in crew : m.how = "thread"
  /\ IF raised THEN doing' = Caught /\ server' = FALSE /\ UNCHANGED stopped
     ELSE Proceed /\ stopped' = TRUE /\ UNCHANGED server
  /\ UNCHANGED <<kind, raised, waited, db, accepted, platform, left, report, runs, killings, raises, broken, unclean>>

LeaveServer ==
  /\ doing = "leave" /\ server' = FALSE /\ Proceed
  /\ UNCHANGED <<kind, raised, waited, stopped, db, accepted, platform, left, report, runs, killings, raises, broken, unclean>>

\* What the reports count.
Solved == {t \in Task : db[t] = "solved"}
Parked == {t \in Task : db[t] = "parked"}

\* _acceptance_criteria.
CriteriaMet ==
  /\ Listed(kind) = {} /\ ~public /\ ~pool /\ Cardinality(Solved) >= MinSolved
  /\ IF kind = "codex" THEN Cardinality(accepted) >= MinSolved
     ELSE Cardinality(accepted) >= Cardinality(Solved) /\ Parked # {}

\* _expected_met: with fewer workers than challenges each has dealt with one.
ExpectedMet ==
  IF Cardinality(Helper) < Cardinality(Task)
  THEN /\ Cardinality(Solved \cup Parked) >= Cardinality(Helper)
       /\ Cardinality(accepted) + Cardinality(Parked) >= Cardinality(Helper)
  ELSE Cardinality(Solved) >= MinSolved /\ Cardinality(accepted) >= MinSolved /\ Parked # {}

\* What each calls a success; run_supervisor_smoke that its workers ended.
Accepted ==
  CASE kind \in {"full", "codex"} -> CriteriaMet
    [] kind = "e2e"   -> ExpectedMet
    [] kind = "smoke" -> waited

Count ==
  /\ doing = "count"
  /\ report' = [run |-> runs, ok |-> Accepted, solved |-> Solved]
  /\ Proceed
  /\ UNCHANGED <<kind, raised, waited, stopped, db, accepted, platform, server, left, runs, killings, raises, broken, unclean>>

\* An exception, or Ctrl-C: the threads are waited for, the platform goes
\* down, and the finally runs.  In the finally itself it skips the rest.
Raise ==
  /\ doing # "over" /\ raises < MaxRaises /\ raises' = raises + 1 /\ raised' = TRUE
  /\ doing' = IF doing = "join" THEN "join" ELSE Caught
  /\ server' = (server /\ doing = "join")
  /\ unclean' = (unclean \/ (Here = 0 /\ doing \in Teardown))
  /\ UNCHANGED <<kind, waited, stopped, db, accepted, platform, left, report, runs, killings, broken>>

\* SIGKILL takes the threads and the platform along, and no process.
Kill ==
  /\ doing # "over" /\ killings < MaxKillings /\ killings' = killings + 1
  /\ doing' = "over" /\ server' = FALSE /\ crew' = Lives(crew)
  /\ unclean' = (unclean \/ Here = 0)
  /\ UNCHANGED <<kind, raised, waited, stopped, db, accepted, platform, armed, public, pool, report, runs, raises, broken>>
-----------------------------------------------------------------------------
(* Steps of a worker.                                                      *)

Becomes(m, at, t) == crew' = (crew \ {m}) \cup {[m EXCEPT !.at = at, !.task = t]}
Quits(m) == crew' = crew \ {m}
\* The queue it works on is the one of this run; an older one is nobody's.
AtHome(m) == m.home = Here

Queued(m) == {t \in Task : AtHome(m) /\ db[t] = "ready"}

\* max_iterations: one for a thread and in a smoke, else until nothing is left.
Rests(m) == IF m.how = "thread" \/ m.home # 0 THEN Quits(m) ELSE Becomes(m, "ready", NoTask)

EnterGate(m) ==
  /\ m.at = "gate"
  /\ Cardinality({o \in crew : o.how = "thread" /\ o.at # "gate"}) < MaxParallel
  /\ Becomes(m, "ready", NoTask) /\ UNCHANGED <<db, accepted, platform>>

Claim(m) ==
  /\ m.at = "ready"
  /\ \/ \E t \in Queued(m) : Becomes(m, "solve", t) /\ db' = [db EXCEPT ![t] = "busy"]
     \/ Queued(m) = {} /\ Quits(m) /\ UNCHANGED db
  /\ UNCHANGED <<accepted, platform>>

\* The row of a task that was reset away is not written again.
Park(m, st) ==
  db' = IF AtHome(m) /\ db[m.task] # "none" THEN [db EXCEPT ![m.task] = st] ELSE db

\* should_submit finds its flag among the submissions.
Submitted(m) == AtHome(m) /\ m.task \in accepted

\* The mock solver knows the fixtures it solves; a real one may find nothing.
Solve(m) ==
  /\ m.at = "solve"
  /\ \/ m.task \in Solvable /\ ~Submitted(m) /\ Becomes(m, "post", m.task) /\ UNCHANGED db
     \/ /\ m.task \notin Solvable \/ Submitted(m) \/ (m.how = "thread" /\ kind = "codex")
        /\ Park(m, "parked") /\ Rests(m)
  /\ UNCHANGED <<accepted, platform>>

PostFlag(m) ==
  /\ m.at = "post"
  /\ \/ /\ server /\ AtHome(m) /\ platform' = platform \cup {m.task}
        /\ Becomes(m, "record", m.task) /\ UNCHANGED db
     \/ ~(server /\ AtHome(m)) /\ Park(m, "parked") /\ Rests(m) /\ UNCHANGED platform
  /\ UNCHANGED accepted

\* record_submission_attempt needs no row of the challenge.
Record(m) ==
  /\ m.at = "record"
  /\ accepted' = IF AtHome(m) THEN accepted \cup {m.task} ELSE accepted
  /\ Becomes(m, "settle", m.task) /\ UNCHANGED <<db, platform>>

Settle(m) ==
  /\ m.at = "settle" /\ Park(m, "solved") /\ Rests(m) /\ UNCHANGED <<accepted, platform>>

Work(m) ==
  /\ EnterGate(m) \/ Claim(m) \/ Solve(m) \/ PostFlag(m) \/ Record(m) \/ Settle(m)
  /\ UNCHANGED <<kind, doing, raised, waited, stopped, server, armed, public, pool, report, runs, killings, raises, broken, unclean>>

RehearsalNext ==
  \/ \E k \in Kinds : BeginRehearsal(k)
  \/ ResetQueue \/ Serve \/ Intake \/ Arm \/ StartPool \/ Public \/ Start \/ Wait \/ Stop
  \/ Threads \/ Join \/ LeaveServer \/ Count \/ Raise \/ Kill
  \/ \E m \in crew : Work(m)

RehearsalSpec == RehearsalInit /\ [][RehearsalNext]_rehearsalVars
-----------------------------------------------------------------------------
RehearsalTypeOK ==
  /\ kind \in Kinds /\ doing \in {"over"} \cup {Script(kind)[i] : i \in DOMAIN Script(kind)}
  /\ raised \in BOOLEAN /\ waited \in BOOLEAN /\ stopped \in BOOLEAN /\ server \in BOOLEAN
  /\ armed \in BOOLEAN /\ public \in BOOLEAN /\ pool \in BOOLEAN
  /\ broken \in BOOLEAN /\ unclean \in BOOLEAN
  /\ db \in [Task -> {"none", "ready", "busy", "parked", "solved"}]
  /\ accepted \subseteq Task /\ platform \subseteq Task /\ crew \subseteq Member
  /\ report \in [run : 0..MaxRuns, ok : BOOLEAN, solved : SUBSET Task]
  /\ runs \in 0..MaxRuns /\ killings \in 0..MaxKillings /\ raises \in 0..MaxRaises

(* A full rehearsal that ended, however it was interrupted before its      *)
(* teardown, leaves nothing running and the contest disarmed; so does the  *)
(* first one after a killed one that gets past its own cleanup.  Only a    *)
(* worker whose start was broken off before its pid was written lives on.  *)
QuietWhenOver ==
  doing = "over" /\ runs > 0 /\ Here = 0 /\ ~unclean =>
    /\ ~armed /\ ~public /\ ~pool /\ ~server
    /\ \A m \in crew : m.home = 0 => m.how = "unlisted"

(* The platform of a full rehearsal comes up with nothing left of a killed *)
(* one that could touch its queue, its tunnels or its containers.          *)
CleanStart ==
  doing = "intake" /\ Here = 0 =>
    Listed(kind) = {} /\ ~public /\ ~pool /\ \A t \in Task : db[t] = "none"

(* A report of success stays true: what it counts as solved is what the    *)
(* queue says and this run's platform accepted, no worker of its is left   *)
(* to change that, and after a smoke that waited nobody holds a claim.     *)
ReportHolds ==
  report.run = runs /\ report.ok /\ ~broken =>
    /\ Solved = report.solved /\ Solved \subseteq platform
    /\ ~\E m \in crew : AtHome(m)
    /\ kind = "smoke" => \A t \in Task : db[t] # "busy"

(* From end to end: a rehearsal starts on clean ground, what it reports    *)
(* holds, and it leaves nothing behind.                                    *)
RehearsalHolds == CleanStart /\ ReportHolds /\ QuietWhenOver
=============================================================================
