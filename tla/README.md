# TLA+ models of ctf_runner

`ctf_runner` runs capture-the-flag contests with a team of solver processes. Two
ways of working share one code base:

* the **unattended route**: a supervisor starts worker processes, each of which
  repeatedly claims a challenge from a SQLite queue, has a solver work on it,
  checks the run mode and the submit policy, posts flags to the platform and
  parks the challenge with a verdict;
* the **interactive route**: agents in terminals share a directory of JSON files
  and lock files (`interactive.py`), claim challenges from a board, record
  attempts and submit flags.

This directory holds TLA+ models of the code, the TLC configurations that check
them, and proofs checked by TLAPS. `PROJECT.json` maps every definition to the
lines it models and lists components, runs, mutants, findings, hazards and
theorems.

## Inventory

| component | state it keeps | operations | interacts with | what makes it correct |
|---|---|---|---|---|
| work queue, `state.py` | tables `challenges`, `claims`, `workers` | sync, manual add, ingest, claim, heartbeat, reclaim, status update, release, solve | every worker and operator process, one transaction per call | a claim belongs to one worker, passes on only when stale, and exists exactly as long as somebody works |
| submissions ledger, `state.py` | table `submissions` | record an attempt, list | workers, `platform submit` | a verdict is never lost, so a flag is not posted twice |
| submit policy, `submit.py` | none (policy file) | `should_submit` | callers pass what they read earlier | duplicates, wrong-flag limit, fakes are refused |
| run mode guard, `run_mode.py` | none | `check_action_allowed` | every command that touches a real platform | setup and rehearsal never submit |
| worker loop, `worker_loop.py` | locals of one run | `run_worker_once`, `run_worker_forever` | queue, ledger, policy, guard, platform, contest control | every way out gives the claim back; solved stays solved |
| operator commands, `cli.py` | none | `platform submit`, `queue add-manual/next/release`, syncs, ingests, arm, disarm | the same tables, beside the workers | no contradiction with a running worker |
| contest control, `contest_control.py` | `control.json` with its one temporary file, `arm.lock` | arm, disarm, prestart | workers read it once per run | armed only after an arm, disarmed for good after a disarm |
| supervisor, `worker_supervisor.py` | pid, command and status files | start, stop, restart, status | worker processes, disarm | every process is found by its files, none runs twice, stop leaves none |
| contest resources, `contest_resources.py`, `callback_server.py`, `tunnel_manager.py` | `resources.json`, a pid and a metadata file per listener and tunnel | start, smoke, stop, status, list, cleanup | operators, workers, disarm | what runs is listed as open, what is listed as closed is dead |
| docker pool, `docker_pool.py` | `containers.json`, the daemon's containers | start, exec, status, cleanup | workers, disarm | what runs has a row, cleanup leaves nothing, no running container is removed |
| interactive board, `interactive.py` | `board.json`, `operator.json`, `claims/*.lock`, `submissions.jsonl`, `solved.jsonl`, `external_solved.txt`, `stalled.jsonl`, `candidates.jsonl` | sync, claim, next, solve-loop, verify, submit, upload, release, stall, external solve, write-up, settings | all agents, no transaction anywhere | one agent per open challenge, verdicts and settings survive lost and torn files, solves are earned |
| intake, `platform_ctfd.py`, `platform_generic.py`, `ingest.py`, `archive.py` | `raw/`, `extracted/`, `manifest.json`, `brief.md` | download, ingest, smoke, sync-challenges, extraction | the queue | a ready challenge has whole files and a brief of them; limits hold on disk |
| postsolve and archives, `postsolve.py`, `artifact_archive.py` | `postsolve/` and its backups, archive directories | generate, archive | workers after a solve, operators | no paper is lost, an archive is what its manifest says |
| rehearsals, `full_rehearsal.py`, `multi_worker.py`, `fake_ctfd.py` | a contest of their own | full, codex, e2e, supervisor smoke | all of the above | start clean, report truly, leave nothing behind |
| prompts, authentication, checks | files or none | text, environment checks | called by the above | not modelled, see below |

The hard behaviours are: processes that interleave between transactions (SQLite
transactions are the only atomicity; between them state read earlier goes stale);
crashes of a worker at any point and its restart under the same id; leases that
expire while the owner is alive; a post whose verdict is lost; JSON files read,
changed and written back with no lock at all, on the interactive route and in
every registry of processes; and daemons, containers and processes that outlive
the command that started them.

## Modules

| module | models | kind |
|---|---|---|
| `ClaimLease` | what the claims table promises: leases granted, renewed, expired, revoked | abstract specification |
| `ChallengeLock` | what the lock files under `claims/` promise to the sessions: a challenge is granted while it is free, and freed by its owner or after a verdict | abstract specification |
| `WorkQueue` | every function of `state.py` that changes `challenges`, `claims`, `workers`; its `Next` lets any caller do anything at any time | component |
| `SubmitPolicy` | `should_submit` and the rule by which attempts are recorded | pure operators |
| `RunModeGuard` | `check_action_allowed` for all modes, actions and targets | pure operators |
| `WorkerLoop` | worker and `platform submit` processes, transaction by transaction, over the queue (`Q == INSTANCE WorkQueue`), the ledger, the guard and the platform, with the environment: crashes, restarts, exceptions, expiry, syncs, ingests, releases, arming | composition |
| `OperatorBoard` | the commands of the interactive route, file access by file access, over `board.json`, `claims/` and the ledgers, by sessions that may die | component |
| `SolveLoop` | one challenge of the interactive route: `solve-loop` with its attempts and candidates, and verify, submit, upload, write-up and stalled by hand beside it; over `SubmitPolicy` | component |
| `BoardSync` | which row of the board stands for which challenge: identity, aliases, merge and stop condition across renamed and partial listings | component |
| `OperatorConfig` | `operator.json` and the board's copy of the settings, write by write | component |
| `Contest` | arm, disarm, prestart, and start, stop, restart of workers, file access by file access, with processes and pids | composition of `contest_control.py` and `worker_supervisor.py` |
| `Resources` | listeners, tunnels and `resources.json` | component |
| `DockerPool` | containers and `containers.json`; the daemon is external | component |
| `Intake` | from the platform's attachment to `ingest_ready`: download, scan, reports, mark | component |
| `Extraction` | archives unpacked chunk by chunk within limits | component |
| `Finish` | the papers of a solve with their backups, and archives with their manifests | component |
| `Rehearsal` | four end-to-end scripts with the workers they start, their teardown and verdict | composition |
| `WorkQueueProofs` | theorems about the queue | proofs |
| `WorkerLoopProofs`, `LedgerProofs` | theorems about `WorkerLoop`: its claims and decisions; its submissions table and `MCLedger` | proofs |
| `BoardProofs` | theorems about `OperatorBoard` and `Rehearsal` | proofs |
| `OperatorProofs` | theorems about `SolveLoop`, `OperatorConfig`, `BoardSync` and `MCWorkQueue` | proofs |
| `ContestProofs`, `ResourcesProofs`, `IntakeProofs` | theorems about `Contest`; `Resources`, `DockerPool` and `MCContest`; `Intake`, `Extraction`, `Finish` and `MCBoard` | proofs |
| `MCWorkQueue`, `MCBoard`, `MCContest`, `MCLedger`, `MCWorkers`, `MCFair` | the passing runs: constants, symmetry and the choice of a part | model checking |
| `MCWorkerLoop`, `MCOperatorBoard`, `MCSolveLoop` | the runs that end in a counterexample | model checking |

### WorkQueue

A row of `challenges` is `status[c]`, `source[c]`, `priority[c]`; the row of
`claims` is `owner[c]` and `expired[c]`, which says that `heartbeat_at` is older
than now minus `stale_after_sec` (time itself is left out; `Expire` is its
passage). `workerStatus` is the `workers` table. Each operation is one action
because each function of `state.py` does its reads and writes in one connection
(`BEGIN IMMEDIATE` where it reads first); `claim_next_challenge` runs the stale
reclaim in the transaction of its selection, so `ClaimNext` selects from
`FreeToClaim`, the table after the reclaim. `ORDER BY priority, created_at` is
kept for the priority; ties are a choice.

### WorkerLoop

`pc[p]` names the point a process has reached, `job[p]` its challenge, `mem[p]`
the locals that outlive a step:

| label | next code | label | next code |
|---|---|---|---|
| idle | `claim_next_challenge` (95) | posted | the platform has answered, verdict not recorded (648) |
| claimed | `contest_guard_flags` (112) | recording | row read, not yet written (`state.py` 594) |
| guard | `check_action_allowed` (117) | postsolve | marked solved, write-up pending (258) |
| solving | solver runs (194) | permission, rerecord | `platform submit` only (`cli.py` 2120, `state.py` 727) |
| listing, reading | `list_submissions`, `get_challenge_state` (616, 617) | down, off | ended or crashed; no such command running |
| planning | the loop over the candidates (619), then `_final_status` | | |

What a solver finds is not chosen when it returns but as it is used: `todo` holds
the candidates that may still come. `Fail` is the `except` clause of
`run_worker_once`, possible at every label inside the `try`. `Crash` ends the
process; the supervisor's restart uses the same worker id. Four ghost variables
record what the database does not know: `posts` (how often a flag really was
posted), `credited` (what the platform granted), `unanswered` (posts whose
verdict was lost) and `contended` (challenges two processes worked on at once,
for one of the reasons listed at `Exclusive`); `orphaned` marks claims whose
owner crashed.

`Replies` is what the adapter makes of the platform's answer: once a challenge is
credited, CTFd may say "already solved" to any flag, which counts as accepted, so a wrong
flag can be on record as accepted. `Adapter` says whether there is a platform to post to
(`none`) and whether its adapter would send anything (`refuses`, for want of an address or
credentials); `Plan` is the status recorded of a candidate that is not posted.
`SolvedSticks` lists the steps that may open a solved challenge again (`Reopened`): an
ingest, a release while nobody works on it, the exception of a worker that is in
postsolve; it allows no other step, whoever is at work.

`Disturbances` selects what the environment may do, so that each run explores the
disturbances its question is about.

### OperatorBoard

A session runs one command at a time; `pc[a]` is the next access to a file,
`mem[a]` the command, its arguments and the copy of the board it works on.

| label | next code | label | next code |
|---|---|---|---|
| read | `_read_board` (3471) | append | `_append_jsonl`, `_append_text` (2527, 2552) |
| ledgers, locks | the two halves of `_apply_runtime_statuses` (4698, 4702) | decide, post | `should_submit` (2589), `submit_flag` (2608) |
| ask | sync's requests to the platform (166) | accepted, rejected, credit | verdict known (2621), `solved.jsonl` (2624) |
| ledgers again, locks again | the same in a sync's second half (222) | unlock | `_release_locks` (5033) |
| choose, payload | `_try_lock`: `O_EXCL`, then the text (10244, 10248) | truncate, fill | the halves of `write_text` (10321) |

`board` is what a reader makes of the file: `DefaultBoard` while it is truncated
or garbled, because `_read_board` swallows the error and starts a new board. Two
writers at once may leave a garbled file (`Fill`); a reader that meets one writes
an empty board back, and the model follows the consequences. A row keeps
`status`, `claimed_by` and the platform's mark; names, aliases, static copies of
a challenge and everything else are left out, and so are rows that cannot be
claimed. A lock file is its challenge, its agent, whether `--allow-duplicate`
made it, and whether its text is there yet. Deleting several lock files is one
step: a lock goes only by its holder's hand or when the challenge has a verdict,
so what happens between two deletions does not matter to the properties.

`next`, `prepare` and the solve loop call these commands in turn (`SolveLoop`). A session that dies leaves its locks;
another may take its name and release them. Ghosts: `holding` (what a session was
granted), `credited`, `posts`, `contended` and `unanswered` as above, `orphaned`
(locks of the dead).

What the model shows besides its properties, all of it reachable: a released
challenge can stay on the board as claimed, with no lock behind it, because a
claim or a status that looked at the locks before the release wrote its copy
afterwards; the empty lock of a session that died between creating and filling
it is skipped by every release; a board torn by two writers comes back empty
until the next sync. None of them gives a challenge to two
sessions or offers a solved one, which is what the properties say. The platform may call
a solved challenge "already solved" whatever the flag (`SaysOf`), which the adapter takes
for an acceptance. The ledgers are read in one step (`ReadLedger`): none is ever rewritten, each
is read once, and their order matters only for a verdict that arrives while they are read.

`ClaimLock == INSTANCE ChallengeLock` reads an abstract lock service off the files: the
owner of a challenge is whose its lock file is (duplicates apart), and a challenge is
settled once a ledger or the platform has a verdict. `LocksAreHonoured` says that the
board implements it. `SolveLoop` instantiates it too (`ClaimIsHonoured`): there a session
holds the challenge while its loop works on it. A session may let go of a challenge with
the very answer that settles it: a post that fails on its way back ends the loop and
leaves the lock behind. This is why `LetGo` allows a verdict to fall.

### SolveLoop

One challenge, so that `lock`, `row` and each ledger are single values and each
file access of `OperatorBoard` that concerns the challenge is one step. A loop
goes `target` (`next_challenge`, or the named challenge whatever its status),
`triage`, `attempt`, `judge` (verify a candidate), `submit` (read the row), `decide`,
`post`, `record`, `solve` (`solved.jsonl`), `credit` (the row), then the next
candidate, the next attempt, the `writeup` or `stall`. `Endings` says how a script or a connection may
end and `ScriptStatus`, `WebStatus`, `BrowserStatus`, `ServiceStatus` what the four
kinds of attempt make of it. `subs` holds the rows with a platform's verdict, the
rejected uploads among them, which count as wrong flags; `hot` is what was rejected
less than `cooldown_seconds` ago. What the model shows besides its properties: a
challenge that is stalled is never offered by `next_challenge`, so that its
`allow_stalled_retry` changes nothing; a flag first typed in by hand keeps the
origin `manual`, which lowers its confidence, and a loop never submits it; a
candidate found during the cooldown of a rejected upload is passed over.

Reading the board is one step, but what is read is either the row or nothing (`Seen`):
another session may be between the truncation and the text of `board.json`, or have died
there, and `_read_board` then starts from an empty board. A loop that meets this at its
target returns `not_found` with the claim in place (2312), and one that meets it when it
marks the challenge as stalled leaves the mark out and the claim too
(`stalled_unmarked`, 2516). Both are ways in which `ClaimReturned` says the claim may stay,
beside an adapter that sends nothing (`HeldBack`, recorded as planned), an
exception and the session's death. An attempt at a service is a payload script followed by
a conversation (`Payload`, `Conversation`) that may ask for a token or a proof of work.

### BoardSync and OperatorConfig

`rows` is `board.json` as a set of rows with an id (a number or a slug of a task), a
name, aliases and marks. `SyncBoard` composes what `sync_operator` does in one
command: canonical names and aliases (`Group`, `Entry`), the merge with the previous
row (`Previous`, `MergedEntry`), rows that are no longer listed (`Preserved`), the
platform's solved list (`Marked`) and the ledgers (`Runtime`). The platform renames
tasks, changes between numbers and slugs, and lists any subset. `Kin` is the closure of
having been listed under one canonical name: the code folds such tasks by design, and a
solve of one counts for the others, through however many names in between. `listing`,
`seen`, `bore` and `moved` are what the platform has shown, for the properties to refer to.

`OperatorConfig` splits each write of `operator.json` and `board.json` into its
truncation and its text. `web_config` keeps what is configured, `service_config`
re-derives it each time (`Derives`) and ends as blocked where nothing can be derived. A torn file reads as an empty one (`Lost`, `Unread`); a
setting is a number, later ones higher, so that "older than the last one saved" can
be said. `.init.lock` is taken without looking at the result and is not in the model.

### Contest, Resources, DockerPool

Three parts with one shape: sessions run commands over files that nobody locks and
may die between two accesses, while the things they start live on. In `Contest`,
`proc` maps pids to processes, which may end, and a pid may come to name an
unrelated process (`MaxReused`). `control.json` is written through one temporary
file that all writers share (`staged`). A fake or local contest's start is not
blocked when unarmed, and a start without `--apply` spawns nothing, so neither
appears as a separate case. `Resources` follows each listener and tunnel from the
process through pid file and metadata to `resources.json`; a provider that shows no
address is sent SIGTERM. `DockerPool` calls a daemon that may fail or time out; a
`docker run` that timed out may be carried out later (`late`), a `docker rm` may do its
work and lose its answer. Left out: a `docker rm` that is carried out after the command
has gone on, the container states dead and paused, and the status `stale` of a listener
that lives without its port (its metadata are written after the port is bound).

The ghosts that excuse a violation name exactly two commands at once on one file
(`raced`, `crowded`, `upserting`, `racing`, `twoStarts`) or a starter that died
between the process and its record (`strays`, `orphaned`, `unlisted`, `belated`).
Each excuse is a hazard of the code: without it the property fails.

### Intake, Extraction, Finish

`Intake` has one challenge and its attachments; `disk` maps each name
(`file`, `file.1`, ...) to absent, torn or whole. A transfer may be refused, break
off or end early unnoticed, and each command goes on by its own rule
(`AfterDownload`). `sync-challenges`, and the smokes where there is no attachment, ingest
the challenge's text instead: `raw/challenge.md` is written without a look at what bears
that name (`OpenStatement`, `WriteStatement`), and without `--save-state` a challenge that
is ready stays so. `namesake` is the attachment that is called `challenge.md`, if one is,
and `rewritten` says that a text ingest has written over it: this one file is excepted in
`ReadyIsWhole`, and that one step in `OriginalsKept`. `Extraction` copies chunk by chunk, with headers that lie, paths
named twice, damage and kills. `Finish` renames each paper to a backup, opens and
fills the new one, in the order of the papers; an ingest re-opens a solved challenge
and has them written again; the files of an archive are copied in one step, and an archive
two archivers wrote into is marked (`mixed`).

### Rehearsal

`Script` is the order of the steps of each rehearsal, and `doing` the next one.
Workers it started go on between any two steps. `Raise` is an exception or Ctrl-C at
any step, `Kill` a SIGKILL, which takes threads and the platform along and leaves
processes, the armed contest, tunnels and containers to the next run. That a stop or
a cleanup finds everything is the matter of `Contest`, `Resources` and `DockerPool`.

## Runs

Parts that share no variable are checked in one run: `part` (or `scene`) is chosen at
the start and never changes, so that a behaviour is one of a single part while the
variables of the others rest. The states of a run are the sum of those of its parts.

| run | question | parts and instance | result |
|---|---|---|---|
| `work_queue` | do the records a contest is worked from stay right? | queue: 2 workers, 2 challenges, 2 priorities; solve: a looping and a manual session, a right and two wrong flags, 1 attempt, 2 commands; sync: 2 tasks, one a static shell, 3 names, 3 syncs and 2 events; settings: 2 consoles, 3 commands, 2 deaths | holds, 1.64 million states |
| `operator_board` | do the files around a contest hold what their readers take from them? | board: 2 mortal sessions, 2 challenges, 2 flags, 3 commands; rehearsal: 2 workers, 2 fixtures, 2 runs, a kill and an exception; intake: 2 sessions, 2 attachments, 2 commands, a death; extraction: 3 paths, 2 archives | holds, 2.44 million states |
| `contest` | is what was started found, and what was disarmed quiet? | control: 2 sessions, 1 worker id, 2 pids, 4 commands; resources: 2 sessions, a listener and a tunnel, 3 commands; pool: 2 sessions, 2 slots, 3 commands; a death and a failure each | holds, 3.79 million states |
| `worker_ledger` | can a verdict be lost, a flag be posted twice, the limit be passed, a paper be lost? | ledger: 2 workers, 1 challenge, 3 flags, contended states cut off (the properties exempt them); papers: 2 authors, 3 papers, 3 editions, a death | holds, 2.49 million states |
| `workers` | can two workers get one challenge, can a claim leak, do the operator's commands keep the books right? | leases: 2 workers, 2 challenges, no flags; operator: a worker and an operator, 1 flag; wrong: the operator also tries the wrong flag | holds, 2.30 million states |
| `worker_liveness` | is every challenge parked, does a dead worker's claim come back, does a solve loop give its claim back? | workers: 1 mortal and 1 immortal, 2 challenges; solve: as above with 1 flag and 2 attempts | holds, 81,832 states |
| `stuck_claim` | does a claim also come back when a sync interferes? | 2 workers, 1 challenge | violated, finding 1 |
| `late_post` | is the solved state looked at before each post? | 1 worker, 2 flags | violated, finding 2 |
| `setup_post` | does setup mode block posts to a real platform? | 1 worker, challenge added by hand | violated, finding 3 |
| `wrong_count` | does the limit count attempts? | 1 worker, 2 flags, limit 2 | violated, finding 4 |
| `board_submit` | does submit look at the ledgers? | 2 sessions, 1 challenge | violated, finding 5 |
| `cooldown` | does the cooldown follow a wrong flag? | 2 sessions, 1 challenge, 3 flags | violated, finding 6 |

Some properties are conjunctions of parts, one idea each, defined and commented beside
them: `ArmingHolds` (a disarm holds; live only as armed), `WorkersAccounted`
(found by their files; one process each; none after a stop), `ResourcesAccounted`,
`PoolAccounted`, `VerdictEarned` (a solve by the platform's word; no flag given up
unjudged), `BoardTruthful` (no row and no stop condition claims too much),
`SettingsKept`, `ExtractionSound`, `RehearsalHolds` and `RecordsKept`. Three are
refinements: `LeaseRefined` of `ClaimLease`, `LocksAreHonoured` and `ClaimIsHonoured` of
`ChallengeLock`. A board that gave a challenge away while its lock file is still empty
would break the second, a stall that deletes another's claim the third.

**Bounds.** Two workers are enough for every hazard listed: a handover, a
contention and a stale write each involve one owner and one other. Two challenges are needed for priorities, for the batch
reclaim of several claims and for `job` changing; one suffices for the ledger,
whose rows of different challenges never meet. Three flags give one right and two
wrong ones, enough to pass a limit of one. `posts` counts to two. Nothing else is
bounded in `WorkQueue` and `WorkerLoop`: runs, crashes, restarts, syncs and ingests
repeat without limit. In the scene `operator` of `workers` only one worker takes
steps, a release asks for `queued` or `stalled`, and the contest is disarmed only
between the worker's runs, because a run reads the flags once; what a disarm during a
run does is the subject of `Contest`.

Where each access to a file is a step the commands begun are bounded (`MaxBegun`,
`MaxChores`, `MaxPool`, `MaxCommands`, `MaxIntakes`, `MaxRuns`): two commands overlap
on every pair of accesses and a third, or on the control files a fourth, meets what
they left. Deaths and failures are bounded by one or two per behaviour where they are
bounded. The solve part of `work_queue` makes one attempt per loop; a second attempt meets
what the first left in the same files, is checked in `worker_liveness`, and the theorems
hold for any number. In a rehearsal the second run meets what the first left. In the sync part
three syncs let a task be listed, listed otherwise and left out. Larger instances
were checked once, without a counterexample: `Resources` with two listeners
(2.4 million states) and `BoardSync` with three tasks (0.2 million).

**Fairness** (`worker_liveness` and `stuck_claim` only). A worker that has not crashed
keeps running: its solver is under a timeout (`worker_loop.py` 468) and the HTTP
client too. The clock reaches the cutoff of a dead worker's claim. A command of the
interactive route that has not died goes on to its end (`SolveFairSpec`): its scripts
and requests have timeouts. Nothing is assumed of the operator, of crashes or of
exceptions. The workers run with `--no-stop-when-empty` and no iteration limit; with
the default they end at the first empty answer and a claim that goes stale later waits
for the next start, which is a hazard listed in `PROJECT.json`.

## Findings

1. **Stuck claim.** `upsert_platform_challenges` resets `claimed` to `new` and
   leaves the claim. If the owner crashes before it sets `solving`, the reclaim
   (claimed or solving only) and the selection (unclaimed only) both pass it over.
2. **Late post.** `_plan_submissions` reads the solved state once; a second
   candidate is posted after the first was accepted.
3. **Setup post.** A challenge added by hand counts as local, whatever platform it is
   on and whether or not a sync finds it there later, so the guard permits the live
   post in any mode.
4. **Wrong count.** A refused duplicate of a rejected flag counts as another
   rejected attempt, and the limit blocks one attempt early.
5. **Submit ignores the ledgers.** `submit_flag_file` decides by the row of
   `board.json`. When another command has meanwhile written an older copy back,
   the row lost its verdict, and a flag is posted for a challenge that
   `external_solved.txt` named before the command began.

6. **No cooldown.** The interactive submit records a verdict under `timestamp`, while
   the cooldown is counted from `submitted_at` or `created_at`. Only rejected uploads,
   whose rows have `submitted_at`, start it; after a rejected flag the next is posted
   at once.

## Proofs

Each theorem holds for every value of the constants that the module's assumption
allows, so for any number of processes, challenges, flags, files and commands. Where an
invariant is not inductive, the module defines one that is, proves that it holds at the
start and survives each action (one lemma per action or kind of action), and derives the
property. The assumptions say no more than how the constants are read: a missing worker
is no worker, priorities are naturals, bounds are naturals, the flags of a contest are
finitely many, and live submission needs the profile's permission because the adapter
asks for it (`WorkerLoopAssumption`).

**Queue** (`WorkQueueProofs`). `TypeCorrect` and `ClaimsMatchStatuses` from `IInv`,
which adds that only an existing claim can be expired: without it an expired flag could
survive a release and the next owner's claim be stale from the start. `HandoverRule` and
`QueueImplementsLease` (`Spec => LeaseRefined`) go by one step per operation; the lemma
`ReclaimEffect` states once what the reclaim inside a claim does to the tables.

**Policy and guard** (end of `WorkerLoopProofs`). Laws of the two decisions for all arguments:
permissions only grow with flags, what a real platform permits a rehearsal permits, the
second check of a run is stronger than the first, a refusal stays one when more is
known, a recorded verdict makes the flag refused for ever.

**Worker loop** (`WorkerLoopProofs`). `Base` says what a process holds at each label
and takes the queue's invariant over: every transaction of the loop is a step of the
queue's interface, so that `LoopImplementsLease` and `LoopHandsOverWhenStale` carry the
lease and the handover rule over to the composed system. `Claims` makes
`Exclusive`, `NoLeakedClaim` and `LeasedIsClaimed` inductive: any two processes on one
challenge, an operator's submit included, are contenders (`Apart`); a worker nobody
contends with owns its claim until it marks the challenge solved, and from then on the
challenge stays solved and unclaimed (`Held`); the claim it gave back is not its own
again (`LetGo`). `SolvedIsKept` is an action property of the same invariant.

**Ledger** (`LedgerProofs`). `Ledger`, on top of the two, follows what a process learnt
from the table to what it writes there: `Unaware`, nothing is known before the list is
read; `Knowing`, afterwards an uncontended process knows every verdict the table has and
the row it is about to write over; `VerdictsUnderway`, a verdict that is not in the
table is being carried there or was lost; `RoomLeft`, a rejection about to be written
fits under the limit. An accepted row is only claimed to be of a credited challenge, for
the platform may accept any flag of one. They give `LedgerIsTrue`, `LedgerKeepsVerdicts`,
`NothingPostedTwice` and `LimitHolds`. That the policy is a parameter showed that
`NoDuplicatePost` needs duplicate detection to be on; it now says so.

**Board** (`BoardProofs`). `IInv` gives `BoardTypeCorrect`, `LocksAreRight` and
`ChallengeHasSoleWorker`. It adds to `LocksMatchWork` what makes a release harmless:
`Control`, the ledger entry comes before the release it justifies; `RowsJustified`, a
row that shows a verdict from elsewhere shows a true one, in the file and in every copy,
because a sync deletes locks on the word of its copy; `OneLock`, what `O_EXCL` gives;
`Opened`, an empty lock file belongs to a session about to fill it or to a dead one.
`Memory` follows what a command knew when it began to what it writes back and to whom it
chooses, and gives `VerdictsComeBack` and the action property `KnownIsNotClaimed`.
`BoardImplementsLock` is a refinement: under `IInv` and `IInv'` every step is a grant, a
letting go, a closing, a verdict or a stutter of `ChallengeLock`. Opening a lock file is
the grant (`TakeLockGrants`), which needs `OneLock`; its text changes nothing
(`WritePayloadGrantsNothing`); a deletion is one by the owner or comes after a verdict
(`UnlockLetsGo`, from `LocksMatchWork` and `RowsJustified`, stated once in
`WhoseLocks`); a death lets go and keeps the lock (`DeathLetsGo`).
`Posted` gives `FlagIsPostedOnce`: a post has a verdict on file, a session about to file
it, or a name in the list of excuses, and a session that is about to post found none.

**Solve loop, settings, sync** (`OperatorProofs`). `LoopImplementsLock`: all steps but
those at `target`, `stalled` and `credit` leave the claim file alone (`PlainStep`) and
only advance their command (`Advances`), which is work going on or ending; the three that
touch the file are mapped one by one, and of a stall that deletes the claim the proof
must know that it deletes only its own. `SolveInv`: an acceptance in
anybody's locals is the platform's, and each flag a loop found is still queued, being
offered, or judged (`Told`, giving `VerdictIsEarned`); rejections are rows of their own
(`Numbered`), one session posts at a time and the rows count every refusal but the one
being recorded (`Limited`, giving `WrongLimitHolds`). `ConfigInv`: while commands do not
overlap, `operator.json` and what the command holds of it are at least as new as the
last setting saved, unless a file was torn (`Good`, `Doing`; `SettingsAreKept`).
`SyncInv` says of every set of tasks that shares no canonical name with the rest
(`Closed`) that a row of one of its tasks has keys for tasks of the set only and, if
solved or stalled, that a task of the set was (`Sits`), that the ledgers' keys speak of
it likewise (`Ledgers`), and that a listed task has a row in it (`Covered`).
`BoardIsTruthful` follows with `Kin(c)`, the least closed set of `c`. The proof showed
that `Kin` had to be that closure: three hops by name, which suffice for four tasks, do
not for five. `StayInv` follows the ids: a row's task was listed, under the row's id if
it never changed (`Placed`); of a task that shares no name the rows know its one id, or
beside its second id also the first (`Stands`); a solved id has only solved rows
(`SolvedRows`), and the ledger has an id of every accepted task (`PostedKnown`).
`SolvedRemainsSolved` follows. Looking for this invariant showed that an accepted task
can be left without a row: task `c` is folded into the row of `d`, is listed no more,
and `d` is renamed and folded into the older row of `e`; the row of `d` goes, and `c`'s
id with it. It takes three tasks and three syncs, more than the run has. `SolvedStays` now
promises a row only while a task is listed, or if it never shared its name; that the
rows there are be solved it promises to more tasks than before.

**Contest** (`ContestProofs`). `Base` ties every file, pid and local to the point of
a command. `ArmingIsKept` adds `Disarmed` (after a disarm there is no lock and nobody is
about to write one) and `Permission` (what any command has read or staged of live
submission is at most what the last arm wished). `WorkersAreAccounted` adds `Sole`,
`Located`, `OnTrack` and `Emptied`: a command that is handling a worker has looked at
every process of that worker that counts. A pid that is given anew is no longer that of
a process whose starter died (`Spawn`): without that, a stale excuse would hide a lost
process.

**Resources** (`ResourcesProofs`). A command is followed through what is left of its plan:
`Planned` says that a start's is the end of one of three plans, and any other's ends in
at most one verdict, with a list after every sweep (`Courses` and `Ordered` read off what
may come next). `Owned` keeps an id that is being started to its starter, which is in no
registry and in no other plan, and `Scene` says how far its process and files are.
`Soundness` is about every id a registry, a copy of one or an update knows: its files
name the pid of whatever lives, under a status that counts as active, and whoever is busy
with it has read as much; so no update can write `closed` or `error` of what lives
(`Shut`). `ListedLive` and `Alone` carry `LiveIsListed` through an update that is alone,
and `Calm` says of a cleanup that no start ran beside that what lives is in its active
list or among the statuses it has yet to read. Every step of a command is shown `Lawful`
(it keeps plans and files in order) and `Settled` (so it does resources.json), and a
lemma for each conjunct concludes from these two alone. They give `ResourcesKept`.

**Docker pool** (`ResourcesProofs`). `PoolInv` joins the rows, the daemon and the
locals: `Rows`, whatever runs or may still start has a row, in the file and in the copy
about to be written back; `Starts` and `Kept`, what a start is about to remove does not
run; `Swept`, what runs is belated or the cleanup under way has yet to remove it. They
give `PoolIsAccounted` and the action property `RunningIsKept`.

**Intake** (`IntakeProofs`). `IntakeInvariant` follows a session from the name it chose
to the scan it reports: `Named`, a name about to be opened is free, one being filled is
torn, and no two sessions share one; `Fetched`, what a session counts as fetched is
whole on the disk and in its scan; `Collected`, a download without a failure has
fetched, is fetching or will fetch everything; `Informed`, one session reports and what
it wrote tells of its scan; `ReadyOk`, a ready challenge has its files also in the scan
of whoever is about to replace its manifest. They give `ReadyChallengesAreWhole` and the
action property `WholeFilesAreKept`. What a text ingest writes is neither torn nor whole,
so no session ever counts it as fetched.

**Extraction** (`IntakeProofs`). `ExtractionInvariant` separates the names of the archive
at hand that are `Checked` from the one being copied: the books (`acct`) count at least
what is settled, and exactly that while no name was repeated; what is being copied was
given room before it was opened and before each chunk; what older archives have on the
disk only shrinks. Bytes are counted as a set of (name, chunk) pairs, so that a chunk
written is one element more. `ExtractionIsSound` follows.

**Finish** (`IntakeProofs`). Files are numbered by the edition that made them, and
`FinishInv` follows the one writer there is while papers do not overlap: `Reached`, the
papers before the one at hand are whole, those to come are of earlier editions, so the
file it opens is nobody's backup and the summary, which is last, vouches for the rest.
`Filing` does it for archivers: a directory shared by two is marked before the second
copies. They give `RecordsAreKept`, its action property included.

**Rehearsal** (`BoardProofs`). `RInv` says for each thing a full rehearsal puts up at
which of its steps it may be there, and from which step of the next cleanup on what a
killed run left is gone (`Ground`); who can be on the queue at all (`Staff`); that
nothing is solved which the platform of this run has not accepted (`Granted`), which
needs that no older worker is left when the platform starts anew (`NobodyAtServe`); and
that a smoke's claims have workers until its wait succeeds (`Busy`). `Passage` sorts all
steps by what they do to the script. They give `RehearsalKept`.

**Compositions**. A run checks several parts side by side, one at a time (`part`). The
lemmas `RecordsRunTheParts`, `FilesRunTheParts`, `ContestRunsTheParts` and
`LedgerRunsTheParts` show that a behaviour of such a composition is one of each part, for
a step of one part is a stutter of the others. So the theorems about the parts carry over
to what the runs check: `RecordsTypeCorrect`, `FilesTypeCorrect` and `ContestTypeCorrect`
(`PartsTypeOK`), `RecordsHold` (`work_queue`), `FilesHold` (`operator_board`),
`ContestHolds` (`contest`) and `LedgerHolds` (the ledger's half of `worker_ledger`). For this
`OperatorProofs`, `IntakeProofs`, `ResourcesProofs` and `LedgerProofs` extend the `MC`
module of the run and the proofs about its other parts; they come last in their chain,
and nothing extends them. `RecordsKept`, the papers' half of `worker_ledger`, is proved of
`FinishSpec`, and what `workers` checks of `Spec` of `WorkerLoop`, of which its scenes
are special cases.

**Only model-checked**: of the safety properties of the passing runs, none; each is
stated by a theorem. Liveness under fairness (`EveryChallengeParked`, `ClaimComesBack`,
`ClaimReturned`) is out of the prover's reach, because it argues by ENABLED, and stays
with `worker_liveness`; the runs that expect a violation refute what they check.

## Plan

1. done: queue, lease, policy, guard, worker loop, their runs, queue proofs.
2. done: `OperatorBoard`, its runs and its proofs.
3. done: `Contest`, `Resources`, `DockerPool`.
4. done: `SolveLoop`, `BoardSync`, `OperatorConfig`, `Intake`, `Extraction`, `Finish`,
   `Rehearsal`.
5. done: proofs about `WorkerLoop`, `OperatorBoard`, `Contest`, `Resources`, `DockerPool`,
   `SolveLoop`, `OperatorConfig`, `Intake`, `Extraction`, `Finish`, `Rehearsal` and
   `BoardSync`.
6. done: the lock service, implemented by `OperatorBoard` and `SolveLoop`; theorems about
   the compositions the runs check.

## Not modelled

* Of the modelled components: `claim_history`, `events` and metadata columns (nothing
  reads them back); the order of equal priorities; the clock behind cooldown and cutoff
  (a choice); dry runs; how text is classified as a flag (`Class`, `Looks` are
  constants); logs, metrics and everything printed.
* Text: starter sources, playbooks, triage inventories, prompts, briefs, write-ups and
  dashboards of `interactive.py` (about half of that file), `solve_prompt.py`,
  `prompt_templates.py`, `solve_result.py`. They are functions from text to text; no
  state depends on their form beyond what the models choose freely.
* `build_parser` of `cli.py` (a declaration of options) and the commands that only print.
* Discovery in `platform_generic.py`: guessing challenges from foreign HTML and JSON; its
  result is the set `hosted`. Browser capture and login sessions.
* Checks of the environment (`toolchain.py`, `preflight.py`, `codex_doctor.py`,
  `public_check.py`): stateless.
* Images, mounts and benchmarks of the docker pool; the requests a listener records.
