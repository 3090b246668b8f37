----------------------------- MODULE DockerPool -----------------------------
(***************************************************************************)
(* The pool of worker containers of docker_pool.py: one container per      *)
(* worker, under a name that only the daemon keeps unique, and a row per   *)
(* worker in containers.json, which every command loads and rewrites       *)
(* without a lock.  The daemon is external: a call may find it gone or     *)
(* time out, and a `docker run` that timed out may still be carried out.   *)
(* Images, workspaces, the exec counters and the logs are left out.        *)
(***************************************************************************)
EXTENDS Naturals, Sequences, FiniteSets

CONSTANTS
  Runner,     \* processes that run one pool command at a time
  Slot,        \* numbers of the workers a pool start asks for
  PoolCommands,    \* the commands the sessions use
  MaxPool,    \* bound: commands begun in a behaviour
  MaxExpired,   \* bound: sessions killed in the middle of a command
  MaxFailures  \* bound: calls the daemon fails, and containers that exit

ASSUME DockerPoolAssumption ==
  /\ Slot \subseteq Nat /\ IsFiniteSet(Slot)
  /\ PoolCommands \subseteq {"start", "exec", "status", "cleanup"}
  /\ MaxPool \in Nat /\ MaxExpired \in Nat /\ MaxFailures \in Nat

VARIABLES
  cont,       \* [Slot -> state of the container the daemon has for it]
  late,       \* slots for which the daemon has yet to carry out a run
  belated,    \* slots it did so for
  row,        \* [Slot -> status in containers.json, "none" without a row]
  phase, call,    \* control state and locals of each session's command
  racing,     \* two sessions rewrote containers.json at once
  alone,       \* sessions no start has run at the same time with
  twoStarts,    \* two starts ran at once
  cleaned,    \* such a cleanup said ok and saw what runs, and no start since
  called, expired, failures

poolGhosts == <<belated, racing, alone, twoStarts, cleaned>>
poolBounds == <<called, expired, failures>>
poolVars   == <<cont, late, row, phase, call, poolGhosts, poolBounds>>

ContStates == {"none", "created", "running", "exited"}
RowStates  == ContStates \cup {"missing", "unreachable", "error", "stopped", "not_running"}
NoRows == [w \in Slot |-> "none"]

\* saw: what docker inspect said.  ok: no container is left to a later cleanup.
NoCall == [cmd |-> "none", plan |-> <<>>, saw |-> "none", put |-> "none", snap |-> NoRows,
          ok |-> TRUE, answered |-> TRUE]

PoolInit ==
  /\ cont = [w \in Slot |-> "none"] /\ late = {} /\ belated = {}
  /\ row = NoRows
  /\ phase = [s \in Runner |-> "idle"] /\ call = [s \in Runner |-> NoCall]
  /\ racing = FALSE /\ alone = {} /\ twoStarts = FALSE /\ cleaned = FALSE
  /\ called = 0 /\ expired = 0 /\ failures = 0

Order(S) == CHOOSE q \in [1..Cardinality(S) -> S] : \A i, j \in DOMAIN q : i < j => q[i] < q[j]
-----------------------------------------------------------------------------
(* A command works on one slot after the other: mem.plan.                  *)

Turn(s, l) == phase' = [phase EXCEPT ![s] = l]
Slot1(s) == Head(call[s].plan)
Is(s, cmd) == call[s].cmd = cmd

FirstCall(cmd) == CASE cmd \in {"start", "status"} -> "inspect"
                    [] cmd = "exec" -> "exec" [] cmd = "cleanup" -> "remove"

\* The verdict of a cleanup that has come to its end: containers.json may have
\* lost rows, and then only docker ps tells of what runs.
Cleaned(s, m) == cleaned \/ (m.cmd = "cleanup" /\ m.ok /\ s \in alone /\ (m.answered \/ ~racing))

GoOn(s, m, plan) ==
  IF plan = <<>>
  THEN Turn(s, "idle") /\ call' = [call EXCEPT ![s] = NoCall] /\ cleaned' = Cleaned(s, m)
  ELSE /\ Turn(s, FirstCall(m.cmd)) /\ call' = [call EXCEPT ![s] = [m EXCEPT !.plan = plan]]
       /\ UNCHANGED cleaned

Fails == failures < MaxFailures /\ failures' = failures + 1
Works == UNCHANGED failures

BeginPool(s, cmd, w) ==
  /\ phase[s] = "idle" /\ called < MaxPool /\ cmd \in PoolCommands
  /\ called' = called + 1
  /\ Turn(s, CASE cmd = "start" -> "info" [] cmd = "exec" -> "exec" [] OTHER -> "known")
  /\ call' = [call EXCEPT ![s] = [NoCall EXCEPT !.cmd = cmd, !.plan = IF cmd = "exec" THEN <<w>> ELSE <<>>]]
  /\ cleaned' = (cleaned /\ cmd # "start")
  /\ alone' = IF cmd = "start" THEN {}
             ELSE IF \E q \in Runner : Is(q, "start") THEN alone \ {s} ELSE alone \cup {s}
  /\ twoStarts' = (twoStarts \/ (cmd = "start" /\ \E q \in Runner : Is(q, "start")))
  /\ UNCHANGED <<cont, late, row, belated, racing, expired, failures>>

\* start_pool is skipped when docker info fails.
Info(s) ==
  /\ phase[s] = "info"
  /\ \/ Works /\ GoOn(s, call[s], Order(Slot))
     \/ Fails /\ GoOn(s, call[s], <<>>)
  /\ UNCHANGED <<cont, late, row, belated, racing, alone, twoStarts, called, expired>>

\* Faulty: a cleanup takes the slots from containers.json alone.
OnlyRows(m, ps) == {w \in Slot : row[w] # "none"}

\* cleanup_containers and pool_status: the rows, and what docker ps lists.
KnownSlots(m, ps) == {w \in Slot : row[w] # "none"} \cup ps

ReadKnown(s) ==
  /\ phase[s] = "known"
  /\ \/ Works /\ GoOn(s, call[s], Order(KnownSlots(call[s], {w \in Slot : cont[w] = "running"})))
     \/ Fails /\ GoOn(s, [call[s] EXCEPT !.answered = FALSE], Order(KnownSlots(call[s], {})))
  /\ UNCHANGED <<cont, late, row, belated, racing, alone, twoStarts, called, expired>>
-----------------------------------------------------------------------------
(* The calls on one container, each followed by an update of its row.      *)

Put(s, m, st) == /\ call' = [call EXCEPT ![s] = [m EXCEPT !.put = st]]
                 /\ Turn(s, "load")

\* status_container
Inspect(s) ==
  LET c == cont[Slot1(s)]
      st == IF c = "none" THEN "missing" ELSE c IN
  /\ phase[s] = "inspect"
  /\ \/ Works /\ Put(s, [call[s] EXCEPT !.saw = st], st)
     \/ Fails /\ Put(s, [call[s] EXCEPT !.saw = "unreachable"], "unreachable")
  /\ UNCHANGED <<cont, late, row, poolGhosts, called, expired>>

\* Faulty: whatever container has the name makes way.
AnyMakesWay(st) == IF st \in {"created", "exited", "running"} THEN "clear" ELSE "run"

\* start_container is done when the container runs, and removes one that does
\* not: "exited" stands for "dead" too, and nobody pauses a container.
AfterInspect(st) == CASE st = "running" -> "next" [] st \in {"created", "exited"} -> "clear"
                      [] OTHER -> "run"

\* docker rm, whose exit is not looked at: it may have failed, or done its work
\* and not come back in time.
Clear(s) ==
  /\ phase[s] = "clear"
  /\ \/ Works /\ cont' = [cont EXCEPT ![Slot1(s)] = "none"]
     \/ Fails /\ cont' \in {cont, [cont EXCEPT ![Slot1(s)] = "none"]}
  /\ Turn(s, "run")
  /\ UNCHANGED <<late, row, call, poolGhosts, called, expired>>

\* build_start_command: a container under the worker's name, which sleeps on.
Started(w) == [cont EXCEPT ![w] = "running"]

\* docker run: the name may be taken, the daemon gone, the container fail to
\* start, or the call time out while the daemon goes on with it.
Run(s) ==
  LET w == Slot1(s) IN
  /\ phase[s] = "run"
  /\ \/ /\ cont[w] = "none" /\ Works /\ Put(s, [call[s] EXCEPT !.saw = "done"], "running")
        /\ cont' = Started(w) /\ UNCHANGED late
     \/ /\ cont[w] # "none" /\ Works /\ Put(s, [call[s] EXCEPT !.saw = "done"], "error")
        /\ UNCHANGED <<cont, late>>
     \/ /\ Fails /\ Put(s, [call[s] EXCEPT !.saw = "done"], "error")
        /\ \/ UNCHANGED <<cont, late>>
           \/ cont[w] = "none" /\ cont' = [cont EXCEPT ![w] = "created"] /\ UNCHANGED late
           \/ late' = late \cup {w} /\ UNCHANGED cont
  /\ UNCHANGED <<row, poolGhosts, called, expired>>

LateRun(w) ==
  /\ w \in late /\ late' = late \ {w}
  /\ IF cont[w] = "none"
     THEN cont' = Started(w) /\ belated' = belated \cup {w}
     ELSE UNCHANGED <<cont, belated>>
  /\ UNCHANGED <<row, phase, call, racing, alone, twoStarts, cleaned, poolBounds>>

\* exec_in_container: after a success the row says running, otherwise what it said.
Exec(s) ==
  LET w == Slot1(s) IN
  /\ phase[s] = "exec"
  /\ \/ cont[w] = "running" /\ Works /\ Put(s, call[s], "running")
     \/ /\ IF cont[w] = "running" THEN Fails ELSE Works
        /\ Put(s, call[s], IF row[w] = "none" THEN "error" ELSE row[w])
  /\ UNCHANGED <<cont, late, row, poolGhosts, called, expired>>

\* stop_container, whose answer may be lost too.
Remove(s) ==
  LET w == Slot1(s) IN
  /\ phase[s] = "remove"
  /\ \/ /\ Works /\ cont' = [cont EXCEPT ![w] = "none"]
        /\ Put(s, call[s], IF cont[w] = "none" THEN "not_running" ELSE "stopped")
     \/ /\ Fails /\ Put(s, [call[s] EXCEPT !.ok = FALSE], "error")
        /\ cont' \in {cont, [cont EXCEPT ![w] = "none"]}
  /\ UNCHANGED <<late, row, poolGhosts, called, expired>>

\* _merge_worker_state and _write_containers load all rows and write them back.
LoadRows(s) ==
  /\ phase[s] = "load"
  /\ call' = [call EXCEPT ![s].snap = row]
  /\ racing' = (racing \/ \E q \in Runner : phase[q] = "store")
  /\ Turn(s, "store")
  /\ UNCHANGED <<cont, late, row, belated, alone, twoStarts, cleaned, poolBounds>>

\* Faulty: no row is written for a container that is not there.
OnlyPresent(snap, w, st) == IF st = "missing" THEN snap ELSE [snap EXCEPT ![w] = st]

Merged(snap, w, st) == [snap EXCEPT ![w] = st]

StoreRows(s) ==
  LET m == [call[s] EXCEPT !.snap = NoRows, !.put = "none", !.saw = "none"]
      then == IF Is(s, "start") /\ call[s].saw # "done" THEN AfterInspect(call[s].saw) ELSE "next" IN
  /\ phase[s] = "store"
  /\ row' = Merged(call[s].snap, Slot1(s), call[s].put)
  /\ IF then = "next" THEN GoOn(s, m, Tail(m.plan))
     ELSE Turn(s, then) /\ call' = [call EXCEPT ![s] = m] /\ UNCHANGED cleaned
  /\ UNCHANGED <<cont, late, belated, racing, alone, twoStarts, poolBounds>>

PoolStep(s) == Info(s) \/ ReadKnown(s) \/ Inspect(s) \/ Clear(s) \/ Run(s) \/ Exec(s)
           \/ Remove(s) \/ LoadRows(s) \/ StoreRows(s)

Expire(s) ==
  /\ phase[s] # "idle" /\ expired < MaxExpired
  /\ expired' = expired + 1
  /\ Turn(s, "idle") /\ call' = [call EXCEPT ![s] = NoCall]
  /\ UNCHANGED <<cont, late, row, poolGhosts, called, failures>>

ContainerExits(w) ==
  /\ cont[w] = "running" /\ Fails
  /\ cont' = [cont EXCEPT ![w] = "exited"]
  /\ UNCHANGED <<late, row, phase, call, poolGhosts, called, expired>>

PoolNext ==
  \/ \E s \in Runner : PoolStep(s) \/ Expire(s)
  \/ \E s \in Runner, w \in Slot : BeginPool(s, "exec", w)
  \/ \E s \in Runner, cmd \in PoolCommands \ {"exec"} : BeginPool(s, cmd, 1)
  \/ \E w \in Slot : LateRun(w) \/ ContainerExits(w)

PoolSpec == PoolInit /\ [][PoolNext]_poolVars
-----------------------------------------------------------------------------
(* Properties.                                                             *)

(* The values every variable takes. *)
PoolTypeOK ==
  /\ cont \in [Slot -> ContStates] /\ row \in [Slot -> RowStates]
  /\ late \subseteq Slot /\ belated \subseteq Slot /\ alone \subseteq Runner
  /\ \A s \in Runner : call[s].put \in RowStates
  /\ racing \in BOOLEAN /\ twoStarts \in BOOLEAN /\ cleaned \in BOOLEAN

(* A container that runs has a row, so that a cleanup finds it although the  *)
(* daemon does not answer docker ps: the row is written before the container *)
(* is started, whatever dies after.  Only sessions that rewrite containers.  *)
(* json at once lose one (docker_pool.start_container, _write_containers).   *)
RunningHasRow == racing \/ \A w \in Slot : cont[w] = "running" => row[w] # "none"

(* A cleanup that says ok leaves no container running, unless a start ran    *)
(* with it or a run that timed out is carried out later: lost rows are made  *)
(* up for by docker ps (docker_pool.cleanup_containers).                     *)
CleanedPool == cleaned => \A w \in Slot : cont[w] = "running" => w \in belated

\* The session whose start removes the container of a slot.
Clearing(s, w) == phase[s] = "clear" /\ Slot1(s) = w

(* A start does not remove a container that runs, although it goes by what   *)
(* docker inspect said earlier: only when another start, or a run that timed *)
(* out, started it in between (docker_pool.start_container).                 *)
RunningKept ==
  [][\A w \in Slot, s \in Runner :
       /\ Clearing(s, w) /\ phase'[s] = "run" /\ cont[w] = "running" /\ cont'[w] = "none"
       => w \in belated \/ twoStarts]_poolVars

(* containers.json accounts for every container that runs, and a cleanup     *)
(* leaves none (docker_pool.py).                                             *)
PoolAccounted == RunningHasRow /\ CleanedPool
=============================================================================
