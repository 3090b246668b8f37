------------------------------ MODULE Contest ------------------------------
(***************************************************************************)
(* Arming a contest and supervising its workers: contest_control.py and    *)
(* worker_supervisor.py.  Operators run commands, each a process of its    *)
(* own, over files that nothing locks: control.json, staged in a temporary *)
(* file whose name all writers share; arm.lock; and for every worker a     *)
(* .pid, a .command.json and a .status.json.  The workers are processes    *)
(* the commands start, signal and look up by pid, and a pid outlives its   *)
(* process in the files.  worker_commands.sh, which no code reads, and the *)
(* event log are left out; a rewrite of a worker's file is one step.       *)
(***************************************************************************)
EXTENDS Naturals, FiniteSets

CONSTANTS
  Operator,    \* sessions; each runs one command at a time
  Worker,      \* numbers of the workers a start asks for
  Pid,         \* process ids the system can give out
  NoPid,
  Commands,    \* the commands the operators use
  MaxBegun,    \* bound: commands begun in a behaviour
  MaxDeaths,   \* bound: sessions killed in the middle of a command
  MaxReused    \* bound: pids that come to name an unrelated process

Arming     == {"arm", "arm_quiet"}        \* arm_quiet: --no-live-submit
Supervising == {"start", "restart", "stop", "status", "disarm", "disarm_stop"}
Starting   == {"start", "restart"}
Controlling == Arming \cup {"prestart", "disarm", "disarm_stop"}

ASSUME ContestAssumption ==
  /\ Worker \subseteq Nat /\ IsFiniteSet(Worker) /\ Worker # {}
  /\ NoPid \notin Pid
  /\ Commands \subseteq Controlling \cup Supervising
  /\ MaxBegun \in Nat /\ MaxDeaths \in Nat /\ MaxReused \in Nat

VARIABLES
  control,    \* control.json: armed, allow_live_submit
  staged,     \* control.json.tmp, or Nothing
  lock,       \* arm.lock exists
  pidFile, command, status,   \* of each worker
  proc,       \* what runs under each pid
  pc, mem,    \* control state and locals of each session's command
  wish,       \* allow_live_submit of the last arm to write control.json
  off,        \* a disarm removed the lock while no arm ran, and none has begun since
  raced,      \* two commands that write control.json ran at once
  crowded,    \* a start or restart ran with another supervising command
  cleared,    \* the workers were stopped and no start has begun since
  strays,     \* pids of workers whose starter died before recording them
  begun, deaths, reused

files  == <<control, staged, lock>>
wfiles == <<pidFile, command, status>>
ghosts == <<wish, off, raced, crowded, cleared, strays>>
bounds == <<begun, deaths, reused>>
vars == <<files, wfiles, proc, pc, mem, ghosts, bounds>>

Control == [armed : BOOLEAN, live : BOOLEAN]
Default == [armed |-> FALSE, live |-> FALSE]
Nothing == [armed |-> FALSE, live |-> FALSE, none |-> TRUE]

\* status.json: "running", or one of the statuses of a worker that is not.
StatusFile == [st : {"none", "running", "ended"}, pid : Pid \cup {NoPid}]
NoStatus   == [st |-> "none", pid |-> NoPid]

\* A worker process is between runs, has read control.json or is in a run; it
\* was started with --live-submit or not.  late: the run began while off.
Gone    == [is |-> "gone"]
Foreign == [is |-> "foreign"]
Spawned(w, live) ==
  [is |-> "worker", w |-> w, live |-> live, run |-> "none", seen |-> Default, late |-> FALSE]
IsWorker(p) == proc[p].is = "worker"
Alive(p)    == p # NoPid /\ proc[p].is # "gone"

Blank == [cmd |-> "none", ctl |-> Default, todo |-> {}, seen |-> NoStatus, pid |-> NoPid,
          live |-> FALSE, stopped |-> FALSE, mark |-> NoStatus]

Init ==
  /\ control = Default /\ staged = Nothing /\ lock = FALSE
  /\ pidFile = [w \in Worker |-> NoPid]
  /\ command = [w \in Worker |-> "none"]
  /\ status = [w \in Worker |-> NoStatus]
  /\ proc = [p \in Pid |-> Gone]
  /\ pc = [o \in Operator |-> "idle"]
  /\ mem = [o \in Operator |-> Blank]
  /\ wish = FALSE /\ off = FALSE /\ raced = FALSE /\ crowded = FALSE /\ cleared = FALSE
  /\ strays = {} /\ begun = 0 /\ deaths = 0 /\ reused = 0
-----------------------------------------------------------------------------
(* Steps every command is made of.                                         *)

Goto(o, l) == pc' = [pc EXCEPT ![o] = l]
Busy(o, C) == mem[o].cmd \in C
Others(o, C) == \E p \in Operator \ {o} : Busy(p, C)

Leave(o) ==
  /\ Goto(o, "idle")
  /\ mem' = [mem EXCEPT ![o] = Blank]

\* The ghosts when a command ends having done all of its work.
Finish(o) ==
  /\ Leave(o)
  /\ cleared' = (cleared \/ Busy(o, {"stop", "disarm_stop"}))
  /\ UNCHANGED <<wish, off, raced, crowded, strays>>

FirstStep(cmd) ==
  CASE cmd \in Arming -> "stage"
    [] cmd \in {"prestart", "disarm", "disarm_stop", "start"} -> "read control"
    [] cmd \in {"stop", "status"} -> "list"
    [] cmd = "restart" -> "read command"

\* restart names one worker; the others work on all of them.
Begin(o, cmd, w) ==
  /\ pc[o] = "idle" /\ begun < MaxBegun /\ cmd \in Commands
  /\ Goto(o, FirstStep(cmd))
  /\ mem' = [mem EXCEPT ![o] = [Blank EXCEPT !.cmd = cmd,
                                             !.todo = IF cmd = "restart" THEN {w} ELSE Worker]]
  /\ begun' = begun + 1
  /\ off' = (off /\ cmd \notin Arming)
  /\ cleared' = (cleared /\ cmd \notin Starting)
  /\ raced' = (raced \/ (cmd \in Controlling /\ Others(o, Controlling)))
  /\ crowded' = \/ crowded
                \/ cmd \in Starting /\ Others(o, Supervising)
                \/ cmd \in Supervising /\ Others(o, Starting)
  /\ UNCHANGED <<files, wfiles, proc, wish, strays, deaths, reused>>
-----------------------------------------------------------------------------
(* control.json and arm.lock.                                              *)

\* Faulty: the lock file does not count.
ControlAlone(ctl, locked) == ctl

\* load_control: armed is what the file says and the lock file confirms.
Loaded(ctl, locked) == [ctl EXCEPT !.armed = ctl.armed /\ locked]

ReadControl(o) ==
  /\ pc[o] = "read control"
  /\ Goto(o, "look at lock")
  /\ mem' = [mem EXCEPT ![o].ctl = control]
  /\ UNCHANGED <<files, wfiles, proc, ghosts, bounds>>

\* start_workers is blocked unless the contest is armed.
LookAtLock(o) ==
  LET ctl == Loaded(mem[o].ctl, lock) IN
  /\ pc[o] = "look at lock"
  /\ IF Busy(o, {"start"})
     THEN IF ~ctl.armed THEN Leave(o)
          ELSE /\ Goto(o, "look")
               /\ mem' = [mem EXCEPT ![o].ctl = ctl, ![o].live = ctl.live]
     ELSE /\ Goto(o, "stage")
          /\ mem' = [mem EXCEPT ![o].ctl = ctl]
  /\ UNCHANGED <<files, wfiles, proc, ghosts, bounds>>

\* Faulty: an arm keeps a live permission it finds in the file.
KeepsLive(cmd, ctl) ==
  CASE cmd = "arm"       -> [armed |-> TRUE, live |-> TRUE]
    [] cmd = "arm_quiet" -> [armed |-> TRUE, live |-> control.live]
    [] OTHER             -> IF cmd = "prestart" /\ ctl.armed THEN ctl ELSE Default

\* What arm_contest, record_prestart and disarm_contest write.
NewControl(cmd, ctl) ==
  CASE cmd = "arm"       -> [armed |-> TRUE, live |-> TRUE]
    [] cmd = "arm_quiet" -> [armed |-> TRUE, live |-> FALSE]
    [] OTHER             -> IF cmd = "prestart" /\ ctl.armed THEN ctl ELSE Default

\* _write_json: write the temporary file, then rename it.
Stage(o) ==
  /\ pc[o] = "stage"
  /\ staged' = NewControl(mem[o].cmd, mem[o].ctl)
  /\ Goto(o, "rename")
  /\ UNCHANGED <<control, lock, wfiles, proc, mem, ghosts, bounds>>

AfterRename(cmd) == CASE cmd \in Arming     -> "lock"
                      [] cmd = "prestart"   -> "done"
                      [] OTHER              -> "unlock"

\* The rename fails, and the command with it, when another writer has renamed
\* the file they share.
Rename(o) ==
  /\ pc[o] = "rename"
  /\ IF staged = Nothing
     THEN Leave(o) /\ UNCHANGED <<control, staged, wish>>
     ELSE /\ control' = staged /\ staged' = Nothing
          /\ Goto(o, AfterRename(mem[o].cmd))
          /\ wish' = IF Busy(o, Arming) THEN Busy(o, {"arm"}) ELSE wish
          /\ UNCHANGED mem
  /\ UNCHANGED <<lock, wfiles, proc, off, raced, crowded, cleared, strays, bounds>>

WriteLock(o) ==
  /\ pc[o] = "lock"
  /\ lock' = TRUE
  /\ Finish(o)
  /\ UNCHANGED <<control, staged, wfiles, proc, bounds>>

EndPrestart(o) ==
  /\ pc[o] = "done"
  /\ Finish(o)
  /\ UNCHANGED <<files, wfiles, proc, bounds>>

\* disarm_contest goes on to stop the workers or to count them.
Unlink(o) ==
  /\ pc[o] = "unlock"
  /\ lock' = FALSE
  /\ Goto(o, "list")
  /\ off' = ~Others(o, Arming)
  /\ UNCHANGED <<control, staged, wfiles, proc, mem, wish, raced, crowded, cleared, strays, bounds>>
-----------------------------------------------------------------------------
(* The supervisor.  The workers of mem.todo are taken in order of number.  *)

First(S) == CHOOSE w \in S : \A v \in S : w <= v

\* Faulty: a pid file on its own does not make a worker known.
WithStatusOnly == {w \in Worker : status[w].st # "none"}

\* _known_worker_ids
Known == {w \in Worker : status[w].st # "none" \/ pidFile[w] # NoPid}

List(o) ==
  /\ pc[o] = "list"
  /\ IF Known = {} THEN Finish(o)
     ELSE /\ Goto(o, "look")
          /\ mem' = [mem EXCEPT ![o].todo = Known]
          /\ UNCHANGED ghosts
  /\ UNCHANGED <<files, wfiles, proc, bounds>>

\* On to the next worker, or the end of the command.
NextWorker(o) ==
  LET w == First(mem[o].todo) IN
  IF mem[o].todo = {w} THEN Finish(o)
  ELSE /\ Goto(o, "look")
       /\ mem' = [mem EXCEPT ![o].todo = @ \ {w}]
       /\ UNCHANGED ghosts

\* Faulty: the pid file never counts.
StatusOnly(w) == status[w]

\* _status_for_worker: the pid file counts only when there is no status.json.
Recorded(w) == IF status[w].st = "none" THEN [NoStatus EXCEPT !.pid = pidFile[w]] ELSE status[w]

Look(o) ==
  /\ pc[o] = "look"
  /\ Goto(o, "judge")
  /\ mem' = [mem EXCEPT ![o].seen = Recorded(First(mem[o].todo))]
  /\ UNCHANGED <<files, wfiles, proc, ghosts, bounds>>

\* Faulty: a dead worker keeps a status no reader knows.
UnknownStatus(seen) ==
  IF seen.pid # NoPid /\ ~Alive(seen.pid) THEN [seen EXCEPT !.st = "dead"] ELSE seen

\* The pid is looked up; a worker that was running, or of which only the pid
\* file told, and is dead is recorded as exited or stale.
Judged(seen) ==
  IF seen.pid # NoPid /\ ~Alive(seen.pid) THEN [seen EXCEPT !.st = "ended"] ELSE seen

Stopping(o) == \/ Busy(o, {"stop", "disarm_stop"})
               \/ Busy(o, {"restart"}) /\ ~mem[o].stopped

Judge(o) ==
  LET w == First(mem[o].todo)
      seen == mem[o].seen IN
  /\ pc[o] = "judge"
  /\ status' = IF Judged(seen) # seen THEN [status EXCEPT ![w] = Judged(seen)] ELSE status
  /\ IF Stopping(o)
     THEN /\ Goto(o, IF Alive(seen.pid) THEN "terminate" ELSE "read mark")
          /\ UNCHANGED <<mem, ghosts>>
     ELSE IF Busy(o, Starting) /\ ~Alive(seen.pid)
     THEN Goto(o, "spawn") /\ UNCHANGED <<mem, ghosts>>
     ELSE NextWorker(o)
  /\ UNCHANGED <<files, pidFile, command, proc, bounds>>

\* stop_worker signals whatever runs under the recorded pid.
Terminate(o) ==
  LET p == mem[o].seen.pid IN
  /\ pc[o] = "terminate"
  /\ \/ proc' = [proc EXCEPT ![p] = Gone] /\ Goto(o, "read mark") /\ strays' = strays \ {p}
     \/ proc[p].is = "foreign" /\ Goto(o, "kill") /\ UNCHANGED <<proc, strays>>
  /\ UNCHANGED <<files, wfiles, mem, wish, off, raced, crowded, cleared, bounds>>

Kill(o) ==
  /\ pc[o] = "kill"
  /\ proc' = [proc EXCEPT ![mem[o].seen.pid] = Gone]
  /\ Goto(o, "read mark")
  /\ strays' = strays \ {mem[o].seen.pid}
  /\ UNCHANGED <<files, wfiles, mem, wish, off, raced, crowded, cleared, bounds>>

\* _mark_stopped reads the status file again and rewrites it.
ReadMark(o) ==
  /\ pc[o] = "read mark"
  /\ mem' = [mem EXCEPT ![o].mark = status[First(mem[o].todo)]]
  /\ Goto(o, "mark")
  /\ UNCHANGED <<files, wfiles, proc, ghosts, bounds>>

Mark(o) ==
  LET w == First(mem[o].todo) IN
  /\ pc[o] = "mark"
  /\ status' = [status EXCEPT ![w] = [st |-> "ended", pid |-> mem[o].mark.pid]]
  /\ IF Busy(o, {"restart"})
     THEN /\ Goto(o, "look")
          /\ mem' = [mem EXCEPT ![o].stopped = TRUE]
          /\ UNCHANGED ghosts
     ELSE NextWorker(o)
  /\ UNCHANGED <<files, pidFile, command, proc, bounds>>

\* restart_worker runs the recorded command again, however old it is.
ReadCommand(o) ==
  LET w == First(mem[o].todo) IN
  /\ pc[o] = "read command"
  /\ IF command[w] = "none" THEN Leave(o)
     ELSE /\ Goto(o, "look")
          /\ mem' = [mem EXCEPT ![o].live = (command[w] = "live")]
  /\ UNCHANGED <<files, wfiles, proc, ghosts, bounds>>

Spawn(o) ==
  /\ pc[o] = "spawn"
  /\ \E p \in Pid :
       /\ ~Alive(p)
       /\ proc' = [proc EXCEPT ![p] = Spawned(First(mem[o].todo), mem[o].live)]
       /\ mem' = [mem EXCEPT ![o].pid = p]
       /\ strays' = strays \ {p}
  /\ Goto(o, "pid file")
  /\ UNCHANGED <<files, wfiles, wish, off, raced, crowded, cleared, bounds>>

WritePid(o) ==
  /\ pc[o] = "pid file"
  /\ pidFile' = [pidFile EXCEPT ![First(mem[o].todo)] = mem[o].pid]
  /\ Goto(o, "command file")
  /\ UNCHANGED <<files, command, status, proc, mem, ghosts, bounds>>

\* build_worker_loop_command: what of it another start or a reader looks at.
CommandLine(live) == IF live THEN "live" ELSE "plain"

WriteCommand(o) ==
  /\ pc[o] = "command file"
  /\ command' = [command EXCEPT ![First(mem[o].todo)] = CommandLine(mem[o].live)]
  /\ Goto(o, "status file")
  /\ UNCHANGED <<files, pidFile, status, proc, mem, ghosts, bounds>>

WriteStatus(o) ==
  /\ pc[o] = "status file"
  /\ status' = [status EXCEPT ![First(mem[o].todo)] = [st |-> "running", pid |-> mem[o].pid]]
  /\ NextWorker(o)
  /\ UNCHANGED <<files, pidFile, command, proc, bounds>>

Step(o) ==
  \/ ReadControl(o) \/ LookAtLock(o) \/ Stage(o) \/ Rename(o) \/ WriteLock(o)
  \/ EndPrestart(o) \/ Unlink(o) \/ List(o) \/ Look(o) \/ Judge(o)
  \/ Terminate(o) \/ Kill(o) \/ ReadMark(o) \/ Mark(o) \/ ReadCommand(o)
  \/ Spawn(o) \/ WritePid(o) \/ WriteCommand(o) \/ WriteStatus(o)

\* The worker a session that dies leaves behind where no one looks for it.
LeftBehind(o) ==
  LET w == First(mem[o].todo) IN
  IF \/ pc[o] = "pid file"
     \/ pc[o] \in {"command file", "status file"} /\ status[w].st # "none"
  THEN {mem[o].pid} ELSE {}

Die(o) ==
  /\ pc[o] # "idle" /\ deaths < MaxDeaths
  /\ strays' = strays \cup LeftBehind(o)
  /\ deaths' = deaths + 1
  /\ Leave(o)
  /\ UNCHANGED <<files, wfiles, proc, wish, off, raced, crowded, cleared, begun, reused>>
-----------------------------------------------------------------------------
(* The processes.                                                          *)

\* run_worker_once reads the contest's flags when a run begins.
ReadFlags(p) ==
  /\ IsWorker(p) /\ proc[p].run = "none"
  /\ proc' = [proc EXCEPT ![p].run = "read", ![p].seen = control, ![p].late = off]
  /\ UNCHANGED <<files, wfiles, pc, mem, ghosts, bounds>>

ConfirmFlags(p) ==
  /\ IsWorker(p) /\ proc[p].run = "read"
  /\ proc' = [proc EXCEPT ![p].run = "running", ![p].seen = Loaded(proc[p].seen, lock),
                                   ![p].late = proc[p].late /\ off]
  /\ UNCHANGED <<files, wfiles, pc, mem, ghosts, bounds>>

EndRun(p) ==
  /\ IsWorker(p) /\ proc[p].run = "running"
  /\ proc' = [proc EXCEPT ![p].run = "none", ![p].seen = Default, ![p].late = FALSE]
  /\ UNCHANGED <<files, wfiles, pc, mem, ghosts, bounds>>

Exit(p) ==
  /\ IsWorker(p) /\ proc[p].run = "none"
  /\ proc' = [proc EXCEPT ![p] = Gone]
  /\ strays' = strays \ {p}
  /\ UNCHANGED <<files, wfiles, pc, mem, wish, off, raced, crowded, cleared, bounds>>

\* The system gives a pid some file still names to a process of its own.
Reuse(p) ==
  /\ ~Alive(p) /\ reused < MaxReused
  /\ p \in {pidFile[w] : w \in Worker}
  /\ proc' = [proc EXCEPT ![p] = Foreign]
  /\ reused' = reused + 1
  /\ UNCHANGED <<files, wfiles, pc, mem, ghosts, begun, deaths>>

Next ==
  \/ \E o \in Operator : Step(o) \/ Die(o)
  \/ \E o \in Operator, cmd \in Commands \ {"restart"} : Begin(o, cmd, First(Worker))
  \/ \E o \in Operator, w \in Worker : Begin(o, "restart", w)
  \/ \E p \in Pid : ReadFlags(p) \/ ConfirmFlags(p) \/ EndRun(p) \/ Exit(p) \/ Reuse(p)

Spec == Init /\ [][Next]_vars
-----------------------------------------------------------------------------
(* Properties.                                                             *)

(* The values every variable takes. *)
TypeOK ==
  /\ control \in Control /\ staged \in Control \cup {Nothing} /\ lock \in BOOLEAN
  /\ pidFile \in [Worker -> Pid \cup {NoPid}]
  /\ command \in [Worker -> {"none", "live", "plain"}]
  /\ status \in [Worker -> StatusFile]
  /\ \A p \in Pid : \/ proc[p] \in {Gone, Foreign}
                   \/ /\ proc[p] \in [is : {"worker"}, w : Worker, live : BOOLEAN,
                                      run : {"none", "read", "running"}, seen : Control,
                                      late : BOOLEAN]
  /\ strays \subseteq Pid
  /\ <<wish, off, raced, crowded, cleared>> \in
        BOOLEAN \X BOOLEAN \X BOOLEAN \X BOOLEAN \X BOOLEAN

\* What check_action_allowed asks for before a run posts a flag: an armed
\* contest that allows live submission, and a worker started to submit.
MayPost(p) == /\ IsWorker(p) /\ proc[p].run = "running"
              /\ proc[p].seen.armed /\ proc[p].seen.live /\ proc[p].live

(* A run that begins after a disarm removed the lock posts nothing until an  *)
(* arm is begun: not even when a prestart that loaded the armed control before   *)
(* writes it back, a session died between the two files, or the worker was   *)
(* restarted with the command of the armed contest (contest_control.load_    *)
(* control, worker_loop.run_worker_once).                                    *)
DisarmHolds == \A p \in Pid : MayPost(p) => ~proc[p].late

(* Unless two commands wrote control.json at once, an armed contest allows   *)
(* live submission only if the last arm to write the file asked for it,      *)
(* whatever crashes, prestarts and disarms came in between (arm_contest,     *)
(* record_prestart).                                                         *)
LiveAsArmed == raced \/ (control.armed /\ lock /\ control.live => wish)

(* The one place a later command looks for a worker's pid. *)
Found(p) == Recorded(proc[p].w).pid = p

\* A starter that will still record p.
Unrecorded(p) == \E o \in Operator : /\ mem[o].pid = p
                                     /\ pc[o] \in {"pid file", "command file", "status file"}

(* A worker that runs is found by its pid, unless its starter is not done or *)
(* died before it recorded it, or a start ran together with another          *)
(* supervising command: an old status file hides the pid file, so a start    *)
(* that died halfway, a mark or a status must not leave one (worker_         *)
(* supervisor.start_worker_process, _status_for_worker, _mark_stopped).      *)
WorkersFound ==
  crowded \/ \A p \in Pid : IsWorker(p) => p \in strays \/ Unrecorded(p) \/ Found(p)

(* No worker has two processes, with the same exceptions: two would claim    *)
(* under one worker_id (start_worker_process looks before it starts one).    *)
OneProcess ==
  crowded \/ \A p, q \in Pid :
               IsWorker(p) /\ IsWorker(q) /\ p # q /\ proc[p].w = proc[q].w
                 => {p, q} \cap strays # {}

(* Once a stop or a disarm --stop-workers has finished, no worker runs until *)
(* one is started again, but those whose starter died: also a worker of      *)
(* which only the pid file tells (stop_workers, _known_worker_ids).          *)
StoppedAll == crowded \/ (cleared => \A p \in Pid : IsWorker(p) => p \in strays)

(* What the operators asked for last is what the contest allows: neither a   *)
(* disarm nor a narrower arm is undone by what else touches control.json.    *)
ArmingHolds == DisarmHolds /\ LiveAsArmed

(* The supervisor's files account for every worker process there is, and its *)
(* stop leaves none (worker_supervisor.py).                                  *)
WorkersAccounted == WorkersFound /\ OneProcess /\ StoppedAll
=============================================================================
