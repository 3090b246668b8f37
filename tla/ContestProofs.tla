---------------------------- MODULE ContestProofs ----------------------------
(***************************************************************************)
(* Proofs about Contest for every set of operators, workers and pids, and  *)
(* any number of commands and deaths: type correctness, that what the last *)
(* arm or disarm asked for holds, and that the supervisor's files account  *)
(* for every worker process.                                               *)
(***************************************************************************)
EXTENDS Contest, FiniteSetTheorems, TLAPS

USE ContestAssumption
-----------------------------------------------------------------------------
(* The control flow of the commands.                                       *)

\* The steps that record a worker that was just started, and all the steps
\* on one worker.
Recording == {"pid file", "command file", "status file"}
Handling  == {"look", "judge", "terminate", "kill", "read mark", "mark", "spawn"} \cup Recording

\* The places in the commands.
Labels == {"idle", "read control", "look at lock", "stage", "rename", "lock", "done", "unlock",
           "list", "read command"} \cup Handling

\* The values of a command's locals.
Locals == [cmd : Commands \cup {"none"}, ctl : Control, todo : SUBSET Worker, seen : StatusFile,
           pid : Pid \cup {NoPid}, live : BOOLEAN, stopped : BOOLEAN, mark : StatusFile]

\* What can be under a pid.
ProcStates == {Gone, Foreign} \cup
  [is : {"worker"}, w : Worker, live : BOOLEAN, run : {"none", "read", "running"},
   seen : Control, late : BOOLEAN]

\* What a command at label l may have in its locals.
Fits(l, m) ==
  /\ l = "idle" <=> m.cmd = "none"
  /\ m.cmd # "none" => m.todo # {}
  /\ l \in {"stage", "rename"} => m.cmd \in Controlling
  /\ l = "lock" => m.cmd \in Arming
  /\ l = "done" => m.cmd = "prestart"
  /\ l = "unlock" => m.cmd \in {"disarm", "disarm_stop"}
  /\ l \in {"read control", "look at lock"} => m.cmd \in {"prestart", "disarm", "disarm_stop", "start"}
  /\ l = "list" => m.cmd \in Supervising \ Starting
  /\ l = "read command" => m.cmd = "restart"
  /\ l \in Handling => m.cmd \in Supervising
  /\ l \in Recording \cup {"spawn"} => m.cmd \in Starting
  /\ l \in Recording => m.pid \in Pid

\* The files and processes hold values of their kinds; every session is
\* where its locals fit; Base says both.
FilesTyped == TypeOK /\ proc \in [Pid -> ProcStates]
Flow == \A o \in Operator : Fits(pc[o], mem[o])

Base == FilesTyped /\ pc \in [Operator -> Labels] /\ mem \in [Operator -> Locals] /\ Flow

(* One session moves.                                                      *)
Shift(o) ==
  /\ pc' \in [Operator -> Labels] /\ mem' \in [Operator -> Locals]
  /\ Fits(pc'[o], mem'[o])
  /\ \A x \in Operator \ {o} : pc'[x] = pc[x] /\ mem'[x] = mem[x]

\* The command ends; the command goes on with the same workers to do.
Ends(o) == pc'[o] = "idle" /\ mem'[o] = Blank

Keeps(o) == mem'[o].cmd = mem[o].cmd /\ mem'[o].todo = mem[o].todo

\* A finite set of numbers has a least one.
LEMMA LeastOf ==
  ASSUME NEW S \in SUBSET Nat, IsFiniteSet(S), S # {}
  PROVE  First(S) \in S
  <1> DEFINE Below(w) == {v \in S : v <= w}
             F == {Below(w) : w \in S}
  <1>1. IsWellFoundedOn(StrictSubsetOrdering(S), FiniteSubsetsOf(S))
    BY FS_StrictSubsetOrderingWellFounded
  <1>2. FiniteSubsetsOf(S) = SUBSET S
    BY FS_FiniteSubsetsOfFinite
  <1>3. F \subseteq SUBSET S /\ F # {}
    OBVIOUS
  <1>4. \E B \in F : \A C \in F : ~ (<<C, B>> \in StrictSubsetOrdering(S))
    <2>1. F \subseteq FiniteSubsetsOf(S)
      BY <1>2, <1>3
    <2> HIDE DEF F
    <2> QED
      BY <1>1, <1>3, <2>1, WFMin, Zenon
  <1>5. PICK w \in S : \A v \in S : <<Below(v), Below(w)>> \notin StrictSubsetOrdering(S)
    <2>1. PICK B \in F : \A C \in F : ~ (<<C, B>> \in StrictSubsetOrdering(S))
      BY <1>4
    <2>2. PICK w \in S : B = Below(w)
      BY <2>1
    <2>3. \A v \in S : Below(v) \in F
      OBVIOUS
    <2>4. \A v \in S : <<Below(v), Below(w)>> \notin StrictSubsetOrdering(S)
      <3> HIDE DEF F
      <3> QED
        BY <2>1, <2>2, <2>3
    <2> QED
      BY <2>4
  <1>6. ASSUME NEW v \in S, v < w PROVE FALSE
    <2>0. v \in Nat /\ w \in Nat /\ \A y \in S : y \in Nat
      BY <1>6
    <2>1. Below(v) \subseteq Below(w)
      <3>1. ASSUME NEW y \in S, y <= v PROVE y <= w
        <4>1. y \in Nat
          BY <2>0
        <4> QED
          BY <1>6, <2>0, <3>1, <4>1
      <3> QED
        BY <3>1
    <2>2. w \in Below(w) /\ w \notin Below(v)
      BY <1>6, <2>0
    <2>3. <<Below(v), Below(w)>> \in StrictSubsetOrdering(S)
      BY <2>1, <2>2 DEF StrictSubsetOrdering
    <2> QED
      BY <1>5, <2>3
  <1>7. \A v \in S : w <= v
    <2> SUFFICES ASSUME NEW v \in S PROVE ~ (v < w)
      OBVIOUS
    <2> QED
      BY <1>6
  <1> QED
    BY <1>7 DEF First

(* A command that has workers to do has a first one.                       *)
LEMMA FirstToDo ==
  ASSUME Base, NEW o \in Operator, mem[o].cmd # "none"
  PROVE  First(mem[o].todo) \in mem[o].todo /\ First(mem[o].todo) \in Worker
  <1>1. mem[o].todo \subseteq Worker /\ mem[o].todo # {}
    BY DEF Base, Flow, Fits, Locals
  <1>2. IsFiniteSet(mem[o].todo)
    BY <1>1, FS_Subset
  <1> QED
    BY <1>1, <1>2, LeastOf

(* No command is called "none".                                            *)
LEMMA CommandNamesAre ==
  /\ "none" \notin Commands
  /\ Commands \subseteq Arming \cup {"prestart", "disarm", "disarm_stop"} \cup Supervising
  BY DEF Controlling, Supervising, Arming

\* An idle session has blank locals.
LEMMA BlankFits == Blank \in Locals /\ Fits("idle", Blank) /\ Blank.cmd = "none"
  BY DEF Blank, Locals, Fits, Default, Control, NoStatus, StatusFile, Handling, Recording

(* A session goes to l with the locals m.                                  *)
LEMMA ShiftTo ==
  ASSUME Base, NEW o \in Operator, NEW l \in Labels, NEW m \in Locals, Fits(l, m),
         pc' = [pc EXCEPT ![o] = l], mem' = [mem EXCEPT ![o] = m]
  PROVE  Shift(o) /\ pc'[o] = l /\ mem'[o] = m
  BY DEF Base, Shift

\* A session goes to l and keeps its locals.
LEMMA Stays ==
  ASSUME Base, NEW o \in Operator, NEW l \in Labels, Fits(l, mem[o]),
         pc' = [pc EXCEPT ![o] = l], mem' = mem
  PROVE  Shift(o) /\ pc'[o] = l /\ mem'[o] = mem[o]
  BY DEF Base, Shift

\* A session ends its command.
LEMMA Leaving ==
  ASSUME Base, NEW o \in Operator, Leave(o)
  PROVE  Shift(o) /\ Ends(o)
  <1>1. pc' = [pc EXCEPT ![o] = "idle"] /\ mem' = [mem EXCEPT ![o] = Blank] /\ "idle" \in Labels
    BY DEF Leave, Goto, Labels
  <1> QED
    BY <1>1, BlankFits, ShiftTo DEF Ends

(* A session is done with a worker: its command ends, or takes the next.   *)
LEMMA NextWorkerShifts ==
  ASSUME Base, NEW o \in Operator, pc[o] \in Handling, NextWorker(o)
  PROVE  /\ Shift(o)
         /\ \/ Ends(o) /\ Finish(o) /\ mem[o].todo = {First(mem[o].todo)}
            \/ /\ pc'[o] = "look" /\ mem'[o].cmd = mem[o].cmd /\ UNCHANGED ghosts
               /\ mem'[o].todo = mem[o].todo \ {First(mem[o].todo)}
  <1> DEFINE w == First(mem[o].todo)
             m == [mem[o] EXCEPT !.todo = mem[o].todo \ {w}]
  <1>1. mem[o] \in Locals /\ mem[o].cmd # "none" /\ mem[o].cmd \in Supervising
    BY DEF Base, Flow, Fits, Handling, Recording
  <1>2. w \in mem[o].todo
    BY <1>1, FirstToDo
  <1>3. CASE mem[o].todo = {w}
    <2>1. Finish(o)
      BY <1>3 DEF NextWorker
    <2> QED
      BY <1>3, <2>1, Leaving DEF Finish
  <1>4. CASE mem[o].todo # {w}
    <2>1. pc' = [pc EXCEPT ![o] = "look"] /\ mem' = [mem EXCEPT ![o].todo = @ \ {w}] /\ UNCHANGED ghosts
      BY <1>4 DEF NextWorker, Goto
    <2>2. mem' = [mem EXCEPT ![o] = m]
      BY <2>1 DEF Base
    <2>3. m \in Locals /\ m.cmd = mem[o].cmd /\ m.todo = mem[o].todo \ {w}
      BY <1>1 DEF Locals
    <2>4. mem[o].todo \ {w} # {}
      BY <1>2, <1>4
    <2> HIDE DEF m, w
    <2>5. Fits("look", m) /\ "look" \in Labels
      BY <1>1, <2>3, <2>4 DEF Fits, Labels, Handling, Recording
    <2>6. Shift(o) /\ pc'[o] = "look" /\ mem'[o] = m
      BY <2>1, <2>2, <2>3, <2>5, ShiftTo
    <2> QED
      BY <2>1, <2>3, <2>6 DEF w
  <1> QED
    BY <1>3, <1>4
-----------------------------------------------------------------------------
(* What each step does to the locals of its session.                       *)

\* Where each step leads and which locals it changes.
LEMMA ReadControlMoves ==
  ASSUME Base, NEW o \in Operator, ReadControl(o)
  PROVE  /\ Shift(o) /\ pc'[o] = "look at lock"
         /\ mem'[o] = [mem[o] EXCEPT !.ctl = control] /\ Keeps(o)
  <1> DEFINE m == [mem[o] EXCEPT !.ctl = control]
  <1>1. pc' = [pc EXCEPT ![o] = "look at lock"] /\ mem' = [mem EXCEPT ![o].ctl = control]
    BY DEF ReadControl, Goto
  <1>2. mem' = [mem EXCEPT ![o] = m]
    BY <1>1 DEF Base
  <1>3. mem[o] \in Locals /\ control \in Control /\ Fits(pc[o], mem[o]) /\ pc[o] = "read control"
    BY DEF Base, Flow, FilesTyped, TypeOK, ReadControl
  <1>4. m \in Locals /\ m.cmd = mem[o].cmd /\ m.todo = mem[o].todo
    BY <1>3 DEF Locals
  <1> HIDE DEF m
  <1>5. Fits("look at lock", m) /\ "look at lock" \in Labels
    BY <1>3, <1>4 DEF Fits, Labels, Handling, Recording
  <1>6. Shift(o) /\ pc'[o] = "look at lock" /\ mem'[o] = m
    BY <1>1, <1>2, <1>4, <1>5, ShiftTo
  <1> QED
    BY <1>4, <1>6 DEF m, Keeps

LEMMA LookAtLockMoves ==
  ASSUME Base, NEW o \in Operator, LookAtLock(o)
  PROVE  /\ Shift(o)
         /\ \/ Ends(o)
            \/ mem[o].cmd = "start" /\ pc'[o] = "look" /\ Keeps(o)
            \/ /\ mem[o].cmd # "start" /\ pc'[o] = "stage" /\ Keeps(o)
               /\ mem'[o] = [mem[o] EXCEPT !.ctl = Loaded(mem[o].ctl, lock)]
  <1> DEFINE ctl == Loaded(mem[o].ctl, lock)
  <1>1. /\ mem[o] \in Locals /\ lock \in BOOLEAN /\ Fits(pc[o], mem[o]) /\ pc[o] = "look at lock"
    BY DEF Base, Flow, FilesTyped, TypeOK, LookAtLock
  <1>2. ctl \in Control
    <2>1. mem[o].ctl \in Control
      BY <1>1 DEF Locals
    <2>2. ctl = [armed |-> mem[o].ctl.armed /\ lock, live |-> mem[o].ctl.live]
      BY <2>1 DEF Loaded, Control
    <2>3. (mem[o].ctl.armed /\ lock) \in BOOLEAN /\ mem[o].ctl.live \in BOOLEAN
      BY <2>1 DEF Control
    <2> QED
      BY <2>2, <2>3 DEF Control
  <1> HIDE DEF ctl
  <1>3. CASE mem[o].cmd = "start" /\ ~ctl.armed
    <2>1. Leave(o)
      BY <1>3 DEF LookAtLock, Busy, ctl
    <2> QED
      BY <2>1, Leaving
  <1>4. CASE mem[o].cmd = "start" /\ ctl.armed
    <2> DEFINE m == [mem[o] EXCEPT !.ctl = ctl, !.live = ctl.live]
    <2>1. pc' = [pc EXCEPT ![o] = "look"] /\ mem' = [mem EXCEPT ![o].ctl = ctl, ![o].live = ctl.live]
      BY <1>4 DEF LookAtLock, Busy, ctl, Goto
    <2>2. mem' = [mem EXCEPT ![o] = m]
      BY <2>1 DEF Base
    <2>3. ctl.live \in BOOLEAN
      BY <1>2 DEF Control
    <2>4. m \in Locals /\ m.cmd = mem[o].cmd /\ m.todo = mem[o].todo
      BY <1>1, <1>2, <2>3 DEF Locals
    <2> HIDE DEF m
    <2>5. Fits("look", m) /\ "look" \in Labels
      BY <1>1, <1>4, <2>4 DEF Fits, Labels, Handling, Recording, Supervising
    <2>6. Shift(o) /\ pc'[o] = "look" /\ mem'[o] = m
      BY <2>1, <2>2, <2>4, <2>5, ShiftTo
    <2> QED
      BY <1>4, <2>4, <2>6 DEF Keeps
  <1>5. CASE mem[o].cmd # "start"
    <2> DEFINE m == [mem[o] EXCEPT !.ctl = ctl]
    <2>1. pc' = [pc EXCEPT ![o] = "stage"] /\ mem' = [mem EXCEPT ![o].ctl = ctl]
      BY <1>5 DEF LookAtLock, Busy, ctl, Goto
    <2>2. mem' = [mem EXCEPT ![o] = m]
      BY <2>1 DEF Base
    <2>3. m \in Locals /\ m.cmd = mem[o].cmd /\ m.todo = mem[o].todo
      BY <1>1, <1>2 DEF Locals
    <2> HIDE DEF m
    <2>4. Fits("stage", m) /\ "stage" \in Labels
      BY <1>1, <1>5, <2>3 DEF Fits, Labels, Handling, Recording, Controlling, Arming
    <2>5. Shift(o) /\ pc'[o] = "stage" /\ mem'[o] = m
      BY <2>1, <2>2, <2>3, <2>4, ShiftTo
    <2> QED
      BY <1>5, <2>3, <2>5 DEF Keeps, m, ctl
  <1> QED
    BY <1>3, <1>4, <1>5

LEMMA StageMoves ==
  ASSUME Base, NEW o \in Operator, Stage(o)
  PROVE  Shift(o) /\ pc'[o] = "rename" /\ mem'[o] = mem[o]
  <1>1. pc' = [pc EXCEPT ![o] = "rename"] /\ mem' = mem /\ pc[o] = "stage"
    BY DEF Stage, Goto
  <1>2. Fits("rename", mem[o]) /\ "rename" \in Labels
    BY <1>1 DEF Base, Flow, Fits, Labels, Handling, Recording
  <1> QED
    BY <1>1, <1>2, Stays

LEMMA RenameMoves ==
  ASSUME Base, NEW o \in Operator, Rename(o)
  PROVE  /\ Shift(o)
         /\ \/ staged = Nothing /\ Ends(o) /\ UNCHANGED <<control, staged, wish>>
            \/ /\ staged # Nothing /\ pc'[o] = AfterRename(mem[o].cmd) /\ mem'[o] = mem[o]
               /\ control' = staged /\ staged' = Nothing
               /\ wish' = IF mem[o].cmd \in Arming THEN mem[o].cmd = "arm" ELSE wish
  <1>1. pc[o] = "rename" /\ mem[o].cmd \in Controlling /\ Fits(pc[o], mem[o])
    BY DEF Base, Flow, Fits, Rename
  <1>2. CASE staged = Nothing
    BY <1>2, Leaving DEF Rename
  <1>3. CASE staged # Nothing
    <2> DEFINE l == AfterRename(mem[o].cmd)
    <2>1. \/ mem[o].cmd \in Arming /\ l = "lock"
          \/ mem[o].cmd = "prestart" /\ l = "done"
          \/ mem[o].cmd \in {"disarm", "disarm_stop"} /\ l = "unlock"
      BY <1>1, Zenon DEF Controlling, Arming, AfterRename
    <2> HIDE DEF l
    <2>2. pc' = [pc EXCEPT ![o] = l] /\ mem' = mem
      BY <1>3 DEF Rename, Goto, l
    <2>3. Fits(l, mem[o]) /\ l \in Labels
      BY <1>1, <2>1 DEF Fits, Labels, Handling, Recording
    <2>4. Shift(o) /\ pc'[o] = l /\ mem'[o] = mem[o]
      BY <2>2, <2>3, Stays
    <2> QED
      BY <1>3, <2>4 DEF l, Rename, Busy
  <1> QED
    BY <1>2, <1>3

LEMMA UnlinkMoves ==
  ASSUME Base, NEW o \in Operator, Unlink(o)
  PROVE  Shift(o) /\ pc'[o] = "list" /\ mem'[o] = mem[o]
  <1>1. pc' = [pc EXCEPT ![o] = "list"] /\ mem' = mem /\ pc[o] = "unlock"
    BY DEF Unlink, Goto
  <1>2. mem[o].cmd \in {"disarm", "disarm_stop"} /\ mem[o].todo # {}
    BY <1>1 DEF Base, Flow, Fits
  <1>3. Fits("list", mem[o]) /\ "list" \in Labels
    <2>1. "list" \in Labels /\ "list" \notin Handling \cup {"spawn"}
      BY DEF Labels, Handling, Recording
    <2>2. mem[o].cmd \in Supervising \ Starting
      BY <1>2 DEF Supervising, Starting
    <2> QED
      BY <1>2, <2>1, <2>2 DEF Fits, Recording
  <1> QED
    BY <1>1, <1>3, Stays

(* stop_workers goes through the workers a file tells of.                  *)
LEMMA ListMoves ==
  ASSUME Base, NEW o \in Operator, List(o)
  PROVE  /\ Shift(o)
         /\ \/ Known = {} /\ Ends(o) /\ Finish(o)
            \/ /\ pc'[o] = "look" /\ mem'[o].cmd = mem[o].cmd /\ mem'[o].todo = Known
               /\ UNCHANGED ghosts
  <1>1. mem[o] \in Locals /\ Fits(pc[o], mem[o]) /\ pc[o] = "list"
    BY DEF Base, Flow, List
  <1>2. CASE Known = {}
    BY <1>2, Leaving DEF List, Finish
  <1>3. CASE Known # {}
    <2> DEFINE m == [mem[o] EXCEPT !.todo = Known]
    <2>1. pc' = [pc EXCEPT ![o] = "look"] /\ mem' = [mem EXCEPT ![o].todo = Known] /\ UNCHANGED ghosts
      BY <1>3 DEF List, Goto
    <2>2. mem' = [mem EXCEPT ![o] = m]
      BY <2>1 DEF Base
    <2>3. Known \subseteq Worker
      BY DEF Known
    <2>4. m \in Locals /\ m.cmd = mem[o].cmd /\ m.todo = Known
      BY <1>1, <2>3 DEF Locals
    <2> HIDE DEF m
    <2>5. Fits("look", m) /\ "look" \in Labels
      BY <1>1, <1>3, <2>4 DEF Fits, Labels, Handling, Recording
    <2>6. Shift(o) /\ pc'[o] = "look" /\ mem'[o] = m
      BY <2>1, <2>2, <2>4, <2>5, ShiftTo
    <2> QED
      BY <2>1, <2>4, <2>6
  <1> QED
    BY <1>2, <1>3

LEMMA LookMoves ==
  ASSUME Base, NEW o \in Operator, Look(o)
  PROVE  /\ Shift(o) /\ pc'[o] = "judge" /\ Keeps(o)
         /\ mem'[o] = [mem[o] EXCEPT !.seen = Recorded(First(mem[o].todo))]
  <1> DEFINE s == Recorded(First(mem[o].todo))
             m == [mem[o] EXCEPT !.seen = s]
  <1>1. mem[o] \in Locals /\ Fits(pc[o], mem[o]) /\ pc[o] = "look"
    BY DEF Base, Flow, Look
  <1>2. s \in StatusFile
    <2>1. First(mem[o].todo) \in Worker
      BY <1>1, FirstToDo DEF Fits
    <2> QED
      BY <2>1 DEF Recorded, Base, FilesTyped, TypeOK, StatusFile, NoStatus
  <1> HIDE DEF s
  <1>3. pc' = [pc EXCEPT ![o] = "judge"] /\ mem' = [mem EXCEPT ![o].seen = s]
    BY DEF Look, Goto, s
  <1>4. mem' = [mem EXCEPT ![o] = m]
    BY <1>3 DEF Base
  <1>5. m \in Locals /\ m.cmd = mem[o].cmd /\ m.todo = mem[o].todo
    BY <1>1, <1>2 DEF Locals
  <1> HIDE DEF m
  <1>6. Fits("judge", m) /\ "judge" \in Labels
    BY <1>1, <1>5 DEF Fits, Labels, Handling, Recording
  <1>7. Shift(o) /\ pc'[o] = "judge" /\ mem'[o] = m
    BY <1>3, <1>4, <1>5, <1>6, ShiftTo
  <1> QED
    BY <1>5, <1>7 DEF m, s, Keeps

(* A worker that is alive, or was stopped, or is to be started.            *)
LEMMA JudgeMoves ==
  ASSUME Base, NEW o \in Operator, Judge(o)
  PROVE  /\ Shift(o)
         /\ \/ /\ Stopping(o) /\ mem'[o] = mem[o] /\ UNCHANGED ghosts
               /\ pc'[o] = IF Alive(mem[o].seen.pid) THEN "terminate" ELSE "read mark"
            \/ /\ mem[o].cmd \in Starting /\ ~Alive(mem[o].seen.pid) /\ mem'[o] = mem[o]
               /\ pc'[o] = "spawn" /\ UNCHANGED ghosts
            \/ /\ ~Stopping(o)
               /\ Ends(o) /\ Finish(o) /\ mem[o].todo = {First(mem[o].todo)}
            \/ /\ ~Stopping(o)
               /\ pc'[o] = "look" /\ mem'[o].cmd = mem[o].cmd /\ UNCHANGED ghosts
               /\ mem'[o].todo = mem[o].todo \ {First(mem[o].todo)}
  <1>1. pc[o] = "judge" /\ mem[o].cmd \in Supervising /\ Fits(pc[o], mem[o])
    BY DEF Base, Flow, Fits, Handling, Recording, Judge
  <1> DEFINE l == IF Alive(mem[o].seen.pid) THEN "terminate" ELSE "read mark"
  <1>2. CASE Stopping(o)
    <2>1. pc' = [pc EXCEPT ![o] = l] /\ mem' = mem /\ UNCHANGED ghosts
      BY <1>2 DEF Judge, Goto
    <2>2. Fits(l, mem[o]) /\ l \in Labels
      BY <1>1 DEF Fits, Labels, Handling, Recording
    <2> HIDE DEF l
    <2>3. Shift(o) /\ pc'[o] = l /\ mem'[o] = mem[o]
      BY <2>1, <2>2, Stays
    <2> QED
      BY <1>2, <2>1, <2>3 DEF l
  <1>3. CASE ~Stopping(o) /\ mem[o].cmd \in Starting /\ ~Alive(mem[o].seen.pid)
    <2>1. pc' = [pc EXCEPT ![o] = "spawn"] /\ mem' = mem /\ UNCHANGED ghosts
      BY <1>3 DEF Judge, Goto, Busy
    <2>2. Fits("spawn", mem[o]) /\ "spawn" \in Labels
      BY <1>1, <1>3 DEF Fits, Labels, Handling, Recording
    <2> QED
      BY <1>3, <2>1, <2>2, Stays
  <1>4. CASE ~Stopping(o) /\ ~(mem[o].cmd \in Starting /\ ~Alive(mem[o].seen.pid))
    <2>1. NextWorker(o)
      BY <1>4 DEF Judge, Busy
    <2>2. pc[o] \in Handling
      BY <1>1 DEF Handling
    <2> QED
      BY <1>4, <2>1, <2>2, NextWorkerShifts
  <1> QED
    BY <1>2, <1>3, <1>4

LEMMA TerminateMoves ==
  ASSUME Base, NEW o \in Operator, Terminate(o)
  PROVE  Shift(o) /\ pc'[o] \in {"read mark", "kill"} /\ mem'[o] = mem[o]
  <1>1. mem' = mem /\ pc[o] = "terminate" /\ Fits(pc[o], mem[o])
    BY DEF Base, Flow, Terminate
  <1>2. PICK l \in {"read mark", "kill"} : pc' = [pc EXCEPT ![o] = l]
    BY DEF Terminate, Goto
  <1>3. Fits(l, mem[o]) /\ l \in Labels
    BY <1>1 DEF Fits, Labels, Handling, Recording
  <1> QED
    BY <1>1, <1>2, <1>3, Stays

LEMMA KillMoves ==
  ASSUME Base, NEW o \in Operator, Kill(o)
  PROVE  Shift(o) /\ pc'[o] = "read mark" /\ mem'[o] = mem[o]
  <1>1. mem' = mem /\ pc' = [pc EXCEPT ![o] = "read mark"] /\ pc[o] = "kill" /\ Fits(pc[o], mem[o])
    BY DEF Base, Flow, Kill, Goto
  <1>2. Fits("read mark", mem[o]) /\ "read mark" \in Labels
    BY <1>1 DEF Fits, Labels, Handling, Recording
  <1> QED
    BY <1>1, <1>2, Stays

LEMMA ReadMarkMoves ==
  ASSUME Base, NEW o \in Operator, ReadMark(o)
  PROVE  /\ Shift(o) /\ pc'[o] = "mark" /\ Keeps(o)
         /\ mem'[o] = [mem[o] EXCEPT !.mark = status[First(mem[o].todo)]]
  <1> DEFINE s == status[First(mem[o].todo)]
             m == [mem[o] EXCEPT !.mark = s]
  <1>1. mem[o] \in Locals /\ Fits(pc[o], mem[o]) /\ pc[o] = "read mark"
    BY DEF Base, Flow, ReadMark
  <1>2. s \in StatusFile
    <2>1. First(mem[o].todo) \in Worker
      BY <1>1, FirstToDo DEF Fits
    <2> QED
      BY <2>1 DEF Base, FilesTyped, TypeOK
  <1> HIDE DEF s
  <1>3. pc' = [pc EXCEPT ![o] = "mark"] /\ mem' = [mem EXCEPT ![o].mark = s]
    BY DEF ReadMark, Goto, s
  <1>4. mem' = [mem EXCEPT ![o] = m]
    BY <1>3 DEF Base
  <1>5. m \in Locals /\ m.cmd = mem[o].cmd /\ m.todo = mem[o].todo
    BY <1>1, <1>2 DEF Locals
  <1> HIDE DEF m
  <1>6. Fits("mark", m) /\ "mark" \in Labels
    BY <1>1, <1>5 DEF Fits, Labels, Handling, Recording
  <1>7. Shift(o) /\ pc'[o] = "mark" /\ mem'[o] = m
    BY <1>3, <1>4, <1>5, <1>6, ShiftTo
  <1> QED
    BY <1>5, <1>7 DEF m, s, Keeps

LEMMA MarkMoves ==
  ASSUME Base, NEW o \in Operator, Mark(o)
  PROVE  /\ Shift(o)
         /\ \/ /\ mem[o].cmd = "restart" /\ pc'[o] = "look" /\ Keeps(o) /\ UNCHANGED ghosts
            \/ Ends(o) /\ Finish(o) /\ mem[o].todo = {First(mem[o].todo)}
            \/ /\ pc'[o] = "look" /\ mem'[o].cmd = mem[o].cmd /\ UNCHANGED ghosts
               /\ mem'[o].todo = mem[o].todo \ {First(mem[o].todo)}
  <1>1. mem[o] \in Locals /\ Fits(pc[o], mem[o]) /\ pc[o] = "mark"
    BY DEF Base, Flow, Mark
  <1>2. CASE mem[o].cmd = "restart"
    <2> DEFINE m == [mem[o] EXCEPT !.stopped = TRUE]
    <2>1. pc' = [pc EXCEPT ![o] = "look"] /\ mem' = [mem EXCEPT ![o].stopped = TRUE] /\ UNCHANGED ghosts
      BY <1>2 DEF Mark, Goto, Busy
    <2>2. mem' = [mem EXCEPT ![o] = m]
      BY <2>1 DEF Base
    <2>3. m \in Locals /\ m.cmd = mem[o].cmd /\ m.todo = mem[o].todo
      BY <1>1 DEF Locals
    <2> HIDE DEF m
    <2>4. Fits("look", m) /\ "look" \in Labels
      BY <1>1, <2>3 DEF Fits, Labels, Handling, Recording
    <2>5. Shift(o) /\ pc'[o] = "look" /\ mem'[o] = m
      BY <2>1, <2>2, <2>3, <2>4, ShiftTo
    <2> QED
      BY <1>2, <2>1, <2>3, <2>5 DEF Keeps
  <1>3. CASE mem[o].cmd # "restart"
    <2>1. NextWorker(o)
      BY <1>3 DEF Mark, Busy
    <2>2. pc[o] \in Handling
      BY <1>1 DEF Handling
    <2> QED
      BY <2>1, <2>2, NextWorkerShifts
  <1> QED
    BY <1>2, <1>3

LEMMA ReadCommandMoves ==
  ASSUME Base, NEW o \in Operator, ReadCommand(o)
  PROVE  Shift(o) /\ (Ends(o) \/ (pc'[o] = "look" /\ Keeps(o)))
  <1>1. mem[o] \in Locals /\ Fits(pc[o], mem[o]) /\ pc[o] = "read command"
    BY DEF Base, Flow, ReadCommand
  <1>2. CASE Leave(o)
    BY <1>2, Leaving
  <1>3. CASE ~Leave(o)
    <2>1. PICK b \in BOOLEAN : pc' = [pc EXCEPT ![o] = "look"] /\ mem' = [mem EXCEPT ![o].live = b]
      <3>1. (command[First(mem[o].todo)] = "live") \in BOOLEAN
        OBVIOUS
      <3> QED
        BY <1>3, <3>1, Zenon DEF ReadCommand, Goto
    <2> DEFINE m == [mem[o] EXCEPT !.live = b]
    <2>2. mem' = [mem EXCEPT ![o] = m]
      BY <2>1 DEF Base
    <2>3. m \in Locals /\ m.cmd = mem[o].cmd /\ m.todo = mem[o].todo
      BY <1>1 DEF Locals
    <2> HIDE DEF m
    <2>4. Fits("look", m) /\ "look" \in Labels
      BY <1>1, <2>3 DEF Fits, Labels, Handling, Recording, Supervising
    <2>5. Shift(o) /\ pc'[o] = "look" /\ mem'[o] = m
      BY <2>1, <2>2, <2>3, <2>4, ShiftTo
    <2> QED
      BY <2>3, <2>5 DEF Keeps
  <1> QED
    BY <1>2, <1>3

LEMMA SpawnMoves ==
  ASSUME Base, NEW o \in Operator, Spawn(o)
  PROVE  \E p \in Pid :
           /\ Shift(o) /\ pc'[o] = "pid file" /\ Keeps(o) /\ mem'[o].pid = p
           /\ ~Alive(p) /\ strays' = strays \ {p}
           /\ proc' = [proc EXCEPT ![p] = Spawned(First(mem[o].todo), mem[o].live)]
  <1>1. mem[o] \in Locals /\ Fits(pc[o], mem[o]) /\ pc[o] = "spawn"
    BY DEF Base, Flow, Spawn
  <1>2. PICK p \in Pid :
          /\ ~Alive(p) /\ strays' = strays \ {p} /\ mem' = [mem EXCEPT ![o].pid = p]
          /\ proc' = [proc EXCEPT ![p] = Spawned(First(mem[o].todo), mem[o].live)]
    BY DEF Spawn
  <1> DEFINE m == [mem[o] EXCEPT !.pid = p]
  <1>3. pc' = [pc EXCEPT ![o] = "pid file"] /\ mem' = [mem EXCEPT ![o] = m]
    BY <1>2 DEF Spawn, Goto, Base
  <1>4. m \in Locals /\ m.cmd = mem[o].cmd /\ m.todo = mem[o].todo /\ m.pid = p
    BY <1>1 DEF Locals
  <1> HIDE DEF m
  <1>5. Fits("pid file", m) /\ "pid file" \in Labels
    BY <1>1, <1>4 DEF Fits, Labels, Handling, Recording
  <1>6. Shift(o) /\ pc'[o] = "pid file" /\ mem'[o] = m
    BY <1>3, <1>4, <1>5, ShiftTo
  <1> QED
    BY <1>2, <1>4, <1>6 DEF Keeps

LEMMA WriteFilesMoves ==
  ASSUME Base, NEW o \in Operator, WritePid(o) \/ WriteCommand(o)
  PROVE  /\ Shift(o) /\ mem'[o] = mem[o]
         /\ \/ pc[o] = "pid file" /\ pc'[o] = "command file" /\ WritePid(o)
            \/ pc[o] = "command file" /\ pc'[o] = "status file" /\ WriteCommand(o)
  <1>1. mem' = mem /\ Fits(pc[o], mem[o])
    BY DEF Base, Flow, WritePid, WriteCommand
  <1>2. PICK l \in {"command file", "status file"} :
          /\ pc' = [pc EXCEPT ![o] = l]
          /\ \/ pc[o] = "pid file" /\ l = "command file" /\ WritePid(o)
             \/ pc[o] = "command file" /\ l = "status file" /\ WriteCommand(o)
    BY DEF WritePid, WriteCommand, Goto
  <1>3. Fits(l, mem[o]) /\ l \in Labels
    BY <1>1, <1>2 DEF Fits, Labels, Handling, Recording
  <1> QED
    BY <1>1, <1>2, <1>3, Stays

LEMMA WriteStatusMoves ==
  ASSUME Base, NEW o \in Operator, WriteStatus(o)
  PROVE  /\ Shift(o)
         /\ \/ Ends(o) /\ Finish(o) /\ mem[o].todo = {First(mem[o].todo)}
            \/ /\ pc'[o] = "look" /\ mem'[o].cmd = mem[o].cmd /\ UNCHANGED ghosts
               /\ mem'[o].todo = mem[o].todo \ {First(mem[o].todo)}
  <1>1. NextWorker(o) /\ pc[o] \in Handling
    BY DEF WriteStatus, Handling, Recording
  <1> QED
    BY <1>1, NextWorkerShifts

LEMMA BeginMoves ==
  ASSUME Base, NEW o \in Operator, NEW cmd \in Commands, NEW w \in Worker, Begin(o, cmd, w)
  PROVE  /\ Shift(o) /\ pc'[o] = FirstStep(cmd) /\ pc'[o] \notin Handling \cup {"rename", "lock", "look at lock"}
         /\ mem'[o].cmd = cmd /\ mem'[o].ctl = Default
  <1> DEFINE T == IF cmd = "restart" THEN {w} ELSE Worker
             m == [Blank EXCEPT !.cmd = cmd, !.todo = T]
  <1>1. pc' = [pc EXCEPT ![o] = FirstStep(cmd)] /\ mem' = [mem EXCEPT ![o] = m]
    BY DEF Begin, Goto
  <1>2. T \subseteq Worker /\ T # {}
    OBVIOUS
  <1> HIDE DEF T
  <1>3. m \in Locals /\ m.cmd = cmd /\ m.todo = T /\ m.ctl = Default
    BY <1>2, BlankFits DEF Locals, Blank
  <1>4. /\ \/ cmd \in Arming /\ FirstStep(cmd) = "stage"
           \/ cmd \in {"prestart", "disarm", "disarm_stop", "start"} /\ FirstStep(cmd) = "read control"
           \/ cmd \in {"stop", "status"} /\ FirstStep(cmd) = "list"
           \/ cmd = "restart" /\ FirstStep(cmd) = "read command"
    BY CommandNamesAre, Zenon DEF FirstStep, Supervising, Arming
  <1> HIDE DEF m
  <1>5. Fits(FirstStep(cmd), m) /\ FirstStep(cmd) \in Labels
    BY <1>2, <1>3, <1>4 DEF Fits, Labels, Handling, Recording, Arming, Controlling, Supervising, Starting
  <1>6. Shift(o) /\ pc'[o] = FirstStep(cmd) /\ mem'[o] = m
    BY <1>1, <1>3, <1>5, ShiftTo
  <1>7. FirstStep(cmd) \notin Handling \cup {"rename", "lock", "look at lock"}
    BY <1>4 DEF Handling, Recording
  <1> QED
    BY <1>3, <1>6, <1>7
-----------------------------------------------------------------------------
(* Every variable keeps its type, every command its control flow.          *)

\* The types of the files and processes, before and after a step.
LEMMA FilesNow ==
  ASSUME FilesTyped
  PROVE  /\ control \in Control /\ staged \in Control \cup {Nothing} /\ lock \in BOOLEAN
         /\ pidFile \in [Worker -> Pid \cup {NoPid}]
         /\ command \in [Worker -> {"none", "live", "plain"}]
         /\ status \in [Worker -> StatusFile]
         /\ proc \in [Pid -> ProcStates] /\ strays \subseteq Pid
         /\ wish \in BOOLEAN /\ off \in BOOLEAN /\ raced \in BOOLEAN
         /\ crowded \in BOOLEAN /\ cleared \in BOOLEAN
  BY DEF FilesTyped, TypeOK

LEMMA FilesNext ==
  ASSUME control' \in Control, staged' \in Control \cup {Nothing}, lock' \in BOOLEAN,
         pidFile' \in [Worker -> Pid \cup {NoPid}],
         command' \in [Worker -> {"none", "live", "plain"}],
         status' \in [Worker -> StatusFile],
         proc' \in [Pid -> ProcStates], strays' \subseteq Pid,
         wish' \in BOOLEAN, off' \in BOOLEAN, raced' \in BOOLEAN,
         crowded' \in BOOLEAN, cleared' \in BOOLEAN
  PROVE  FilesTyped'
  <1>1. \A p \in Pid : proc'[p] \in ProcStates
    OBVIOUS
  <1>2. \A p \in Pid : \/ proc'[p] \in {Gone, Foreign}
                       \/ /\ proc'[p] \in [is : {"worker"}, w : Worker, live : BOOLEAN,
                                          run : {"none", "read", "running"}, seen : Control,
                                          late : BOOLEAN]
    BY <1>1 DEF ProcStates
  <1>3. <<wish, off, raced, crowded, cleared>>' \in
          BOOLEAN \X BOOLEAN \X BOOLEAN \X BOOLEAN \X BOOLEAN
    OBVIOUS
  <1> QED
    BY <1>2, <1>3 DEF FilesTyped, TypeOK

\* Base is kept by a session's move that keeps the types of the files.
LEMMA BaseKept ==
  ASSUME Base, NEW o \in Operator, Shift(o), FilesTyped'
  PROVE  Base'
  <1>1. ASSUME NEW x \in Operator PROVE Fits(pc'[x], mem'[x])
    BY DEF Base, Flow, Shift
  <1> QED
    BY <1>1 DEF Base, Flow, Shift

\* A step that writes no file: at most its command ends.
OnlyLocals(o) ==
  UNCHANGED <<files, wfiles, proc>> /\ (UNCHANGED ghosts \/ Finish(o))

\* A step that changes no ghost but cleared.
LEMMA GhostsTyped ==
  ASSUME Base, NEW o \in Operator, UNCHANGED ghosts \/ Finish(o)
  PROVE  /\ UNCHANGED <<wish, off, raced, crowded, strays>> /\ cleared' \in BOOLEAN
         /\ cleared' => cleared \/ mem[o].cmd \in {"stop", "disarm_stop"}
  <1>1. cleared \in BOOLEAN
    BY FilesNow DEF Base
  <1>2. CASE UNCHANGED ghosts
    BY <1>1, <1>2 DEF ghosts
  <1>3. CASE Finish(o)
    <2>1. (cleared \/ Busy(o, {"stop", "disarm_stop"})) \in BOOLEAN
      OBVIOUS
    <2> QED
      BY <1>3, <2>1 DEF Finish, Busy
  <1> QED
    BY <1>2, <1>3

\* A step on its own locals keeps Base.
LEMMA OnlyLocalsKeepBase ==
  ASSUME Base, NEW o \in Operator, Shift(o), OnlyLocals(o)
  PROVE  Base'
  <1>1. UNCHANGED <<wish, off, raced, crowded, strays>> /\ cleared' \in BOOLEAN
    BY GhostsTyped DEF OnlyLocals
  <1>2. UNCHANGED <<control, staged, lock, pidFile, command, status, proc>>
    BY DEF OnlyLocals, files, wfiles
  <1>3. FilesTyped'
    BY <1>1, <1>2, FilesNow, FilesNext DEF Base
  <1> QED
    BY <1>3, BaseKept

(* The steps that write no file.                                           *)
LEMMA QuietSteps ==
  ASSUME Base, NEW o \in Operator,
         \/ ReadControl(o) \/ LookAtLock(o) \/ EndPrestart(o) \/ List(o) \/ Look(o)
         \/ ReadMark(o) \/ ReadCommand(o)
  PROVE  Shift(o) /\ OnlyLocals(o) /\ Base'
  <1>1. Shift(o)
    <2>1. CASE EndPrestart(o)
      BY <2>1, Leaving DEF EndPrestart, Finish
    <2> QED
      BY <2>1, ReadControlMoves, LookAtLockMoves, ListMoves, LookMoves, ReadMarkMoves,
         ReadCommandMoves
  <1>2. OnlyLocals(o)
    BY DEF OnlyLocals, ReadControl, LookAtLock, EndPrestart, List, Look, ReadMark, ReadCommand
  <1> QED
    BY <1>1, <1>2, OnlyLocalsKeepBase

(* The steps that write control.json or arm.lock.                          *)
LEMMA ControlSteps ==
  ASSUME Base, NEW o \in Operator, Stage(o) \/ Rename(o) \/ WriteLock(o) \/ Unlink(o)
  PROVE  Shift(o) /\ UNCHANGED <<wfiles, proc, raced, crowded, strays>> /\ Base'
  <1>1. Shift(o)
    <2>1. CASE WriteLock(o)
      BY <2>1, Leaving DEF WriteLock, Finish
    <2> QED
      BY <2>1, StageMoves, RenameMoves, UnlinkMoves
  <1>2. UNCHANGED <<wfiles, proc, raced, crowded, strays>>
    BY DEF Stage, Rename, WriteLock, Unlink, ghosts, Finish
  <1>3. mem[o] \in Locals /\ FilesTyped
    BY DEF Base
  <1>4. /\ control' \in Control /\ staged' \in Control \cup {Nothing} /\ lock' \in BOOLEAN
        /\ wish' \in BOOLEAN /\ off' \in BOOLEAN /\ cleared' \in BOOLEAN
    <2>1. CASE Stage(o)
      <3>1. NewControl(mem[o].cmd, mem[o].ctl) \in Control
        BY <1>3 DEF NewControl, Locals, Control, Default
      <3> QED
        BY <1>3, <2>1, <3>1, FilesNow DEF Stage, ghosts
    <2>2. CASE Rename(o)
      <3>1. wish \in BOOLEAN /\ Busy(o, {"arm"}) \in BOOLEAN
        BY <1>3, FilesNow DEF Busy
      <3>2. wish' \in BOOLEAN
        BY <2>2, <3>1 DEF Rename
      <3> QED
        BY <1>3, <2>2, <3>2, FilesNow DEF Rename
    <2>3. CASE WriteLock(o)
      BY <1>3, <2>3, FilesNow, GhostsTyped DEF WriteLock
    <2>4. CASE Unlink(o)
      <3>1. (~Others(o, Arming)) \in BOOLEAN
        BY DEF Others
      <3>2. off' \in BOOLEAN
        BY <2>4, <3>1 DEF Unlink
      <3> QED
        BY <1>3, <2>4, <3>2, FilesNow DEF Unlink
    <2> QED
      BY <2>1, <2>2, <2>3, <2>4
  <1>5. FilesTyped'
    BY <1>2, <1>3, <1>4, FilesNow, FilesNext DEF wfiles
  <1> QED
    BY <1>1, <1>2, <1>5, BaseKept

(* The steps that write a file of a worker, or start or end its process.   *)
LEMMA WorkerSteps ==
  ASSUME Base, NEW o \in Operator,
         \/ Judge(o) \/ Terminate(o) \/ Kill(o) \/ Mark(o) \/ Spawn(o)
         \/ WritePid(o) \/ WriteCommand(o) \/ WriteStatus(o)
  PROVE  /\ Shift(o) /\ UNCHANGED <<files, wish, off, raced, crowded>> /\ cleared' \in BOOLEAN
         /\ cleared' => cleared \/ mem[o].cmd \in {"stop", "disarm_stop"}
         /\ Base'
  <1>1. Shift(o)
    BY JudgeMoves, TerminateMoves, KillMoves, MarkMoves, SpawnMoves, WriteFilesMoves,
       WriteStatusMoves
  <1>2. /\ UNCHANGED <<files, wish, off, raced, crowded>> /\ cleared' \in BOOLEAN
        /\ strays' \subseteq strays
        /\ cleared' => cleared \/ mem[o].cmd \in {"stop", "disarm_stop"}
    <2>1. CASE Judge(o) \/ Mark(o) \/ WriteStatus(o)
      <3>1. UNCHANGED ghosts \/ Finish(o)
        BY <2>1, JudgeMoves, MarkMoves, WriteStatusMoves
      <3> QED
        BY <2>1, <3>1, GhostsTyped DEF Judge, Mark, WriteStatus
    <2>2. CASE Terminate(o) \/ Kill(o) \/ Spawn(o) \/ WritePid(o) \/ WriteCommand(o)
      <3>1. cleared \in BOOLEAN
        BY FilesNow DEF Base
      <3>2. UNCHANGED <<files, wish, off, raced, crowded>>
        BY <2>2 DEF Terminate, Kill, Spawn, WritePid, WriteCommand, ghosts
      <3>3. strays' \subseteq strays
        BY <2>2 DEF Terminate, Kill, Spawn, WritePid, WriteCommand, ghosts
      <3>4. cleared' = cleared
        BY <2>2 DEF Terminate, Kill, Spawn, WritePid, WriteCommand, ghosts
      <3> QED
        BY <3>1, <3>2, <3>3, <3>4
    <2> QED
      BY <2>1, <2>2
  <1>3. mem[o] \in Locals /\ Fits(pc[o], mem[o]) /\ FilesTyped
    BY DEF Base, Flow
  <1>4. mem[o].cmd # "none"
    BY <1>3 DEF Fits, Judge, Terminate, Kill, Mark, Spawn, WritePid, WriteCommand, WriteStatus
  <1> DEFINE w == First(mem[o].todo)
  <1>5. w \in Worker
    BY <1>4, FirstToDo
  <1> HIDE DEF w
  <1>6. /\ pidFile' \in [Worker -> Pid \cup {NoPid}]
        /\ command' \in [Worker -> {"none", "live", "plain"}]
    <2>1. CASE WritePid(o)
      BY <1>3, <2>1, FilesNow DEF WritePid, Locals
    <2>2. CASE WriteCommand(o)
      BY <1>3, <2>2, FilesNow DEF WriteCommand, CommandLine
    <2>3. CASE ~WritePid(o) /\ ~WriteCommand(o)
      BY <1>3, <2>3, FilesNow DEF Judge, Terminate, Kill, Mark, Spawn, WriteStatus, wfiles
    <2> QED
      BY <2>1, <2>2, <2>3
  <1>7. status' \in [Worker -> StatusFile]
    <2>1. ASSUME NEW s \in StatusFile PROVE Judged(s) \in StatusFile
      BY DEF Judged, StatusFile
    <2>2. CASE Judge(o)
      BY <1>3, <2>1, <2>2, FilesNow DEF Judge, Locals
    <2>3. CASE Mark(o)
      <3>1. [st |-> "ended", pid |-> mem[o].mark.pid] \in StatusFile
        BY <1>3 DEF Locals, StatusFile
      <3> QED
        BY <1>3, <2>3, <3>1, FilesNow DEF Mark
    <2>4. CASE WriteStatus(o)
      <3>1. [st |-> "running", pid |-> mem[o].pid] \in StatusFile
        BY <1>3 DEF Locals, StatusFile
      <3> QED
        BY <1>3, <2>4, <3>1, FilesNow DEF WriteStatus
    <2>5. CASE ~Judge(o) /\ ~Mark(o) /\ ~WriteStatus(o)
      BY <1>3, <2>5, FilesNow DEF Terminate, Kill, Spawn, WritePid, WriteCommand, wfiles
    <2> QED
      BY <2>2, <2>3, <2>4, <2>5
  <1>8. proc' \in [Pid -> ProcStates]
    <2>1. CASE Spawn(o)
      <3>1. Spawned(w, mem[o].live) \in ProcStates
        BY <1>3, <1>5 DEF Spawned, ProcStates, Locals, Default, Control
      <3> QED
        BY <1>3, <2>1, <3>1, FilesNow DEF Spawn, w
    <2>2. CASE Terminate(o) \/ Kill(o)
      BY <1>3, <2>2, FilesNow DEF Terminate, Kill, ProcStates
    <2>3. CASE ~Spawn(o) /\ ~Terminate(o) /\ ~Kill(o)
      BY <1>3, <2>3, FilesNow DEF Judge, Mark, WritePid, WriteCommand, WriteStatus, wfiles
    <2> QED
      BY <2>1, <2>2, <2>3
  <1>9. FilesTyped'
    <2>1. /\ control \in Control /\ staged \in Control \cup {Nothing} /\ lock \in BOOLEAN
          /\ wish \in BOOLEAN /\ off \in BOOLEAN /\ raced \in BOOLEAN /\ crowded \in BOOLEAN
          /\ strays \subseteq Pid
      BY <1>3, FilesNow
    <2> QED
      BY <1>2, <1>6, <1>7, <1>8, <2>1, FilesNext DEF files
  <1> QED
    BY <1>1, <1>2, <1>9, BaseKept

\* A command begins.
LEMMA BeginKeepsBase ==
  ASSUME Base, NEW o \in Operator, NEW cmd \in Commands, NEW w \in Worker, Begin(o, cmd, w)
  PROVE  Base'
  <1>1. Shift(o) /\ FilesTyped
    BY BeginMoves DEF Base
  <1>2. /\ (off /\ cmd \notin Arming) \in BOOLEAN /\ (cleared /\ cmd \notin Starting) \in BOOLEAN
        /\ (raced \/ (cmd \in Controlling /\ Others(o, Controlling))) \in BOOLEAN
        /\ (\/ crowded
            \/ cmd \in Starting /\ Others(o, Supervising)
            \/ cmd \in Supervising /\ Others(o, Starting)) \in BOOLEAN
    OBVIOUS
  <1>3. /\ UNCHANGED <<control, staged, lock, pidFile, command, status, proc, wish, strays>>
        /\ off' \in BOOLEAN /\ cleared' \in BOOLEAN /\ raced' \in BOOLEAN /\ crowded' \in BOOLEAN
    BY <1>2 DEF Begin, files, wfiles
  <1>4. FilesTyped'
    BY <1>1, <1>3, FilesNow, FilesNext
  <1> QED
    BY <1>1, <1>4, BaseKept

(* The pids a session that dies leaves behind are pids.                    *)
LEMMA DieKeepsBase ==
  ASSUME Base, NEW o \in Operator, Die(o)
  PROVE  Shift(o) /\ Ends(o) /\ LeftBehind(o) \subseteq Pid /\ Base'
  <1>1. Shift(o) /\ Ends(o) /\ FilesTyped /\ Fits(pc[o], mem[o])
    BY Leaving DEF Die, Base, Flow
  <1>2. LeftBehind(o) \subseteq Pid
    BY <1>1 DEF LeftBehind, Fits, Recording
  <1>3. strays' \subseteq Pid
    BY <1>1, <1>2, FilesNow DEF Die
  <1>4. UNCHANGED <<control, staged, lock, pidFile, command, status, proc, wish, off, raced,
                    crowded, cleared>>
    BY DEF Die, files, wfiles
  <1>5. FilesTyped'
    BY <1>1, <1>3, <1>4, FilesNow, FilesNext
  <1> QED
    BY <1>1, <1>2, <1>5, BaseKept

\* What may happen to a process on its own.
ProcessStep(p) == ReadFlags(p) \/ ConfirmFlags(p) \/ EndRun(p) \/ Exit(p) \/ Reuse(p)

\* What a process does on its own: it stays what it is, or ends.
LEMMA ProcessSteps ==
  ASSUME Base, NEW p \in Pid, ProcessStep(p)
  PROVE  /\ UNCHANGED <<files, wfiles, pc, mem, wish, off, raced, crowded, cleared>>
         /\ strays' = strays \/ (strays' = strays \ {p} /\ proc'[p] = Gone)
         /\ \A q \in Pid \ {p} : proc'[q] = proc[q]
         /\ \/ proc'[p] \in {Gone, Foreign}
            \/ IsWorker(p) /\ proc'[p].is = "worker" /\ proc'[p].w = proc[p].w
         /\ Base'
  <1>1. FilesTyped /\ proc \in [Pid -> ProcStates]
    BY FilesNow DEF Base
  <1>2. /\ UNCHANGED <<files, wfiles, pc, mem, wish, off, raced, crowded, cleared>>
        /\ strays' \subseteq strays
    BY DEF ProcessStep, ReadFlags, ConfirmFlags, EndRun, Exit, Reuse, ghosts
  <1>3. PICK x \in ProcStates :
          /\ proc' = [proc EXCEPT ![p] = x]
          /\ x \in {Gone, Foreign} \/ (IsWorker(p) /\ x.is = "worker" /\ x.w = proc[p].w)
    <2>1. CASE Exit(p) \/ Reuse(p)
      BY <2>1 DEF Exit, Reuse, ProcStates
    <2>2. CASE ReadFlags(p) \/ ConfirmFlags(p) \/ EndRun(p)
      <3>1. proc[p] \in ProcStates \ {Gone, Foreign} /\ IsWorker(p)
        BY <1>1, <2>2 DEF ReadFlags, ConfirmFlags, EndRun, IsWorker, Gone, Foreign
      <3>2. control \in Control /\ off \in BOOLEAN /\ lock \in BOOLEAN
        BY <1>1, FilesNow
      <3>3. \A c \in Control : Loaded(c, lock) \in Control
        <4> SUFFICES ASSUME NEW c \in Control PROVE Loaded(c, lock) \in Control
          OBVIOUS
        <4>1. (c.armed /\ lock) \in BOOLEAN /\ c.live \in BOOLEAN
          BY DEF Control
        <4>2. Loaded(c, lock) = [armed |-> c.armed /\ lock, live |-> c.live]
          BY DEF Loaded, Control
        <4> QED
          BY <4>1, <4>2 DEF Control
      <3>4. PICK r \in {"none", "read", "running"}, s \in Control, l \in BOOLEAN :
              proc' = [proc EXCEPT ![p].run = r, ![p].seen = s, ![p].late = l]
        <4>1. CASE ReadFlags(p)
          BY <3>2, <4>1 DEF ReadFlags
        <4>2. CASE ConfirmFlags(p)
          <5>1. (proc[p].late /\ off) \in BOOLEAN
            OBVIOUS
          <5>2. Loaded(proc[p].seen, lock) \in Control
            BY <3>1, <3>3 DEF ProcStates
          <5> QED
            BY <4>2, <5>1, <5>2 DEF ConfirmFlags
        <4>3. CASE EndRun(p)
          BY <4>3 DEF EndRun, Default, Control
        <4> QED
          BY <2>2, <4>1, <4>2, <4>3
      <3> DEFINE y == [proc[p] EXCEPT !.run = r, !.seen = s, !.late = l]
      <3>5. y \in ProcStates /\ y.is = "worker" /\ y.w = proc[p].w
        BY <3>1 DEF ProcStates
      <3>6. proc' = [proc EXCEPT ![p] = y]
        BY <1>1, <3>4
      <3> HIDE DEF y
      <3> QED
        BY <3>1, <3>5, <3>6
    <2> QED
      BY <2>1, <2>2 DEF ProcessStep
  <1>4. /\ proc' \in [Pid -> ProcStates]
        /\ \A q \in Pid \ {p} : proc'[q] = proc[q]
        /\ proc'[p] = x
    BY <1>1, <1>3
  <1>5. strays' = strays \/ (strays' = strays \ {p} /\ proc'[p] = Gone)
    BY <1>1 DEF ProcessStep, ReadFlags, ConfirmFlags, EndRun, Exit, Reuse, ghosts
  <1>6. FilesTyped'
    BY <1>1, <1>2, <1>4, FilesNow, FilesNext DEF files, wfiles
  <1>7. Base'
    BY <1>2, <1>6 DEF Base, Flow
  <1> QED
    BY <1>2, <1>3, <1>4, <1>5, <1>7

\* Base is inductive.
LEMMA InitBase == Init => Base
  <1> SUFFICES ASSUME Init PROVE Base
    OBVIOUS
  <1>1. pc \in [Operator -> Labels] /\ mem \in [Operator -> Locals] /\ Flow
    BY BlankFits DEF Init, Flow, Labels
  <1>2. FilesTyped
    BY DEF Init, FilesTyped, TypeOK, Default, Control, NoStatus, StatusFile, Gone, ProcStates
  <1> QED
    BY <1>1, <1>2 DEF Base

\* A command that works on all the workers has a first one.
LEMMA FirstIsWorker == First(Worker) \in Worker
  BY LeastOf, ContestAssumption

\* A step of a session, its death, or the beginning of one of its commands.
SessionStep(o) ==
  \/ Step(o) \/ Die(o)
  \/ \E cmd \in Commands, w \in Worker : Begin(o, cmd, w)

\* The steps, by who takes them.
LEMMA EveryStep ==
  ASSUME [Next]_vars
  PROVE  \/ \E o \in Operator : SessionStep(o)
         \/ \E p \in Pid : ProcessStep(p)
         \/ UNCHANGED vars
  <1>1. ASSUME NEW o \in Operator, NEW cmd \in Commands \ {"restart"}, Begin(o, cmd, First(Worker))
        PROVE  SessionStep(o)
    BY <1>1, FirstIsWorker DEF SessionStep
  <1>2. ASSUME NEW o \in Operator, NEW w \in Worker, Begin(o, "restart", w)
        PROVE  SessionStep(o)
    BY <1>2 DEF SessionStep, Begin
  <1> QED
    BY <1>1, <1>2, Zenon DEF Next, SessionStep, ProcessStep

\* Each kind of step keeps Base.
LEMMA SessionKeepsBase ==
  ASSUME Base, NEW o \in Operator, SessionStep(o)
  PROVE  Base'
  <1>1. CASE Step(o)
    BY <1>1, QuietSteps, ControlSteps, WorkerSteps DEF Step
  <1>2. CASE Die(o)
    BY <1>2, DieKeepsBase
  <1>3. CASE \E cmd \in Commands, w \in Worker : Begin(o, cmd, w)
    BY <1>3, BeginKeepsBase
  <1> QED
    BY <1>1, <1>2, <1>3 DEF SessionStep

LEMMA StutterKeepsBase ==
  ASSUME Base, UNCHANGED vars
  PROVE  Base'
  BY DEF Base, Flow, FilesTyped, TypeOK, IsWorker, vars, files, wfiles, ghosts

LEMMA StepKeepsBase ==
  ASSUME Base, [Next]_vars
  PROVE  Base'
  <1>1. CASE \E o \in Operator : SessionStep(o)
    BY <1>1, SessionKeepsBase
  <1>2. CASE \E p \in Pid : ProcessStep(p)
    BY <1>2, ProcessSteps
  <1> QED
    BY <1>1, <1>2, EveryStep, StutterKeepsBase

(* Whatever the commands, deaths and processes do, every file and every     *)
(* process holds a value of its kind, and a session has the locals its      *)
(* place in the command needs (contest_control.py, worker_supervisor.py).   *)
THEOREM BaseHolds == Spec => []Base
  <1>1. Base /\ [Next]_vars => Base'
    BY StepKeepsBase
  <1> QED
    BY <1>1, InitBase, PTL DEF Spec

(* The variables keep their types: TypeOK of Contest.                       *)
THEOREM ContestTypes == Spec => []TypeOK
  <1>1. Base => TypeOK
    BY DEF Base, FilesTyped
  <1> QED
    BY <1>1, BaseHolds, PTL
-----------------------------------------------------------------------------
(* What arming and disarming promise.                                      *)

\* After a disarm there is no lock, nobody is about to write one, and a run
\* that began since found none.
Disarmed ==
  /\ off => ~lock /\ \A o \in Operator : mem[o].cmd \notin Arming
  /\ \A p \in Pid : /\ IsWorker(p) /\ proc[p].run = "running" /\ proc[p].late
                    => ~proc[p].seen.armed

\* Live submission, in control.json, in what a command read of it and in what
\* it is about to rename, is at most what the last arm wished.
Permission ==
  raced \/
    /\ \A x, y \in Operator :
         mem[x].cmd \in Controlling /\ mem[y].cmd \in Controlling => x = y
    /\ control.live => wish
    /\ \A o \in Operator :
         /\ pc[o] \in {"look at lock", "stage"} /\ mem[o].cmd \in Controlling /\ mem[o].ctl.live
              => wish /\ mem[o].cmd \notin Arming
         /\ pc[o] = "rename" /\ mem[o].cmd \notin Arming /\ staged.live => wish
         /\ pc[o] = "rename" /\ mem[o].cmd = "arm_quiet" => ~staged.live

\* The inductive invariant of ArmingHolds.
Armed == Base /\ Disarmed /\ Permission

(* A command goes on under its name or ends.                               *)
LEMMA CommandStays ==
  ASSUME Base, NEW o \in Operator, Step(o) \/ Die(o)
  PROVE  Shift(o) /\ mem'[o].cmd \in {mem[o].cmd, "none"}
  <1>1. Ends(o) => mem'[o].cmd = "none"
    BY BlankFits DEF Ends
  <1>2. CASE ReadControl(o) \/ LookAtLock(o) \/ List(o) \/ Look(o) \/ ReadMark(o) \/ ReadCommand(o)
    BY <1>1, <1>2, ReadControlMoves, LookAtLockMoves, ListMoves, LookMoves, ReadMarkMoves,
       ReadCommandMoves DEF Keeps
  <1>3. CASE EndPrestart(o) \/ WriteLock(o) \/ Die(o)
    BY <1>1, <1>3, Leaving DEF EndPrestart, WriteLock, Finish, Die
  <1>4. CASE Stage(o) \/ Rename(o) \/ Unlink(o)
    BY <1>1, <1>4, StageMoves, RenameMoves, UnlinkMoves
  <1>5. CASE Judge(o) \/ Terminate(o) \/ Kill(o) \/ Mark(o)
    BY <1>1, <1>5, JudgeMoves, TerminateMoves, KillMoves, MarkMoves DEF Keeps
  <1>6. CASE Spawn(o) \/ WritePid(o) \/ WriteCommand(o) \/ WriteStatus(o)
    BY <1>1, <1>6, SpawnMoves, WriteFilesMoves, WriteStatusMoves DEF Keeps
  <1> QED
    BY <1>2, <1>3, <1>4, <1>5, <1>6 DEF Step

(* Nobody but an arm writes the lock, nobody but a disarm removes it.      *)
LEMMA LockFrame ==
  ASSUME Base, NEW o \in Operator, Step(o) \/ Die(o)
  PROVE  \/ off' = off /\ lock' = lock
         \/ off' = off /\ mem[o].cmd \in Arming
         \/ lock' = FALSE /\ off' = ~Others(o, Arming) /\ mem[o].cmd \in {"disarm", "disarm_stop"}
  <1>1. Fits(pc[o], mem[o])
    BY DEF Base, Flow
  <1>2. CASE Die(o)
    BY <1>2 DEF Die, files
  <1>3. CASE Stage(o) \/ Rename(o)
    BY <1>3 DEF Stage, Rename, ghosts
  <1>4. CASE WriteLock(o)
    BY <1>1, <1>4 DEF WriteLock, Finish, Fits
  <1>5. CASE Unlink(o)
    BY <1>1, <1>5 DEF Unlink, Fits
  <1>6. ASSUME OnlyLocals(o) PROVE off' = off /\ lock' = lock
    BY <1>6, GhostsTyped DEF OnlyLocals, files
  <1>7. CASE \/ ReadControl(o) \/ LookAtLock(o) \/ EndPrestart(o) \/ List(o) \/ Look(o)
             \/ ReadMark(o) \/ ReadCommand(o)
    BY <1>6, <1>7, QuietSteps
  <1>8. CASE \/ Judge(o) \/ Terminate(o) \/ Kill(o) \/ Mark(o) \/ Spawn(o)
             \/ WritePid(o) \/ WriteCommand(o) \/ WriteStatus(o)
    BY <1>8, WorkerSteps DEF files
  <1> QED
    BY <1>2, <1>3, <1>4, <1>5, <1>7, <1>8 DEF Step

\* A run that is late is one that begins after a disarm.
Late(p) == IsWorker(p) /\ proc[p].run = "running" /\ proc[p].late

(* A session starts and ends processes; it does not begin their runs.      *)
LEMMA SessionsMakeNoRun ==
  ASSUME Base, NEW o \in Operator, SessionStep(o), NEW p \in Pid, Late(p)'
  PROVE  Late(p) /\ proc'[p].seen = proc[p].seen
  <1>1. proc \in [Pid -> ProcStates]
    BY FilesNow DEF Base
  <1>2. CASE proc' = proc
    BY <1>2 DEF Late, IsWorker
  <1>3. CASE Spawn(o)
    <2>1. PICK q \in Pid, w \in {First(mem[o].todo)} :
            proc' = [proc EXCEPT ![q] = Spawned(w, mem[o].live)]
      BY <1>3 DEF Spawn
    <2>2. proc'[p] = proc[p] \/ proc'[p] = Spawned(w, mem[o].live)
      BY <1>1, <2>1
    <2>3. proc'[p].run = "running"
      BY DEF Late
    <2>4. Spawned(w, mem[o].live).run # "running"
      BY DEF Spawned
    <2> QED
      BY <2>2, <2>3, <2>4 DEF Late, IsWorker
  <1>4. CASE Terminate(o) \/ Kill(o)
    <2>1. PICK q \in {mem[o].seen.pid} : proc' = proc \/ proc' = [proc EXCEPT ![q] = Gone]
      BY <1>4 DEF Terminate, Kill
    <2>2. proc'[p] = proc[p] \/ proc'[p] = Gone
      BY <1>1, <2>1
    <2>3. Gone.is # "worker" /\ proc'[p].is = "worker"
      BY DEF Gone, Late, IsWorker
    <2> QED
      BY <2>2, <2>3 DEF Late, IsWorker
  <1>5. CASE ~Spawn(o) /\ ~Terminate(o) /\ ~Kill(o)
    <2>1. proc' = proc
      BY <1>5 DEF SessionStep, Step, Die, Begin, ReadControl, LookAtLock, Stage, Rename,
           WriteLock, EndPrestart, Unlink, List, Look, Judge, ReadMark, Mark, ReadCommand,
           WritePid, WriteCommand, WriteStatus
    <2> QED
      BY <1>2, <2>1
  <1> QED
    BY <1>3, <1>4, <1>5

\* Disarmed is kept by the sessions, then by the processes.
LEMMA SessionKeepsDisarmed ==
  ASSUME Base, Disarmed, NEW o \in Operator, SessionStep(o)
  PROVE  Disarmed'
  <1>1. ASSUME NEW p \in Pid, Late(p)' PROVE ~proc'[p].seen.armed
    BY <1>1, SessionsMakeNoRun DEF Disarmed, Late
  <1>2. ASSUME off' PROVE ~lock' /\ \A x \in Operator : mem'[x].cmd \notin Arming
    <2>1. CASE Step(o) \/ Die(o)
      <3>1. Shift(o) /\ mem'[o].cmd \in {mem[o].cmd, "none"}
        BY <2>1, CommandStays
      <3>2. "none" \notin Arming /\ "disarm" \notin Arming /\ "disarm_stop" \notin Arming
        BY DEF Arming
      <3>3. ~lock' /\ \A x \in Operator : mem[x].cmd \notin Arming
        BY <1>2, <2>1, <3>2, LockFrame DEF Disarmed, Others, Busy
      <3> QED
        BY <3>1, <3>2, <3>3 DEF Shift
    <2>2. ASSUME NEW cmd \in Commands, NEW w \in Worker, Begin(o, cmd, w)
          PROVE  ~lock' /\ \A x \in Operator : mem'[x].cmd \notin Arming
      <3>1. Shift(o) /\ mem'[o].cmd = cmd
        BY <2>2, BeginMoves
      <3>2. off /\ cmd \notin Arming /\ lock' = lock
        BY <1>2, <2>2 DEF Begin, files
      <3> QED
        BY <3>1, <3>2 DEF Shift, Disarmed
    <2> QED
      BY <2>1, <2>2 DEF SessionStep
  <1> QED
    BY <1>1, <1>2 DEF Disarmed, Late

LEMMA ProcessKeepsDisarmed ==
  ASSUME Base, Disarmed, NEW p \in Pid, ProcessStep(p)
  PROVE  Disarmed'
  <1>1. /\ UNCHANGED <<lock, mem, off>>
        /\ \A q \in Pid \ {p} : proc'[q] = proc[q]
    BY ProcessSteps DEF files
  <1>2. proc \in [Pid -> ProcStates]
    BY FilesNow DEF Base
  <1>3. ASSUME Late(p)' PROVE ~proc'[p].seen.armed
    <2>1. ConfirmFlags(p)
      <3>1. proc'[p].is = "worker" /\ proc'[p].run = "running"
        BY <1>3 DEF Late, IsWorker
      <3>2. Gone.is # "worker" /\ Foreign.is # "worker"
        BY DEF Gone, Foreign
      <3>3. ~Exit(p) /\ ~Reuse(p)
        BY <1>2, <3>1, <3>2 DEF Exit, Reuse
      <3>4. ASSUME ReadFlags(p) \/ EndRun(p) PROVE FALSE
        <4>1. IsWorker(p) /\ proc[p] \in ProcStates
          BY <1>2, <3>4 DEF ReadFlags, EndRun
        <4>2. PICK r \in {"none", "read"}, x \in {proc'[p].seen}, y \in {proc'[p].late} :
                proc'[p] = [proc[p] EXCEPT !.run = r, !.seen = x, !.late = y]
          <5>1. CASE ReadFlags(p)
            BY <1>2, <4>1, <5>1, <3>2 DEF ReadFlags, ProcStates, IsWorker
          <5>2. CASE EndRun(p)
            BY <1>2, <4>1, <5>2, <3>2 DEF EndRun, ProcStates, IsWorker
          <5> QED
            BY <3>4, <5>1, <5>2
        <4>3. proc'[p].run = r
          BY <3>2, <4>1, <4>2 DEF ProcStates, IsWorker
        <4> QED
          BY <3>1, <4>3
      <3> QED
        BY <3>3, <3>4 DEF ProcessStep
    <2>2. proc[p].late /\ off
      <3>1. proc'[p].late = (proc[p].late /\ off)
        BY <1>2, <2>1 DEF ConfirmFlags, IsWorker, ProcStates, Gone, Foreign
      <3> QED
        BY <1>3, <3>1 DEF Late
    <2>3. ~lock
      BY <2>2 DEF Disarmed
    <2>4. proc'[p].seen = Loaded(proc[p].seen, lock) /\ proc[p].seen \in Control
      BY <1>2, <2>1 DEF ConfirmFlags, IsWorker, ProcStates, Gone, Foreign
    <2> QED
      BY <2>3, <2>4 DEF Loaded, Control
  <1> QED
    BY <1>1, <1>3 DEF Disarmed, Late, IsWorker

(* Only four steps read or write what Permission is about.                 *)
LEMMA ControlFrame ==
  ASSUME Base, NEW o \in Operator, Step(o) \/ Die(o),
         ~Stage(o), ~Rename(o), ~ReadControl(o), ~LookAtLock(o)
  PROVE  /\ UNCHANGED <<control, staged, wish, raced>>
         /\ pc'[o] \notin {"look at lock", "stage", "rename"}
  <1>1. Ends(o) => pc'[o] = "idle"
    BY DEF Ends
  <1>2. CASE Die(o)
    BY <1>1, <1>2, DieKeepsBase DEF Die, files
  <1>3. CASE WriteLock(o)
    BY <1>1, <1>3, Leaving DEF WriteLock, Finish
  <1>4. CASE Unlink(o)
    BY <1>4, UnlinkMoves DEF Unlink
  <1>5. CASE EndPrestart(o) \/ List(o) \/ Look(o) \/ ReadMark(o) \/ ReadCommand(o)
    <2>1. UNCHANGED <<control, staged, wish, raced>>
      BY <1>5, QuietSteps, GhostsTyped DEF OnlyLocals, files
    <2>2. CASE EndPrestart(o)
      BY <1>1, <2>1, <2>2, Leaving DEF EndPrestart, Finish
    <2> QED
      BY <1>1, <1>5, <2>1, <2>2, ListMoves, LookMoves, ReadMarkMoves, ReadCommandMoves
  <1>6. CASE \/ Judge(o) \/ Terminate(o) \/ Kill(o) \/ Mark(o) \/ Spawn(o)
             \/ WritePid(o) \/ WriteCommand(o) \/ WriteStatus(o)
    <2>1. UNCHANGED <<control, staged, wish, raced>>
      BY <1>6, WorkerSteps DEF files
    <2>2. pc'[o] \in {"idle", "look", "terminate", "read mark", "spawn", "kill", "pid file",
                      "command file", "status file"}
      BY <1>1, <1>6, JudgeMoves, TerminateMoves, KillMoves, MarkMoves, SpawnMoves,
         WriteFilesMoves, WriteStatusMoves
    <2> QED
      BY <2>1, <2>2
  <1> QED
    BY <1>2, <1>3, <1>4, <1>5, <1>6 DEF Step

\* What Permission asks of one session.
Permits(o) ==
  /\ pc[o] \in {"look at lock", "stage"} /\ mem[o].cmd \in Controlling /\ mem[o].ctl.live
       => wish /\ mem[o].cmd \notin Arming
  /\ pc[o] = "rename" /\ mem[o].cmd \notin Arming /\ staged.live => wish
  /\ pc[o] = "rename" /\ mem[o].cmd = "arm_quiet" => ~staged.live

\* Permission is kept by the steps of a command, then by its beginning.
LEMMA SessionKeepsPermission ==
  ASSUME Base, Permission, NEW o \in Operator, Step(o) \/ Die(o)
  PROVE  Permission'
  <1>1. Shift(o) /\ mem'[o].cmd \in {mem[o].cmd, "none"} /\ Fits(pc[o], mem[o])
    BY CommandStays DEF Base, Flow
  <1>2. "none" \notin Controlling /\ Arming \subseteq Controlling /\ "start" \notin Controlling
    BY DEF Controlling, Arming
  <1>3. raced' = raced
    <2>1. CASE Stage(o) \/ Rename(o)
      BY <2>1, ControlSteps
    <2>2. CASE ReadControl(o) \/ LookAtLock(o)
      BY <2>2, QuietSteps, GhostsTyped DEF OnlyLocals
    <2> QED
      BY <2>1, <2>2, ControlFrame
  <1> SUFFICES ASSUME ~raced PROVE Permission'
    BY <1>3 DEF Permission
  <1>4. ASSUME NEW x \in Operator, NEW y \in Operator,
               mem'[x].cmd \in Controlling, mem'[y].cmd \in Controlling
        PROVE  x = y
    <2>1. mem[x].cmd \in Controlling /\ mem[y].cmd \in Controlling
      BY <1>1, <1>2, <1>4 DEF Shift
    <2> QED
      BY <2>1 DEF Permission
  <1>5. (control.live => wish) /\ \A x \in Operator : Permits(x)
    BY DEF Permission, Permits
  <1>6. mem[o] \in Locals /\ control \in Control /\ staged \in Control \cup {Nothing}
        /\ lock \in BOOLEAN
    BY FilesNow DEF Base
  <1>7. ASSUME NEW x \in Operator \ {o}, UNCHANGED <<staged, wish>> PROVE Permits(x)'
    <2>1. pc'[x] = pc[x] /\ mem'[x] = mem[x] /\ Permits(x)
      BY <1>1, <1>5 DEF Shift
    <2> QED
      BY <1>7, <2>1 DEF Permits
  \* A session that writes control.json is the only one.
  <1>8. ASSUME NEW x \in Operator \ {o}, Stage(o) \/ Rename(o) PROVE Permits(x)'
    <2>1. mem[o].cmd \in Controlling
      BY <1>1, <1>8 DEF Stage, Rename, Fits
    <2>2. mem[x].cmd \notin Controlling
      BY <2>1 DEF Permission
    <2>3. Fits(pc[x], mem[x]) /\ pc'[x] = pc[x] /\ mem'[x] = mem[x]
      BY <1>1 DEF Base, Flow, Shift
    <2>4. pc[x] # "rename"
      BY <2>2, <2>3 DEF Fits
    <2> QED
      BY <2>2, <2>3, <2>4 DEF Permits
  <1>9. (control.live => wish)' /\ \A x \in Operator : Permits(x)'
    <2>1. CASE ReadControl(o)
      <3>1. UNCHANGED <<control, staged, wish>>
        BY <2>1 DEF ReadControl, files, ghosts
      <3>2. pc'[o] = "look at lock" /\ mem'[o] = [mem[o] EXCEPT !.ctl = control]
            /\ pc[o] = "read control"
        BY <2>1, ReadControlMoves DEF ReadControl
      <3>3. mem'[o].ctl = control /\ mem'[o].cmd = mem[o].cmd
        BY <1>6, <3>2 DEF Locals
      <3>4. mem[o].cmd \notin Arming
        BY <1>1, <3>2 DEF Fits, Arming
      <3>5. Permits(o)'
        BY <1>5, <3>1, <3>2, <3>3, <3>4 DEF Permits
      <3> QED
        BY <1>5, <1>7, <3>1, <3>5
    <2>2. CASE LookAtLock(o)
      <3>1. UNCHANGED <<control, staged, wish>> /\ pc[o] = "look at lock"
        BY <2>2 DEF LookAtLock, files, ghosts
      <3>2. Permits(o)'
        <4>1. CASE Ends(o)
          BY <4>1 DEF Permits, Ends
        <4>2. CASE pc'[o] = "look"
          BY <4>2 DEF Permits
        <4>3. CASE pc'[o] = "stage" /\ mem'[o] = [mem[o] EXCEPT !.ctl = Loaded(mem[o].ctl, lock)]
          <5>1. mem'[o].cmd = mem[o].cmd /\ mem'[o].ctl = Loaded(mem[o].ctl, lock)
                /\ mem[o].ctl \in Control
            BY <1>6, <4>3 DEF Locals
          <5>2. mem'[o].ctl.live = mem[o].ctl.live
            BY <5>1 DEF Loaded, Control
          <5> QED
            BY <1>5, <3>1, <4>3, <5>1, <5>2 DEF Permits
        <4> QED
          BY <2>2, <4>1, <4>2, <4>3, LookAtLockMoves
      <3> QED
        BY <1>5, <1>7, <3>1, <3>2
    <2>3. CASE Stage(o)
      <3>1. UNCHANGED <<control, wish>> /\ pc[o] = "stage"
            /\ staged' = NewControl(mem[o].cmd, mem[o].ctl)
        BY <2>3 DEF Stage, ghosts
      <3>2. pc'[o] = "rename" /\ mem'[o] = mem[o] /\ mem[o].cmd \in Controlling
        BY <1>1, <2>3, <3>1, StageMoves DEF Fits
      <3>3. ASSUME mem[o].cmd = "arm_quiet" PROVE ~staged'.live
        BY <3>1, <3>3 DEF NewControl
      <3>4. ASSUME mem[o].cmd \notin Arming, staged'.live PROVE wish
        <4>1. staged' = mem[o].ctl \/ staged' = Default
          BY <3>1, <3>4 DEF NewControl, Arming
        <4>2. mem[o].ctl.live
          BY <3>4, <4>1 DEF Default
        <4> QED
          BY <1>5, <3>1, <3>2, <4>2 DEF Permits
      <3>5. Permits(o)'
        BY <3>1, <3>2, <3>3, <3>4 DEF Permits
      <3> QED
        BY <1>5, <1>8, <2>3, <3>1, <3>5
    <2>4. CASE Rename(o)
      <3>1. pc[o] = "rename" /\ mem[o].cmd \in Controlling
        BY <1>1, <2>4 DEF Rename, Fits
      <3>2. pc'[o] \in {"idle", "lock", "done", "unlock"}
        BY <2>4, RenameMoves DEF Ends, AfterRename
      <3>3. Permits(o)'
        BY <3>2 DEF Permits
      <3>4. (control.live => wish)'
        <4>1. CASE UNCHANGED <<control, staged, wish>>
          BY <1>5, <4>1
        <4>2. CASE /\ control' = staged
                   /\ wish' = IF mem[o].cmd \in Arming THEN mem[o].cmd = "arm" ELSE wish
          BY <1>5, <3>1, <4>2 DEF Permits, Arming
        <4> QED
          BY <2>4, <4>1, <4>2, RenameMoves
      <3> QED
        BY <1>8, <2>4, <3>3, <3>4
    <2>5. CASE ~Stage(o) /\ ~Rename(o) /\ ~ReadControl(o) /\ ~LookAtLock(o)
      <3>1. /\ UNCHANGED <<control, staged, wish>>
            /\ pc'[o] \notin {"look at lock", "stage", "rename"}
        BY <2>5, ControlFrame
      <3>2. Permits(o)'
        BY <3>1 DEF Permits
      <3> QED
        BY <1>5, <1>7, <3>1, <3>2
    <2> QED
      BY <2>1, <2>2, <2>3, <2>4, <2>5
  <1> QED
    BY <1>4, <1>9 DEF Permission, Permits

LEMMA BeginKeepsPermission ==
  ASSUME Base, Permission, NEW o \in Operator, NEW cmd \in Commands, NEW w \in Worker,
         Begin(o, cmd, w)
  PROVE  Permission'
  <1> SUFFICES ASSUME ~raced' PROVE Permission'
    BY DEF Permission
  <1>1. /\ ~raced /\ (cmd \in Controlling => ~Others(o, Controlling))
        /\ UNCHANGED <<control, staged, wish>>
    BY DEF Begin, files
  <1>2. Shift(o) /\ mem'[o].cmd = cmd /\ pc'[o] \notin {"look at lock", "rename"}
        /\ mem'[o].ctl = Default
    BY BeginMoves
  <1>3. ASSUME NEW x \in Operator, NEW y \in Operator,
               mem'[x].cmd \in Controlling, mem'[y].cmd \in Controlling
        PROVE  x = y
    BY <1>1, <1>2, <1>3 DEF Permission, Shift, Others, Busy
  <1>4. ASSUME NEW x \in Operator PROVE Permits(x)'
    <2>1. CASE x = o
      <3>1. ~Default.live
        BY DEF Default
      <3>2. ~mem'[x].ctl.live
        BY <1>2, <2>1, <3>1
      <3>3. pc'[x] # "rename"
        BY <1>2, <2>1
      <3> QED
        BY <3>2, <3>3 DEF Permits
    <2>2. CASE x # o
      BY <1>1, <1>2, <2>2 DEF Permits, Permission, Shift
    <2> QED
      BY <2>1, <2>2
  <1> QED
    BY <1>1, <1>3, <1>4 DEF Permission, Permits

\* Armed is inductive.
LEMMA InitArmed == Init => Disarmed /\ Permission
  <1> SUFFICES ASSUME Init PROVE Disarmed /\ Permission
    OBVIOUS
  <1>1. \A o \in Operator : pc[o] = "idle" /\ mem[o].cmd = "none"
    BY BlankFits DEF Init
  <1>2. "none" \notin Controlling /\ Gone.is # "worker" /\ Default.live = FALSE
    BY DEF Controlling, Arming, Gone, Default
  <1>3. control.live = FALSE /\ off = FALSE /\ \A p \in Pid : ~IsWorker(p)
    BY <1>2 DEF Init, IsWorker
  <1> QED
    BY <1>1, <1>2, <1>3 DEF Disarmed, Permission

LEMMA StepKeepsArmed ==
  ASSUME Armed, [Next]_vars
  PROVE  Armed'
  <1>1. Base /\ Disarmed /\ Permission /\ Base'
    BY StepKeepsBase DEF Armed
  <1>2. ASSUME NEW o \in Operator, SessionStep(o) PROVE Permission'
    BY <1>1, <1>2, SessionKeepsPermission, BeginKeepsPermission DEF SessionStep
  <1>3. CASE \E o \in Operator : SessionStep(o)
    BY <1>1, <1>2, <1>3, SessionKeepsDisarmed DEF Armed
  <1>4. ASSUME NEW p \in Pid, ProcessStep(p) PROVE Permission'
    <2>1. UNCHANGED <<control, staged, wish, raced, pc, mem>>
      BY <1>1, <1>4, ProcessSteps DEF files
    <2> QED
      BY <1>1, <2>1 DEF Permission
  <1>5. CASE \E p \in Pid : ProcessStep(p)
    BY <1>1, <1>4, <1>5, ProcessKeepsDisarmed DEF Armed
  <1>6. CASE UNCHANGED vars
    BY <1>1, <1>6 DEF Armed, Disarmed, Permission, IsWorker, vars, files, ghosts
  <1> QED
    BY <1>3, <1>5, <1>6, EveryStep

(* For any number of sessions, commands and deaths: a run that begins      *)
(* after a disarm removed the lock never posts a flag before an arm is     *)
(* begun, and unless two writers of control.json ran at once, live         *)
(* submission is allowed only if the last arm asked for it                 *)
(* (contest_control.py, worker_loop.run_worker_once).                      *)
THEOREM ArmingIsKept == Spec => []ArmingHolds
  <1>1. Armed => ArmingHolds
    <2> SUFFICES ASSUME Armed PROVE DisarmHolds /\ LiveAsArmed
      BY DEF ArmingHolds
    <2>1. DisarmHolds
      BY DEF Armed, Disarmed, DisarmHolds, MayPost
    <2>2. LiveAsArmed
      BY DEF Armed, Permission, LiveAsArmed
    <2> QED
      BY <2>1, <2>2
  <1>2. Init => Armed
    BY InitBase, InitArmed DEF Armed
  <1>3. Armed /\ [Next]_vars => Armed'
    BY StepKeepsArmed
  <1> QED
    BY <1>1, <1>2, <1>3, PTL DEF Spec
-----------------------------------------------------------------------------
(* What the supervisor's files tell of the processes.                      *)

\* The processes of worker w that count, and the worker a command is at.
Of(w) == {p \in Pid : IsWorker(p) /\ proc[p].w = w /\ p \notin strays}
At(o) == First(mem[o].todo)

\* While one command starts workers no other looks at them.
Sole == \A o, x \in Operator :
          o # x /\ mem[o].cmd \in Starting => mem[x].cmd \notin Supervising

\* A worker that counts is being recorded, or found where a command looks.
Located == \A w \in Worker : \A p \in Of(w) : Unrecorded(p) \/ Recorded(w).pid = p

\* What a command knows of the worker it is at.
OnTrack(o) ==
  /\ pc[o] \in {"judge", "terminate", "kill"} => Of(At(o)) \subseteq {mem[o].seen.pid}
  /\ pc[o] \in {"read mark", "mark", "spawn"} => Of(At(o)) = {}
  /\ pc[o] \in Recording =>
       /\ Of(At(o)) \subseteq {mem[o].pid}
       /\ IsWorker(mem[o].pid) => proc[mem[o].pid].w = At(o)
  /\ pc[o] \in {"command file", "status file"} => pidFile[At(o)] = mem[o].pid
  /\ pc[o] \in Handling /\ mem[o].cmd \in {"stop", "disarm_stop"} =>
       \A v \in Worker : Of(v) # {} => v \in mem[o].todo

\* After a stop nothing runs and nothing starts.
Emptied == cleared =>
  /\ \A w \in Worker : Of(w) = {}
  /\ \A o \in Operator : mem[o].cmd \notin Starting

\* The inductive invariant of WorkersAccounted.
Accounts == Sole /\ Located /\ (\A o \in Operator : OnTrack(o)) /\ Emptied

Supervised == Base /\ (crowded \/ Accounts)

\* Processes end and start none, and no file of a worker that runs changes
\* what it tells.
Shrinks ==
  /\ UNCHANGED <<pidFile, crowded>>
  /\ \A p \in Pid : IsWorker(p)' => IsWorker(p) /\ proc'[p].w = proc[p].w
  /\ \A w \in Worker : /\ Of(w)' \subseteq Of(w)
                       /\ Of(w)' # {} => Recorded(w)'.pid = Recorded(w).pid

\* A step that touches no process and no file of a worker.
LEMMA StillShrinks ==
  ASSUME UNCHANGED <<wfiles, proc, strays, crowded>>
  PROVE  Shrinks
  BY DEF Shrinks, wfiles, Of, IsWorker, Recorded

\* One worker less, or as many as before.
LEMMA EndShrinks ==
  ASSUME Base, NEW p, UNCHANGED <<wfiles, crowded>>,
         proc' = [proc EXCEPT ![p] = Gone], strays' = strays \ {p}
  PROVE  Shrinks /\ \A w \in Worker : p \notin Of(w)'
  <1>1. proc \in [Pid -> ProcStates]
    BY FilesNow DEF Base
  <1>2. \A q \in Pid : IF q = p THEN ~IsWorker(q)' ELSE proc'[q] = proc[q]
    BY <1>1 DEF IsWorker, Gone
  <1>3. \A q \in Pid : IsWorker(q)' => q # p /\ IsWorker(q) /\ proc'[q].w = proc[q].w
    BY <1>2 DEF IsWorker
  <1>4. \A w \in Worker : Of(w)' \subseteq Of(w) /\ p \notin Of(w)'
    BY <1>3 DEF Of
  <1> QED
    BY <1>3, <1>4 DEF Shrinks, Recorded, wfiles

\* Rewriting the status of a worker without a process.
LEMMA StatusShrinks ==
  ASSUME Base, NEW w \in Worker, Of(w) = {}, UNCHANGED <<pidFile, proc, strays, crowded>>,
         \A v \in Worker \ {w} : status'[v] = status[v]
  PROVE  Shrinks
  BY DEF Shrinks, Of, IsWorker, Recorded

\* A worker process is alive.
LEMMA WorkersAreAlive == \A p \in Pid : IsWorker(p) => Alive(p)
  BY DEF IsWorker, Alive

\* The labels of the steps on one worker belong to supervising commands.
LEMMA AtWorker ==
  ASSUME Base, NEW o \in Operator, pc[o] \in Handling
  PROVE  /\ mem[o].cmd \in Supervising /\ mem[o].cmd # "none" /\ At(o) \in Worker
         /\ pc[o] \in Recording \cup {"spawn"} => mem[o].cmd \in Starting
  <1>1. mem[o].cmd \in Supervising /\ mem[o].cmd # "none"
        /\ (pc[o] \in Recording \cup {"spawn"} => mem[o].cmd \in Starting)
    BY DEF Base, Flow, Fits, Supervising
  <1> QED
    BY <1>1, FirstToDo DEF At

\* A command that rests knows no less when processes end.
LEMMA TrackKept ==
  ASSUME Base, NEW x \in Operator, OnTrack(x), Shrinks, pc'[x] = pc[x], mem'[x] = mem[x]
  PROVE  OnTrack(x)'
  <1> SUFFICES ASSUME pc[x] \in Handling PROVE OnTrack(x)'
    BY DEF OnTrack, Handling, Recording
  <1>1. At(x)' = At(x) /\ At(x) \in Worker
    BY AtWorker DEF At
  <1>2. PICK w \in Worker : w = At(x)
    BY <1>1
  <1>3. /\ Of(w)' \subseteq Of(w) /\ pidFile' = pidFile
        /\ \A v \in Worker : Of(v)' # {} => Of(v) # {}
        /\ \A p \in Pid : IsWorker(p)' => IsWorker(p) /\ proc'[p].w = proc[p].w
    BY DEF Shrinks
  <1>4. pc[x] \in Recording => mem[x].pid \in Pid
    BY DEF Base, Flow, Fits
  <1> QED
    BY <1>1, <1>2, <1>3, <1>4 DEF OnTrack

\* Located is kept when processes end and those being recorded still are.
LEMMA LocatedKept ==
  ASSUME Located, Shrinks, \A p \in Pid : Unrecorded(p) => Unrecorded(p)'
  PROVE  Located'
  <1> SUFFICES ASSUME NEW w \in Worker, NEW p \in Of(w)' PROVE Unrecorded(p)' \/ Recorded(w)'.pid = p
    BY DEF Located
  <1>1. p \in Of(w) /\ Recorded(w)'.pid = Recorded(w).pid /\ p \in Pid
    BY DEF Shrinks, Of
  <1> QED
    BY <1>1 DEF Located

\* Of a step by which nobody records a worker.
LEMMA CalmStep ==
  ASSUME Base, Accounts, NEW o \in Operator, Shift(o), Shrinks, pc[o] \notin Recording,
         mem'[o].cmd \in {mem[o].cmd, "none"}, OnTrack(o)',
         cleared' => \/ cleared
                     \/ /\ \A w \in Worker : Of(w)' = {}
                        /\ \A x \in Operator : mem[x].cmd \notin Starting
  PROVE  Accounts'
  <1>1. "none" \notin Starting /\ "none" \notin Supervising
    BY DEF Starting, Supervising
  <1>2. Sole'
    BY <1>1 DEF Accounts, Sole, Shift
  <1>3. \A p \in Pid : Unrecorded(p) => Unrecorded(p)'
    BY DEF Unrecorded, Shift, Recording
  <1>4. Located'
    BY <1>3, LocatedKept DEF Accounts
  <1>5. ASSUME NEW x \in Operator PROVE OnTrack(x)'
    BY TrackKept DEF Accounts, Shift
  <1>6. Emptied'
    <2> SUFFICES ASSUME cleared'
                 PROVE  /\ \A w \in Worker : Of(w)' = {}
                        /\ \A x \in Operator : mem'[x].cmd \notin Starting
      BY DEF Emptied
    <2>1. /\ \A w \in Worker : Of(w)' = {}
          /\ \A x \in Operator : mem[x].cmd \notin Starting
      BY DEF Accounts, Emptied, Shrinks
    <2> QED
      BY <1>1, <2>1 DEF Shift
  <1> QED
    BY <1>2, <1>4, <1>5, <1>6 DEF Accounts

\* Who starts workers is alone with them.
LEMMA StarterIsAlone ==
  ASSUME Base, Sole, NEW o \in Operator, mem[o].cmd \in Starting, NEW x \in Operator \ {o}
  PROVE  pc[x] \notin Handling /\ pc[x] \notin Recording
  <1>1. mem[x].cmd \notin Supervising
    BY DEF Sole
  <1> QED
    BY <1>1, AtWorker DEF Handling

\* Of a step of the command that starts workers.
LEMMA StartingStep ==
  ASSUME Base, Accounts, NEW o \in Operator, Shift(o), mem[o].cmd \in Starting,
         mem'[o].cmd \in {mem[o].cmd, "none"}, OnTrack(o)', Located', cleared' => cleared
  PROVE  Accounts'
  <1>1. "none" \notin Starting /\ "none" \notin Supervising
    BY DEF Starting, Supervising
  <1>2. Sole'
    BY <1>1 DEF Accounts, Sole, Shift
  <1>3. ASSUME NEW x \in Operator \ {o} PROVE OnTrack(x)'
    <2>1. pc'[x] \notin Handling
      BY StarterIsAlone DEF Accounts, Shift
    <2> QED
      BY <2>1 DEF OnTrack, Handling, Recording
  <1>4. Emptied'
    BY DEF Accounts, Emptied
  <1> QED
    BY <1>2, <1>3, <1>4 DEF Accounts

\* A command that starts nothing finds every worker that counts by its files.
LEMMA FilesTell ==
  ASSUME Base, Accounts, NEW o \in Operator, mem[o].cmd \in Supervising,
         pc[o] \notin Recording
  PROVE  /\ \A w \in Worker : Of(w) \subseteq {Recorded(w).pid} /\ (Of(w) # {} => w \in Known)
         /\ mem[o].cmd \notin Starting => \A x \in Operator : mem[x].cmd \notin Starting
  <1>1. ASSUME NEW x \in Operator, pc[x] \in Recording PROVE FALSE
    <2>1. x # o /\ mem[x].cmd \in Starting
      BY <1>1, AtWorker DEF Handling
    <2> QED
      BY <2>1 DEF Accounts, Sole
  <1>2. ASSUME NEW w \in Worker, NEW p \in Of(w) PROVE Recorded(w).pid = p /\ w \in Known
    <2>1. Recorded(w).pid = p /\ p \in Pid
      BY <1>1, <1>2 DEF Accounts, Located, Unrecorded, Recording, Of
    <2>2. p # NoPid
      BY <2>1, ContestAssumption
    <2>3. NoStatus.pid = NoPid /\ [NoStatus EXCEPT !.pid = pidFile[w]].pid = pidFile[w]
      BY DEF NoStatus
    <2> QED
      BY <2>1, <2>2, <2>3 DEF Recorded, Known
  <1>3. ASSUME mem[o].cmd \notin Starting, NEW x \in Operator PROVE mem[x].cmd \notin Starting
    BY <1>3 DEF Accounts, Sole
  <1> QED
    BY <1>2, <1>3

\* The end of a stop: no process is left that counts.
LEMMA StopEnds ==
  ASSUME Base, Accounts, NEW o \in Operator, pc[o] \in Handling, Of(At(o)) = {},
         mem[o].todo = {At(o)}, Finish(o), cleared'
  PROVE  \/ cleared
         \/ /\ \A w \in Worker : Of(w) = {}
            /\ \A x \in Operator : mem[x].cmd \notin Starting
  <1> SUFFICES ASSUME ~cleared
               PROVE  /\ \A w \in Worker : Of(w) = {}
                      /\ \A x \in Operator : mem[x].cmd \notin Starting
    OBVIOUS
  <1>1. mem[o].cmd \in {"stop", "disarm_stop"}
    BY DEF Finish, Busy
  <1>2. \A w \in Worker : Of(w) # {} => w \in mem[o].todo
    BY <1>1 DEF Accounts, OnTrack
  <1>3. mem[o].cmd \in Supervising \ Starting /\ pc[o] \notin Recording
    BY <1>1, AtWorker DEF Starting, Supervising
  <1> QED
    BY <1>2, <1>3, FilesTell

\* A command that is at no worker need not know any.
LEMMA OffTrack ==
  ASSUME NEW o \in Operator, pc'[o] \notin Handling
  PROVE  OnTrack(o)'
  BY DEF OnTrack, Handling, Recording

(* The steps before and after the work on the workers.                     *)
LEMMA PlainSteps ==
  ASSUME Base, Accounts, NEW o \in Operator,
         \/ ReadControl(o) \/ LookAtLock(o) \/ Stage(o) \/ Rename(o) \/ WriteLock(o)
         \/ EndPrestart(o) \/ Unlink(o) \/ ReadCommand(o)
  PROVE  Accounts'
  <1>1. Shift(o) /\ mem'[o].cmd \in {mem[o].cmd, "none"}
    BY CommandStays DEF Step
  <1>2. UNCHANGED <<wfiles, proc, strays, crowded>>
    <2>1. CASE Stage(o) \/ Rename(o) \/ WriteLock(o) \/ Unlink(o)
      BY <2>1, ControlSteps
    <2>2. CASE ReadControl(o) \/ LookAtLock(o) \/ EndPrestart(o) \/ ReadCommand(o)
      BY <2>2, QuietSteps, GhostsTyped DEF OnlyLocals
    <2> QED
      BY <2>1, <2>2
  <1>3. pc[o] \notin Handling /\ pc[o] \notin Recording
    BY DEF ReadControl, LookAtLock, Stage, Rename, WriteLock, EndPrestart, Unlink, ReadCommand,
           Handling, Recording
  <1>4. Fits(pc[o], mem[o])
    BY DEF Base, Flow
  <1>5. cleared' => cleared
    <2>1. CASE WriteLock(o) \/ EndPrestart(o)
      BY <1>4, <2>1 DEF WriteLock, EndPrestart, Finish, Busy, Fits, Arming
    <2>2. CASE Stage(o) \/ Rename(o) \/ Unlink(o) \/ ReadControl(o) \/ LookAtLock(o) \/ ReadCommand(o)
      BY <2>2 DEF Stage, Rename, Unlink, ReadControl, LookAtLock, ReadCommand, ghosts
    <2> QED
      BY <2>1, <2>2
  <1>6. OnTrack(o)'
    <2>1. CASE pc'[o] \notin Handling
      BY <2>1, OffTrack
    <2>2. CASE pc'[o] = "look" /\ mem'[o].cmd \in {"none", "start", "restart"}
      BY <2>2 DEF OnTrack, Recording
    <2>3. CASE ReadControl(o) \/ Stage(o) \/ Unlink(o)
      <3>1. pc'[o] \in {"look at lock", "rename", "list"}
        BY <2>3, ReadControlMoves, StageMoves, UnlinkMoves
      <3> QED
        BY <2>1, <3>1 DEF Handling, Recording
    <2>4. CASE Ends(o)
      BY <2>1, <2>4 DEF Ends, Handling, Recording
    <2>5. CASE WriteLock(o) \/ EndPrestart(o)
      BY <2>4, <2>5, Leaving DEF WriteLock, EndPrestart, Finish
    <2>6. CASE LookAtLock(o)
      <3>1. CASE pc'[o] = "stage"
        BY <2>1, <3>1 DEF Handling, Recording
      <3> QED
        BY <1>1, <2>2, <2>4, <2>6, <3>1, LookAtLockMoves
    <2>7. CASE Rename(o)
      <3>1. CASE pc'[o] = AfterRename(mem[o].cmd)
        BY <2>1, <3>1 DEF AfterRename, Handling, Recording
      <3> QED
        BY <2>4, <2>7, <3>1, RenameMoves
    <2>8. CASE ReadCommand(o)
      <3>1. mem[o].cmd = "restart"
        BY <1>4, <2>8 DEF ReadCommand, Fits
      <3> QED
        BY <1>1, <2>2, <2>4, <2>8, <3>1, ReadCommandMoves
    <2> QED
      BY <2>3, <2>5, <2>6, <2>7, <2>8
  <1> QED
    BY <1>1, <1>2, <1>3, <1>5, <1>6, StillShrinks, CalmStep

(* The steps that find out about a worker.                                 *)
LEMMA ListAccounts ==
  ASSUME Base, Accounts, NEW o \in Operator, List(o)
  PROVE  Accounts'
  <1>1. Shift(o) /\ mem'[o].cmd \in {mem[o].cmd, "none"}
    BY CommandStays DEF Step
  <1>2. UNCHANGED <<wfiles, proc, strays, crowded>>
    BY QuietSteps, GhostsTyped DEF OnlyLocals
  <1>3. mem[o].cmd \in Supervising \ Starting /\ pc[o] \notin Recording
    BY DEF Base, Flow, Fits, List, Recording
  <1>4. /\ \A w \in Worker : Of(w) # {} => w \in Known
        /\ \A x \in Operator : mem[x].cmd \notin Starting
    BY <1>3, FilesTell
  <1>5. Shrinks
    BY <1>2, StillShrinks
  <1>6. CASE Known = {} /\ Ends(o)
    <2>1. OnTrack(o)'
      BY <1>6, OffTrack DEF Ends, Handling, Recording
    <2>2. \A w \in Worker : Of(w)' = {}
      BY <1>4, <1>5, <1>6 DEF Shrinks
    <2> QED
      BY <1>1, <1>3, <1>4, <1>5, <2>1, <2>2, CalmStep
  <1>7. CASE pc'[o] = "look" /\ mem'[o].todo = Known /\ UNCHANGED ghosts
    <2>1. OnTrack(o)'
      BY <1>4, <1>5, <1>7 DEF OnTrack, Recording, Shrinks
    <2> QED
      BY <1>1, <1>3, <1>5, <1>7, <2>1, CalmStep DEF ghosts
  <1> QED
    BY <1>6, <1>7, ListMoves

\* Once looked up, a worker has no process but the one under the pid seen.
LEMMA LookAccounts ==
  ASSUME Base, Accounts, NEW o \in Operator, Look(o)
  PROVE  Accounts'
  <1>1. Shift(o) /\ mem'[o].cmd \in {mem[o].cmd, "none"}
    BY CommandStays DEF Step
  <1>2. UNCHANGED <<wfiles, proc, ghosts>>
    BY DEF Look
  <1>3. pc[o] = "look" /\ pc[o] \in Handling /\ pc[o] \notin Recording
    BY DEF Look, Handling, Recording
  <1>4. mem[o] \in Locals /\ mem[o].cmd \in Supervising /\ At(o) \in Worker
    BY <1>3, AtWorker DEF Base
  <1>5. PICK w \in Worker : w = At(o)
    BY <1>4
  <1>6. PICK s : s = Recorded(w)
    OBVIOUS
  <1>7. pc'[o] = "judge" /\ mem'[o].todo = mem[o].todo /\ mem'[o].cmd = mem[o].cmd
        /\ mem'[o].seen = s
    BY <1>4, <1>5, <1>6, LookMoves DEF Keeps, Locals, At
  <1>8. Shrinks /\ Of(w) \subseteq {s.pid}
    BY <1>2, <1>3, <1>4, <1>6, StillShrinks, FilesTell DEF ghosts
  <1>9. OnTrack(o)'
    <2>1. At(o)' = w
      BY <1>5, <1>7 DEF At
    <2>2. mem'[o].cmd \in {"stop", "disarm_stop"} =>
            \A v \in Worker : Of(v)' # {} => v \in mem'[o].todo
      BY <1>3, <1>7, <1>8 DEF Accounts, OnTrack, Shrinks
    <2>3. Of(w)' \subseteq {mem'[o].seen.pid}
      BY <1>7, <1>8 DEF Shrinks
    <2> QED
      BY <1>7, <2>1, <2>2, <2>3 DEF OnTrack, Recording
  <1> QED
    BY <1>1, <1>2, <1>3, <1>8, <1>9, CalmStep DEF ghosts

\* A worker about to be marked has no process.
LEMMA ReadMarkAccounts ==
  ASSUME Base, Accounts, NEW o \in Operator, ReadMark(o)
  PROVE  Accounts'
  <1>1. Shift(o) /\ mem'[o].cmd \in {mem[o].cmd, "none"}
    BY CommandStays DEF Step
  <1>2. UNCHANGED <<wfiles, proc, ghosts>>
    BY DEF ReadMark
  <1>3. pc[o] = "read mark" /\ pc[o] \in Handling /\ pc[o] \notin Recording
    BY DEF ReadMark, Handling, Recording
  <1>4. pc'[o] = "mark" /\ Keeps(o)
    BY ReadMarkMoves
  <1>5. Shrinks
    BY <1>2, StillShrinks DEF ghosts
  <1>6. OnTrack(o)'
    <2>1. At(o) \in Worker /\ At(o)' = At(o) /\ Of(At(o)) = {}
      BY <1>3, <1>4, AtWorker DEF At, Keeps, Accounts, OnTrack
    <2>2. PICK w \in Worker : w = At(o)
      BY <2>1
    <2>3. Of(w)' = {}
      BY <1>5, <2>1, <2>2 DEF Shrinks
    <2>4. mem'[o].cmd \in {"stop", "disarm_stop"} =>
            \A v \in Worker : Of(v)' # {} => v \in mem'[o].todo
      BY <1>3, <1>4, <1>5 DEF Accounts, OnTrack, Shrinks, Keeps
    <2> QED
      BY <1>4, <2>1, <2>2, <2>3, <2>4 DEF OnTrack, Recording
  <1> QED
    BY <1>1, <1>2, <1>3, <1>5, <1>6, CalmStep DEF ghosts

(* The steps that judge and end a process.                                 *)
LEMMA JudgeAccounts ==
  ASSUME Base, Accounts, NEW o \in Operator, Judge(o)
  PROVE  Accounts'
  <1>1. Shift(o) /\ mem'[o].cmd \in {mem[o].cmd, "none"}
    BY CommandStays DEF Step
  <1>2. pc[o] = "judge" /\ pc[o] \in Handling /\ pc[o] \notin Recording
    BY DEF Judge, Handling, Recording
  <1>3. PICK w \in Worker : w = At(o)
    BY <1>2, AtWorker
  <1>4. PICK s : s = mem[o].seen
    OBVIOUS
  <1>5. Of(w) \subseteq {s.pid} /\ (~Alive(s.pid) => Of(w) = {})
    <2>1. Of(w) \subseteq {s.pid}
      BY <1>2, <1>3, <1>4 DEF Accounts, OnTrack
    <2> QED
      BY <2>1, WorkersAreAlive DEF Of
  <1>6. UNCHANGED <<pidFile, proc, strays, crowded>>
    <2>1. UNCHANGED <<pidFile, proc>>
      BY DEF Judge
    <2>2. UNCHANGED <<strays, crowded>>
      BY JudgeMoves, GhostsTyped
    <2> QED
      BY <2>1, <2>2
  <1>7. Shrinks
    <2>1. status' = IF Judged(s) # s THEN [status EXCEPT ![w] = Judged(s)] ELSE status
      BY <1>3, <1>4 DEF Judge, At
    <2>2. CASE Judged(s) = s
      BY <1>6, <2>1, <2>2 DEF Shrinks, Of, IsWorker, Recorded
    <2>3. CASE Judged(s) # s
      <3>1. Of(w) = {}
        BY <1>5, <2>3 DEF Judged
      <3>2. \A v \in Worker \ {w} : status'[v] = status[v]
        BY <2>1, <2>3, FilesNow DEF Base
      <3> QED
        BY <1>6, <3>1, <3>2, StatusShrinks
    <2> QED
      BY <2>2, <2>3
  <1>8. CASE Stopping(o) /\ mem'[o] = mem[o] /\ UNCHANGED ghosts
             /\ pc'[o] = IF Alive(s.pid) THEN "terminate" ELSE "read mark"
    <2>1. OnTrack(o)'
      <3>1. At(o)' = w
        BY <1>3, <1>8 DEF At
      <3>2. Of(w)' \subseteq {mem'[o].seen.pid} /\ (pc'[o] = "read mark" => Of(w)' = {})
        BY <1>4, <1>5, <1>7, <1>8 DEF Shrinks
      <3>3. mem'[o].cmd \in {"stop", "disarm_stop"} =>
              \A v \in Worker : Of(v)' # {} => v \in mem'[o].todo
        BY <1>2, <1>7, <1>8 DEF Accounts, OnTrack, Shrinks
      <3> QED
        BY <1>8, <3>1, <3>2, <3>3 DEF OnTrack, Recording
    <2> QED
      BY <1>1, <1>2, <1>7, <1>8, <2>1, CalmStep DEF ghosts
  <1>9. CASE mem[o].cmd \in Starting /\ ~Alive(s.pid) /\ mem'[o] = mem[o]
             /\ pc'[o] = "spawn" /\ UNCHANGED ghosts
    <2>1. OnTrack(o)'
      <3>1. At(o)' = w /\ mem'[o].cmd \notin {"stop", "disarm_stop"}
        BY <1>3, <1>9 DEF At, Starting
      <3>2. Of(w)' = {}
        BY <1>5, <1>7, <1>9 DEF Shrinks
      <3> QED
        BY <1>9, <3>1, <3>2 DEF OnTrack, Recording
    <2> QED
      BY <1>1, <1>2, <1>7, <1>9, <2>1, CalmStep DEF ghosts
  <1>10. CASE ~Stopping(o) /\ Ends(o) /\ Finish(o)
    <2>1. OnTrack(o)'
      BY <1>10, OffTrack DEF Ends, Handling, Recording
    <2>2. cleared' => cleared
      BY <1>10 DEF Finish, Stopping
    <2> QED
      BY <1>1, <1>2, <1>7, <2>1, <2>2, CalmStep
  <1>11. CASE ~Stopping(o) /\ pc'[o] = "look" /\ mem'[o].cmd = mem[o].cmd /\ UNCHANGED ghosts
    <2>1. OnTrack(o)'
      BY <1>11 DEF OnTrack, Stopping, Busy, Recording
    <2> QED
      BY <1>1, <1>2, <1>7, <1>11, <2>1, CalmStep DEF ghosts
  <1> QED
    BY <1>4, <1>8, <1>9, <1>10, <1>11, JudgeMoves

\* A signal ends the only process the worker had.
LEMMA EndAccounts ==
  ASSUME Base, Accounts, NEW o \in Operator, Terminate(o) \/ Kill(o)
  PROVE  Accounts'
  <1>1. Shift(o) /\ mem'[o].cmd \in {mem[o].cmd, "none"} /\ mem'[o] = mem[o]
    BY CommandStays, TerminateMoves, KillMoves DEF Step
  <1>2. pc[o] \in {"terminate", "kill"} /\ pc[o] \in Handling /\ pc[o] \notin Recording
    BY DEF Terminate, Kill, Handling, Recording
  <1>3. PICK w \in Worker : w = At(o)
    BY <1>2, AtWorker
  <1>4. PICK p : p = mem[o].seen.pid
    OBVIOUS
  <1>5. Of(w) \subseteq {p} /\ At(o)' = w
    BY <1>1, <1>2, <1>3, <1>4 DEF Accounts, OnTrack, At
  <1>6. UNCHANGED <<wfiles, crowded, cleared>>
    BY DEF Terminate, Kill
  <1>7. CASE proc' = [proc EXCEPT ![p] = Gone] /\ strays' = strays \ {p} /\ pc'[o] = "read mark"
    <2>1. Shrinks /\ p \notin Of(w)'
      BY <1>6, <1>7, EndShrinks
    <2>2. Of(w)' = {}
      BY <1>5, <2>1 DEF Shrinks
    <2>3. mem'[o].cmd \in {"stop", "disarm_stop"} =>
            \A v \in Worker : Of(v)' # {} => v \in mem'[o].todo
      BY <1>1, <1>2, <2>1 DEF Accounts, OnTrack, Shrinks
    <2>4. OnTrack(o)'
      BY <1>5, <1>7, <2>2, <2>3 DEF OnTrack, Recording
    <2> QED
      BY <1>1, <1>2, <1>6, <2>1, <2>4, CalmStep
  <1>8. CASE UNCHANGED <<proc, strays>> /\ pc'[o] = "kill"
    <2>1. Shrinks
      BY <1>6, <1>8, StillShrinks
    <2>2. Of(w)' \subseteq {p}
      BY <1>5, <2>1 DEF Shrinks
    <2>3. mem'[o].cmd \in {"stop", "disarm_stop"} =>
            \A v \in Worker : Of(v)' # {} => v \in mem'[o].todo
      BY <1>1, <1>2, <2>1 DEF Accounts, OnTrack, Shrinks
    <2>4. OnTrack(o)'
      BY <1>1, <1>4, <1>5, <1>8, <2>2, <2>3 DEF OnTrack, Recording
    <2> QED
      BY <1>1, <1>2, <1>6, <2>1, <2>4, CalmStep
  <1>9. pc \in [Operator -> Labels]
    BY DEF Base
  <1> QED
    BY <1>4, <1>7, <1>8, <1>9 DEF Terminate, Kill, Goto

\* After the last mark of a stop no process is left.
LEMMA MarkAccounts ==
  ASSUME Base, Accounts, NEW o \in Operator, Mark(o)
  PROVE  Accounts'
  <1>1. Shift(o) /\ mem'[o].cmd \in {mem[o].cmd, "none"}
    BY CommandStays DEF Step
  <1>2. pc[o] = "mark" /\ pc[o] \in Handling /\ pc[o] \notin Recording
    BY DEF Mark, Handling, Recording
  <1>3. PICK w \in Worker : w = At(o)
    BY <1>2, AtWorker
  <1>4. Of(w) = {}
    BY <1>2, <1>3 DEF Accounts, OnTrack
  <1>5. UNCHANGED <<pidFile, proc, strays, crowded>>
    <2>1. UNCHANGED <<pidFile, proc>>
      BY DEF Mark
    <2>2. UNCHANGED <<strays, crowded>>
      BY MarkMoves, GhostsTyped
    <2> QED
      BY <2>1, <2>2
  <1>6. Shrinks
    <2>1. status' = [status EXCEPT ![w] = [st |-> "ended", pid |-> mem[o].mark.pid]]
      BY <1>3 DEF Mark, At
    <2>2. \A v \in Worker \ {w} : status'[v] = status[v]
      BY <2>1, FilesNow DEF Base
    <2> QED
      BY <1>4, <1>5, <2>2, StatusShrinks
  <1>7. CASE mem[o].cmd = "restart" /\ pc'[o] = "look" /\ UNCHANGED ghosts
    <2>1. OnTrack(o)'
      BY <1>1, <1>7 DEF OnTrack, Recording
    <2> QED
      BY <1>1, <1>2, <1>6, <1>7, <2>1, CalmStep DEF ghosts
  <1>8. CASE Ends(o) /\ Finish(o) /\ mem[o].todo = {At(o)}
    <2>1. OnTrack(o)'
      BY <1>8, OffTrack DEF Ends, Handling, Recording
    <2>2. cleared' => \/ cleared
                      \/ /\ \A v \in Worker : Of(v) = {}
                         /\ \A x \in Operator : mem[x].cmd \notin Starting
      BY <1>2, <1>3, <1>4, <1>8, StopEnds
    <2>3. cleared' => \/ cleared
                      \/ /\ \A v \in Worker : Of(v)' = {}
                         /\ \A x \in Operator : mem[x].cmd \notin Starting
      BY <1>6, <2>2 DEF Shrinks
    <2> QED
      BY <1>1, <1>2, <1>6, <2>1, <2>3, CalmStep
  <1>9. CASE pc'[o] = "look" /\ mem'[o].cmd = mem[o].cmd /\ UNCHANGED ghosts
             /\ mem'[o].todo = mem[o].todo \ {At(o)}
    <2>1. mem'[o].cmd \in {"stop", "disarm_stop"} =>
            \A v \in Worker : Of(v)' # {} => v \in mem'[o].todo
      BY <1>2, <1>3, <1>4, <1>6, <1>9 DEF Accounts, OnTrack, Shrinks
    <2>2. OnTrack(o)'
      BY <1>9, <2>1 DEF OnTrack, Recording
    <2> QED
      BY <1>1, <1>2, <1>6, <1>9, <2>2, CalmStep DEF ghosts
  <1> QED
    BY <1>7, <1>8, <1>9, MarkMoves DEF At

(* The steps that start a process and record it.                           *)
LEMMA SpawnAccounts ==
  ASSUME Base, Accounts, NEW o \in Operator, Spawn(o)
  PROVE  Accounts'
  <1>1. pc[o] = "spawn" /\ pc[o] \in Handling
    BY DEF Spawn, Handling
  <1>2. mem[o].cmd \in Starting /\ mem[o].cmd \notin {"stop", "disarm_stop"}
    BY <1>1, AtWorker DEF Starting
  <1>3. PICK w \in Worker : w = At(o)
    BY <1>1, AtWorker
  <1>4. Of(w) = {}
    BY <1>1, <1>3 DEF Accounts, OnTrack
  <1>5. PICK p \in Pid :
          /\ Shift(o) /\ pc'[o] = "pid file" /\ Keeps(o) /\ mem'[o].pid = p
          /\ ~Alive(p) /\ strays' = strays \ {p}
          /\ proc' = [proc EXCEPT ![p] = Spawned(w, mem[o].live)]
    BY <1>3, SpawnMoves DEF At
  <1>6. /\ \A q \in Pid \ {p} : proc'[q] = proc[q]
        /\ IsWorker(p)' /\ proc'[p].w = w /\ ~IsWorker(p)
    <2>1. proc'[p] = Spawned(w, mem[o].live) /\ \A q \in Pid \ {p} : proc'[q] = proc[q]
      BY <1>5, FilesNow DEF Base
    <2> QED
      <3>1. IsWorker(p)'
        BY <2>1 DEF IsWorker, Spawned
      <3>2. proc'[p].w = w
        BY <2>1 DEF Spawned
      <3>3. ~IsWorker(p)
        BY <1>5, WorkersAreAlive
      <3> QED
        BY <2>1, <3>1, <3>2, <3>3
  <1>7. UNCHANGED wfiles /\ cleared' = cleared
    BY DEF Spawn
  <1>8. Of(w)' = {p} /\ \A v \in Worker \ {w} : Of(v)' = Of(v)
    <2>1. \A v \in Worker, q \in Pid \ {p} : q \in Of(v)' <=> q \in Of(v)
      BY <1>5, <1>6 DEF Of, IsWorker
    <2>2. \A v \in Worker : p \in Of(v)' <=> v = w
      BY <1>5, <1>6 DEF Of
    <2>3. \A v \in Worker : p \notin Of(v)
      BY <1>6 DEF Of
    <2>4. \A v \in Worker : Of(v)' \subseteq Pid /\ Of(v) \subseteq Pid
      BY DEF Of
    <2> QED
      BY <1>4, <2>1, <2>2, <2>3, <2>4
  <1>9. OnTrack(o)'
    <2>1. At(o)' = w
      BY <1>3, <1>5 DEF At, Keeps
    <2> QED
      BY <1>2, <1>5, <1>6, <1>8, <2>1 DEF OnTrack, Keeps
  <1>10. Located'
    <2> SUFFICES ASSUME NEW v \in Worker, NEW q \in Of(v)' PROVE Unrecorded(q)' \/ Recorded(v)'.pid = q
      BY DEF Located
    <2>1. CASE q = p
      BY <1>5, <2>1 DEF Unrecorded
    <2>2. CASE q # p
      <3>1. q \in Of(v)
        BY <1>8, <2>2
      <3>2. ~Unrecorded(q)
        <4>1. \A x \in Operator : pc[x] \notin Recording
          BY <1>1, <1>2, StarterIsAlone DEF Accounts, Recording
        <4> QED
          BY <4>1 DEF Unrecorded, Recording
      <3>3. Recorded(v).pid = q
        BY <3>1, <3>2 DEF Accounts, Located
      <3> QED
        BY <1>7, <3>3 DEF Recorded, wfiles
    <2> QED
      BY <2>1, <2>2
  <1> QED
    BY <1>2, <1>5, <1>7, <1>9, <1>10, StartingStep DEF Keeps

\* Between the start of a process and its status file.
LEMMA RecordingTells ==
  ASSUME Base, Accounts, NEW o \in Operator, pc[o] \in Recording
  PROVE  /\ mem[o].cmd \in Starting /\ mem[o].cmd \notin {"stop", "disarm_stop"}
         /\ At(o) \in Worker /\ Of(At(o)) \subseteq {mem[o].pid}
         /\ \A v \in Worker \ {At(o)} : \A q \in Of(v) : Recorded(v).pid = q
  <1>1. mem[o].cmd \in Starting /\ At(o) \in Worker
    BY AtWorker DEF Handling
  <1>2. /\ Of(At(o)) \subseteq {mem[o].pid}
        /\ IsWorker(mem[o].pid) => proc[mem[o].pid].w = At(o)
    BY DEF Accounts, OnTrack
  <1>3. \A x \in Operator \ {o} : pc[x] \notin Recording
    BY <1>1, StarterIsAlone DEF Accounts
  <1>4. ASSUME NEW v \in Worker \ {At(o)}, NEW q \in Of(v) PROVE Recorded(v).pid = q
    <2>1. q # mem[o].pid
      BY <1>2, <1>4 DEF Of
    <2>2. ~Unrecorded(q)
      BY <1>3, <2>1 DEF Unrecorded, Recording
    <2> QED
      BY <1>4, <2>2 DEF Accounts, Located
  <1> QED
    BY <1>1, <1>2, <1>4 DEF Starting

\* The pid and command files do not hide the worker being recorded.
LEMMA WriteFilesAccounts ==
  ASSUME Base, Accounts, NEW o \in Operator, WritePid(o) \/ WriteCommand(o)
  PROVE  Accounts'
  <1>1. Shift(o) /\ mem'[o] = mem[o]
    BY WriteFilesMoves
  <1>2. pc[o] \in Recording
    BY DEF WritePid, WriteCommand, Recording
  <1>3. PICK w \in Worker : w = At(o)
    BY <1>2, RecordingTells
  <1>4. /\ mem[o].cmd \in Starting /\ mem[o].cmd \notin {"stop", "disarm_stop"}
        /\ Of(w) \subseteq {mem[o].pid}
        /\ \A v \in Worker \ {w} : \A q \in Of(v) : Recorded(v).pid = q
    BY <1>2, <1>3, RecordingTells
  <1>5. /\ UNCHANGED <<status, proc, strays, cleared>>
        /\ pc'[o] \in {"command file", "status file"}
        /\ \A v \in Worker \ {w} : pidFile'[v] = pidFile[v]
        /\ pidFile'[w] = mem[o].pid
    <2>1. CASE WritePid(o)
      <3>1. pidFile' = [pidFile EXCEPT ![w] = mem[o].pid]
        BY <1>3, <2>1 DEF WritePid, At
      <3>2. UNCHANGED <<status, proc, strays, cleared>>
        BY <2>1 DEF WritePid, ghosts
      <3>3. pc'[o] = "command file"
        BY <2>1, WriteFilesMoves DEF WritePid
      <3>4. pidFile \in [Worker -> Pid \cup {NoPid}]
        BY FilesNow DEF Base
      <3> QED
        BY <3>1, <3>2, <3>3, <3>4
    <2>2. CASE WriteCommand(o)
      <3>1. UNCHANGED <<pidFile, status, proc, strays, cleared>> /\ pc[o] = "command file"
        BY <2>2 DEF WriteCommand, ghosts
      <3>2. pidFile[w] = mem[o].pid
        BY <1>3, <3>1 DEF Accounts, OnTrack
      <3>3. pc'[o] = "status file"
        BY <2>2, <3>1, WriteFilesMoves DEF WritePid
      <3> QED
        BY <3>1, <3>2, <3>3
    <2> QED
      BY <2>1, <2>2
  <1>6. \A v \in Worker : Of(v)' = Of(v)
    BY <1>5 DEF Of, IsWorker
  <1>7. OnTrack(o)'
    <2>1. At(o)' = w
      BY <1>1, <1>3 DEF At
    <2>2. IsWorker(mem[o].pid)' => proc'[mem[o].pid].w = w
      <3>1. IsWorker(mem[o].pid) => proc[mem[o].pid].w = w
        BY <1>2, <1>3 DEF Accounts, OnTrack
      <3> QED
        BY <1>1, <1>5, <3>1 DEF IsWorker
    <2> QED
      BY <1>1, <1>4, <1>5, <1>6, <2>1, <2>2 DEF OnTrack
  <1>8. Located'
    <2> SUFFICES ASSUME NEW v \in Worker, NEW q \in Of(v)' PROVE Unrecorded(q)' \/ Recorded(v)'.pid = q
      BY DEF Located
    <2>1. CASE v = w
      <3>1. q = mem'[o].pid
        BY <1>1, <1>4, <1>6, <2>1
      <3> QED
        BY <1>5, <3>1 DEF Unrecorded
    <2>2. CASE v # w
      <3>1. Recorded(v).pid = q
        BY <1>4, <1>6, <2>2
      <3> QED
        BY <1>5, <2>2, <3>1 DEF Recorded
    <2> QED
      BY <2>1, <2>2
  <1> QED
    BY <1>1, <1>4, <1>5, <1>7, <1>8, StartingStep

\* With its status file a worker is recorded.
LEMMA WriteStatusAccounts ==
  ASSUME Base, Accounts, NEW o \in Operator, WriteStatus(o)
  PROVE  Accounts'
  <1>1. Shift(o) /\ mem'[o].cmd \in {mem[o].cmd, "none"}
    BY CommandStays DEF Step
  <1>2. pc[o] \in Recording
    BY DEF WriteStatus, Recording
  <1>3. PICK w \in Worker : w = At(o)
    BY <1>2, RecordingTells
  <1>4. /\ mem[o].cmd \in Starting /\ mem[o].cmd \notin {"stop", "disarm_stop"}
        /\ Of(w) \subseteq {mem[o].pid}
        /\ \A v \in Worker \ {w} : \A q \in Of(v) : Recorded(v).pid = q
    BY <1>2, <1>3, RecordingTells
  <1>5. status' = [status EXCEPT ![w] = [st |-> "running", pid |-> mem[o].pid]]
    BY <1>3 DEF WriteStatus, At
  <1>6. UNCHANGED <<pidFile, proc, strays>> /\ (cleared' => cleared)
    <2>1. UNCHANGED <<pidFile, proc>>
      BY DEF WriteStatus
    <2>2. UNCHANGED ghosts \/ Finish(o)
      BY WriteStatusMoves
    <2> QED
      BY <1>4, <2>1, <2>2, GhostsTyped
  <1>7. \A v \in Worker : Of(v)' = Of(v)
    BY <1>6 DEF Of, IsWorker
  <1>8. OnTrack(o)'
    <2>1. pc'[o] \in {"idle", "look"} /\ mem'[o].cmd \notin {"stop", "disarm_stop"}
      BY <1>1, <1>4, WriteStatusMoves DEF Ends
    <2> QED
      BY <2>1 DEF OnTrack, Recording
  <1>9. Located'
    <2> SUFFICES ASSUME NEW v \in Worker, NEW q \in Of(v)' PROVE Recorded(v)'.pid = q
      BY DEF Located
    <2>0. status \in [Worker -> StatusFile]
      BY FilesNow DEF Base
    <2>1. CASE v = w
      <3>1. q = mem[o].pid
        BY <1>4, <1>7, <2>1
      <3>2. status'[v] = [st |-> "running", pid |-> mem[o].pid]
        BY <1>5, <2>0, <2>1
      <3> QED
        BY <3>1, <3>2 DEF Recorded
    <2>2. CASE v # w
      <3>1. Recorded(v).pid = q
        BY <1>4, <1>7, <2>2
      <3>2. status'[v] = status[v]
        BY <1>5, <2>0, <2>2
      <3> QED
        BY <1>6, <3>1, <3>2 DEF Recorded
    <2> QED
      BY <2>1, <2>2
  <1> QED
    BY <1>1, <1>4, <1>6, <1>8, <1>9, StartingStep

(* A session that dies leaves behind the worker no file tells of.          *)
LEMMA DieAccounts ==
  ASSUME Base, Accounts, NEW o \in Operator, Die(o)
  PROVE  Accounts'
  <1>1. Shift(o) /\ Ends(o) /\ mem'[o].cmd \in {mem[o].cmd, "none"}
    BY CommandStays, DieKeepsBase
  <1>2. /\ UNCHANGED <<pidFile, status, proc, crowded, cleared>>
        /\ strays' = strays \cup LeftBehind(o)
    BY DEF Die, wfiles
  <1>3. \A w \in Worker : /\ Of(w)' \subseteq Of(w)
                          /\ \A q \in LeftBehind(o) : q \notin Of(w)'
    BY <1>2 DEF Of, IsWorker
  <1>4. OnTrack(o)'
    BY <1>1, OffTrack DEF Ends, Handling, Recording
  <1>5. CASE pc[o] \notin Recording
    <2>1. Shrinks
      BY <1>2, <1>3 DEF Shrinks, IsWorker, Recorded
    <2> QED
      BY <1>1, <1>2, <1>4, <1>5, <2>1, CalmStep
  <1>6. CASE pc[o] \in Recording
    <2>1. PICK w \in Worker : w = At(o)
      BY <1>6, RecordingTells
    <2>2. /\ mem[o].cmd \in Starting /\ Of(w) \subseteq {mem[o].pid}
          /\ \A v \in Worker \ {w} : \A q \in Of(v) : Recorded(v).pid = q
      BY <1>6, <2>1, RecordingTells
    <2>3. Located'
      <3> SUFFICES ASSUME NEW v \in Worker, NEW q \in Of(v)' PROVE Recorded(v)'.pid = q
        BY DEF Located
      <3>1. q \in Of(v) /\ q \notin LeftBehind(o)
        BY <1>3
      <3>2. Recorded(v)' = Recorded(v)
        BY <1>2 DEF Recorded
      <3>3. CASE v # w
        BY <2>2, <3>1, <3>2, <3>3
      <3>4. CASE v = w
        <4>1. q = mem[o].pid
          BY <2>2, <3>1, <3>4
        <4>2. pc[o] \in {"command file", "status file"} /\ status[w].st = "none"
          BY <1>6, <2>1, <3>1, <4>1 DEF LeftBehind, Recording, At
        <4>3. pidFile[w] = mem[o].pid
          BY <2>1, <4>2 DEF Accounts, OnTrack
        <4>4. Recorded(w) = [NoStatus EXCEPT !.pid = pidFile[w]]
          BY <4>2 DEF Recorded
        <4>5. Recorded(w).pid = pidFile[w]
          BY <4>4 DEF NoStatus
        <4> QED
          BY <3>2, <3>4, <4>1, <4>3, <4>5
      <3> QED
        BY <3>3, <3>4
    <2> QED
      BY <1>1, <1>2, <1>4, <2>2, <2>3, StartingStep
  <1> QED
    BY <1>5, <1>6

\* A command begins; a start only where no other command supervises.
LEMMA BeginAccounts ==
  ASSUME Base, Accounts, NEW o \in Operator, NEW cmd \in Commands, NEW w \in Worker,
         Begin(o, cmd, w), ~crowded'
  PROVE  Accounts'
  <1>1. Shift(o) /\ mem'[o].cmd = cmd /\ pc'[o] \notin Handling
    BY BeginMoves
  <1>2. /\ UNCHANGED <<wfiles, proc, strays>> /\ pc[o] = "idle" /\ ~crowded
        /\ cmd \in Starting => ~Others(o, Supervising)
        /\ cmd \in Supervising => ~Others(o, Starting)
        /\ cleared' => cleared /\ cmd \notin Starting
    BY DEF Begin
  <1>3. Shrinks
    <2>1. crowded = FALSE /\ crowded' = FALSE
      <3>1. crowded \in BOOLEAN
        BY FilesNow DEF Base
      <3>2. crowded' \in BOOLEAN
        BY BeginKeepsBase DEF Base, FilesTyped, TypeOK
      <3> QED
        BY <1>2, <3>1, <3>2
    <2> QED
      BY <1>2, <2>1, StillShrinks
  <1>4. Sole'
    <2> SUFFICES ASSUME NEW a \in Operator, NEW x \in Operator, a # x, mem'[a].cmd \in Starting
                 PROVE  mem'[x].cmd \notin Supervising
      BY DEF Sole
    <2>1. CASE a = o
      BY <1>1, <1>2, <2>1 DEF Shift, Others, Busy
    <2>2. CASE x = o
      BY <1>1, <1>2, <2>2 DEF Shift, Others, Busy
    <2>3. CASE a # o /\ x # o
      BY <1>1, <2>3 DEF Shift, Accounts, Sole
    <2> QED
      BY <2>1, <2>2, <2>3
  <1>5. Located'
    <2>1. \A p \in Pid : Unrecorded(p) => Unrecorded(p)'
      BY <1>1, <1>2 DEF Unrecorded, Shift
    <2> QED
      BY <1>3, <2>1, LocatedKept DEF Accounts
  <1>6. \A x \in Operator : OnTrack(x)'
    <2> SUFFICES ASSUME NEW x \in Operator PROVE OnTrack(x)'
      OBVIOUS
    <2>1. CASE x = o
      BY <1>1, <2>1, OffTrack
    <2>2. CASE x # o
      <3>1. OnTrack(x) /\ pc'[x] = pc[x] /\ mem'[x] = mem[x]
        BY <1>1, <2>2 DEF Shift, Accounts
      <3> QED
        BY <1>3, <3>1, TrackKept
    <2> QED
      BY <2>1, <2>2
  <1>7. Emptied'
    BY <1>1, <1>2, <1>3 DEF Accounts, Emptied, Shift, Shrinks
  <1> QED
    BY <1>4, <1>5, <1>6, <1>7 DEF Accounts

\* A process moves on its own.
LEMMA ProcessAccounts ==
  ASSUME Base, Accounts, NEW p \in Pid, ProcessStep(p)
  PROVE  Accounts'
  <1>1. /\ UNCHANGED <<files, wfiles, pc, mem, wish, off, raced, crowded, cleared>>
        /\ strays' = strays \/ (strays' = strays \ {p} /\ proc'[p] = Gone)
        /\ \A q \in Pid \ {p} : proc'[q] = proc[q]
        /\ \/ proc'[p] \in {Gone, Foreign}
           \/ IsWorker(p) /\ proc'[p].is = "worker" /\ proc'[p].w = proc[p].w
    BY ProcessSteps
  <1>2. Gone.is # "worker" /\ Foreign.is # "worker"
    BY DEF Gone, Foreign
  <1>3. \A q \in Pid : IsWorker(q)' => IsWorker(q) /\ proc'[q].w = proc[q].w
    BY <1>1, <1>2 DEF IsWorker
  <1>4. \A w \in Worker : Of(w)' \subseteq Of(w)
    <2>1. \A q \in Pid : IsWorker(q)' /\ q \notin strays' => q \notin strays
      BY <1>1, <1>2 DEF IsWorker
    <2> QED
      BY <1>3, <2>1 DEF Of
  <1>5. Shrinks
    BY <1>1, <1>3, <1>4 DEF Shrinks, Recorded, wfiles
  <1>6. Located'
    BY <1>1, <1>5, LocatedKept DEF Unrecorded, Accounts
  <1>7. \A x \in Operator : OnTrack(x)'
    BY <1>1, <1>5, TrackKept DEF Accounts
  <1>8. Emptied' /\ Sole'
    BY <1>1, <1>5 DEF Accounts, Emptied, Sole, Shrinks
  <1> QED
    BY <1>6, <1>7, <1>8 DEF Accounts

\* Supervised is inductive, from the steps above.
LEMMA InitSupervised == Init => Supervised
  <1> SUFFICES ASSUME Init PROVE Accounts
    BY InitBase DEF Supervised
  <1>1. \A o \in Operator : pc[o] = "idle" /\ mem[o].cmd = "none"
    BY BlankFits DEF Init
  <1>2. \A w \in Worker : Of(w) = {}
    BY DEF Init, Of, IsWorker, Gone
  <1>3. "none" \notin Starting /\ cleared = FALSE
    BY DEF Init, Starting
  <1> QED
    BY <1>1, <1>2, <1>3 DEF Accounts, Sole, Located, OnTrack, Emptied, Handling, Recording

\* Once crowded, a behaviour stays so.
LEMMA CrowdedStays == ASSUME Base, [Next]_vars, crowded PROVE crowded'
  <1>1. ASSUME NEW o \in Operator, Step(o) \/ Die(o) PROVE crowded' = crowded
    <2>1. CASE Die(o)
      BY <2>1 DEF Die
    <2> QED
      BY <1>1, <2>1, QuietSteps, GhostsTyped, ControlSteps, WorkerSteps DEF Step, OnlyLocals
  <1>2. ASSUME NEW o \in Operator, NEW cmd \in Commands, NEW w \in Worker, Begin(o, cmd, w)
        PROVE  crowded'
    BY <1>2 DEF Begin
  <1>3. ASSUME NEW p \in Pid, ProcessStep(p) PROVE crowded'
    BY <1>3, ProcessSteps
  <1>4. CASE UNCHANGED vars
    BY <1>4 DEF vars, ghosts
  <1> QED
    BY <1>1, <1>2, <1>3, <1>4, EveryStep DEF SessionStep

LEMMA StepKeepsSupervised ==
  ASSUME Supervised, [Next]_vars
  PROVE  Supervised'
  <1>1. Base /\ Base'
    BY StepKeepsBase DEF Supervised
  <1> SUFFICES ASSUME ~crowded' PROVE Accounts'
    BY <1>1 DEF Supervised
  <1>2. Accounts
    BY <1>1, CrowdedStays DEF Supervised
  <1>3. ASSUME NEW o \in Operator, Step(o) PROVE Accounts'
    <2>1. CASE \/ ReadControl(o) \/ LookAtLock(o) \/ Stage(o) \/ Rename(o) \/ WriteLock(o)
               \/ EndPrestart(o) \/ Unlink(o) \/ ReadCommand(o)
      BY <1>1, <1>2, <2>1, PlainSteps
    <2>2. CASE List(o) \/ Look(o) \/ ReadMark(o)
      BY <1>1, <1>2, <2>2, ListAccounts, LookAccounts, ReadMarkAccounts
    <2>3. CASE Judge(o) \/ Terminate(o) \/ Kill(o) \/ Mark(o)
      BY <1>1, <1>2, <2>3, JudgeAccounts, EndAccounts, MarkAccounts
    <2>4. CASE Spawn(o) \/ WritePid(o) \/ WriteCommand(o) \/ WriteStatus(o)
      BY <1>1, <1>2, <2>4, SpawnAccounts, WriteFilesAccounts, WriteStatusAccounts
    <2> QED
      BY <1>3, <2>1, <2>2, <2>3, <2>4 DEF Step
  <1>4. CASE \E o \in Operator : SessionStep(o)
    BY <1>1, <1>2, <1>3, <1>4, DieAccounts, BeginAccounts DEF SessionStep
  <1>5. CASE \E p \in Pid : ProcessStep(p)
    BY <1>1, <1>2, <1>5, ProcessAccounts
  <1>6. CASE UNCHANGED vars
    <2>1. UNCHANGED <<wfiles, proc, pc, mem, strays, crowded, cleared>>
      BY <1>6 DEF vars, ghosts
    <2>2. Shrinks
      BY <2>1, StillShrinks
    <2>3. Located'
      BY <1>2, <2>1, <2>2, LocatedKept DEF Accounts, Unrecorded
    <2>4. \A x \in Operator : OnTrack(x)'
      BY <1>1, <1>2, <2>1, <2>2, TrackKept DEF Accounts
    <2>5. Sole' /\ Emptied'
      BY <1>2, <2>1, <2>2 DEF Accounts, Sole, Emptied, Shrinks
    <2> QED
      BY <2>3, <2>4, <2>5 DEF Accounts
  <1> QED
    BY <1>4, <1>5, <1>6, EveryStep

\* What the invariant says of the files.
LEMMA SupervisedAccounts ==
  ASSUME Supervised
  PROVE  WorkersAccounted
  <1> SUFFICES ASSUME ~crowded PROVE WorkersAccounted
    BY DEF WorkersAccounted, WorkersFound, OneProcess, StoppedAll
  <1>1. Base /\ Accounts /\ proc \in [Pid -> ProcStates]
    BY FilesNow DEF Supervised, Base
  <1>2. ASSUME NEW p \in Pid, IsWorker(p), p \notin strays
        PROVE  proc[p].w \in Worker /\ p \in Of(proc[p].w)
    <2>1. Gone.is # "worker" /\ Foreign.is # "worker"
      BY DEF Gone, Foreign
    <2>2. proc[p] \in ProcStates \ {Gone, Foreign}
      BY <1>1, <1>2, <2>1 DEF IsWorker
    <2> QED
      BY <1>2, <2>2 DEF ProcStates, Of
  <1>3. WorkersFound
    BY <1>1, <1>2 DEF WorkersFound, Accounts, Located, Found
  <1>4. OneProcess
    <2> SUFFICES ASSUME NEW p \in Pid, NEW q \in Pid, IsWorker(p), IsWorker(q),
                        proc[p].w = proc[q].w, p \notin strays, q \notin strays
                 PROVE  p = q
      BY DEF OneProcess
    <2>1. PICK w \in Worker : w = proc[p].w /\ p \in Of(w) /\ q \in Of(w)
      BY <1>2
    <2>2. ASSUME NEW a \in Of(w), Unrecorded(a) PROVE Of(w) \subseteq {a}
      <3>1. PICK x \in Operator : mem[x].pid = a /\ pc[x] \in Recording
        BY <2>2 DEF Unrecorded, Recording
      <3>2. Of(At(x)) \subseteq {a} /\ (IsWorker(a) => proc[a].w = At(x))
        BY <1>1, <3>1 DEF Accounts, OnTrack
      <3> QED
        BY <2>2, <3>2 DEF Of
    <2>3. CASE Unrecorded(p) \/ Unrecorded(q)
      BY <2>1, <2>2, <2>3
    <2>4. CASE ~Unrecorded(p) /\ ~Unrecorded(q)
      BY <1>1, <2>1, <2>4 DEF Accounts, Located
    <2> QED
      BY <2>3, <2>4
  <1>5. StoppedAll
    BY <1>1, <1>2 DEF StoppedAll, Accounts, Emptied
  <1> QED
    BY <1>3, <1>4, <1>5 DEF WorkersAccounted

(* For any number of sessions, workers, commands, deaths and reused pids,  *)
(* as long as no start runs together with another supervising command:     *)
(* every worker process is the only one of its worker, its files name it,  *)
(* and a stop leaves none, except where the session that started it died   *)
(* before it recorded it (worker_supervisor.py).                           *)
THEOREM WorkersAreAccounted == Spec => []WorkersAccounted
  <1>1. Supervised /\ [Next]_vars => Supervised'
    BY StepKeepsSupervised
  <1>2. Supervised => WorkersAccounted
    BY SupervisedAccounts
  <1> QED
    BY <1>1, <1>2, InitSupervised, PTL DEF Spec
=============================================================================
