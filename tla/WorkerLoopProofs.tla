-------------------------- MODULE WorkerLoopProofs --------------------------
(***************************************************************************)
(* Proofs about WorkerLoop for any number of workers, operators,           *)
(* challenges and flags, any policy, run mode, options and disturbances:   *)
(* the loop uses the work queue as its interface allows, so that the       *)
(* queue's results carry over; two processes share a challenge only where  *)
(* they contend for it; no claim leaks; a solved challenge stays solved.   *)
(* Last, laws of the decisions every submission passes.  LedgerProofs is   *)
(* about the submissions table.                                            *)
(***************************************************************************)
EXTENDS WorkerLoop, FiniteSetTheorems, TLAPS

(* The theorems about the queue, with the loop's tables for its own.       *)
QP == INSTANCE WorkQueueProofs

(* The locals of a process, and the tables they belong beside.             *)
Locals ==
  [kind : TargetKinds \cup {"none"}, flags : SUBSET (Options \cup {"contest_armed", "allow_live_submit"}),
   live : BOOLEAN, todo : SUBSET Flag, previous : SUBSET Entries, solved : BOOLEAN,
   outcome : {"stalled", "submit_planned", "solved"}, sent : Flag \cup {"none"},
   reply : RowStatuses \cup {"unknown"}, row : RowStatuses]

Types ==
  /\ submissions \in [Challenge -> [Flag -> RowStatuses]]
  /\ armed \subseteq {"contest_armed", "allow_live_submit"}
  /\ pc \in [Process -> Labels]
  /\ job \in [Process -> Challenge \cup {NoJob}]
  /\ mem \in [Process -> Locals]
  /\ posts \in [Challenge -> [Flag -> 0..2]]
  /\ credited \subseteq Challenge /\ contended \subseteq Challenge
  /\ orphaned \subseteq Challenge /\ unanswered \subseteq Challenge \X Flag

(* A process has a challenge exactly when it is not at rest, and a flag of *)
(* its list while it posts it and records the answer.                      *)
Posting == {"posted", "recording"}
Working == \A p \in Process :
             /\ job[p] = NoJob <=> AtRest(p)
             /\ pc[p] \in Posting => mem[p].sent \in mem[p].todo /\ mem[p].reply # "none"
             /\ pc[p] = "recording" => mem[p].reply # "unknown"

(* The queue's inductive invariant (IInv of WorkQueueProofs) on the loop's *)
(* tables.                                                                 *)
QueueInv == Q!TypeOK /\ Q!ClaimConsistent /\ \A c \in Challenge : expired[c] => Q!Claimed(c)
-----------------------------------------------------------------------------
(* Claims.                                                                 *)

(* Also an operator's submit beside a worker's run is contention.          *)
Apart == \A p, q \in Process :
           p # q /\ job[p] = job[q] /\ job[p] # NoJob => job[p] \in contended

(* A worker that nobody contends with holds the claim of its challenge     *)
(* until it is done, and has seen to it that nobody can claim it since.    *)
Holds(w) == owner[job[w]] = w
Shut(w)  == status[job[w]] = "solved" /\ ~Q!Claimed(job[w])
Held == \A w \in Worker : job[w] # NoJob /\ job[w] \notin contended
                            => IF pc[w] = "postsolve" THEN Shut(w) ELSE Holds(w)

(* The claim it has given back by then does not return to it.              *)
LetGo == \A w \in Worker : pc[w] = "postsolve" => ~Holds(w)

Claims == Apart /\ Held /\ LetGo /\ NoLeakedClaim /\ LeasedIsClaimed
-----------------------------------------------------------------------------
USE WorkerLoopAssumption

(* A process that is not at rest has a challenge of the list.              *)
LEMMA AtWork ==
  ASSUME Types, Working, NEW p \in Process, ~AtRest(p)
  PROVE  job[p] \in Challenge
  BY DEF Types, Working

-----------------------------------------------------------------------------
(* What each step makes of the locals of its process.                      *)
Sets(p, m) == /\ m \in Locals
              /\ mem' = [mem EXCEPT ![p] = m]

(* A step that sets the locals of one process leaves those of the others.  *)
LEMMA SetsLocals ==
  ASSUME Types, NEW p \in Process, NEW m, Sets(p, m)
  PROVE  /\ mem' \in [Process -> Locals]
         /\ mem'[p] = m
         /\ \A q \in Process : q # p => mem'[q] = mem[q]
  BY DEF Types, Sets

(* A process without a challenge has blank locals to start with.           *)
LEMMA BlankLocals == Blank \in Locals
  BY DEF Blank, Locals, RowStatuses

(* ClaimChallenge notes the target kind of the claimed challenge.          *)
LEMMA ClaimSets ==
  ASSUME Types, NEW w \in Worker, ClaimChallenge(w)
  PROVE  \E k \in TargetKinds : Sets(w, [mem[w] EXCEPT !.kind = k])
  <1>1. PICK c \in Challenge : mem' = [mem EXCEPT ![w].kind = TargetKind(c)]
    BY DEF ClaimChallenge
  <1>2. TargetKind(c) \in TargetKinds
    BY DEF TargetKind, TargetKinds
  <1>3. mem[w] \in Locals
    BY DEF Types, Process
  <1>4. [mem[w] EXCEPT !.kind = TargetKind(c)] \in Locals
    BY <1>2, <1>3 DEF Locals
  <1> QED
    BY <1>1, <1>2, <1>4 DEF Sets

(* ReadFlags remembers the flags of the guard.                             *)
LEMMA ReadFlagsSets ==
  ASSUME Types, NEW w \in Worker, ReadFlags(w)
  PROVE  Sets(w, [mem[w] EXCEPT !.flags = Options \cup armed])
  <1>1. mem[w] \in Locals /\ armed \subseteq {"contest_armed", "allow_live_submit"}
    BY DEF Types, Process
  <1>2. [mem[w] EXCEPT !.flags = Options \cup armed] \in Locals
    BY <1>1 DEF Locals
  <1> QED
    BY <1>2 DEF Sets, ReadFlags

(* SolverDone starts over with what the solver found.                      *)
LEMMA SolverSets ==
  ASSUME Types, Working, NEW w \in Worker, SolverDone(w)
  PROVE  \E b \in BOOLEAN : Sets(w, [Blank EXCEPT !.todo = Candidates[job[w]], !.live = b])
  <1>1. job[w] \in Challenge
    BY AtWork DEF SolverDone, AtRest, Process
  <1>2. Candidates[job[w]] \subseteq Flag
    BY <1>1
  <1> DEFINE b == MaySubmit(mem[w].kind, mem[w].flags)
  <1>3. b \in BOOLEAN
    BY DEF MaySubmit
  <1>4. mem' = [mem EXCEPT ![w] = [Blank EXCEPT !.todo = Candidates[job[w]], !.live = b]]
    BY DEF SolverDone
  <1> HIDE DEF b
  <1>5. [Blank EXCEPT !.todo = Candidates[job[w]], !.live = b] \in Locals
    BY <1>2, <1>3, BlankLocals DEF Locals
  <1> QED
    BY <1>3, <1>4, <1>5 DEF Sets

(* ListSubmissions keeps the list of rows that are not "none".             *)
LEMMA ListSets ==
  ASSUME Types, Working, NEW p \in Process, ListSubmissions(p)
  PROVE  Sets(p, [mem[p] EXCEPT !.previous = Listed(submissions[job[p]])])
  <1>1. job[p] \in Challenge
    BY AtWork DEF ListSubmissions, AtRest
  <1>2. submissions[job[p]] \in [Flag -> RowStatuses] /\ mem[p] \in Locals
    BY <1>1 DEF Types
  <1>3. ASSUME NEW rows \in [Flag -> RowStatuses] PROVE Listed(rows) \in SUBSET Entries
    <2>1. ASSUME NEW f \in Flag
          PROVE  [flag |-> f, status |-> rows[f], fresh |-> FALSE] \in Entries
      BY <1>3 DEF Entries
    <2> QED
      BY <2>1 DEF Listed
  <1>4. [mem[p] EXCEPT !.previous = Listed(submissions[job[p]])] \in Locals
    BY <1>2, <1>3 DEF Locals
  <1> QED
    BY <1>4 DEF Sets, ListSubmissions

(* ReadState remembers whether the challenge is solved.                    *)
LEMMA ReadStateSets ==
  ASSUME Types, NEW p \in Process, ReadState(p)
  PROVE  \E b \in BOOLEAN : Sets(p, [mem[p] EXCEPT !.solved = b])
  <1> DEFINE b == status[job[p]] = "solved"
  <1>1. mem' = [mem EXCEPT ![p].solved = b] /\ mem[p] \in Locals /\ b \in BOOLEAN
    BY DEF ReadState, Types
  <1> HIDE DEF b
  <1>2. [mem[p] EXCEPT !.solved = b] \in Locals
    BY <1>1 DEF Locals
  <1> QED
    BY <1>1, <1>2 DEF Sets

(* PlanFlag reads the row of the flag it will record a plan or refusal     *)
(* for.                                                                    *)
LEMMA PlanSets ==
  ASSUME Types, Working, NEW p \in Process, PlanFlag(p)
  PROVE  \E f \in mem[p].todo, s \in {"planned", "blocked"} :
            Sets(p, [mem[p] EXCEPT !.sent = f, !.reply = s, !.row = submissions[job[p]][f]])
  <1>1. PICK f \in mem[p].todo, s \in {"planned", "blocked"} :
          mem' = [mem EXCEPT ![p].sent = f, ![p].reply = s, ![p].row = submissions[job[p]][f]]
    <2>1. PICK f \in mem[p].todo, cooling \in BOOLEAN : ReadRow(p, f, Plan(p, f, cooling))
      BY DEF PlanFlag
    <2>2. Plan(p, f, cooling) \in {"planned", "blocked"}
      BY DEF Plan
    <2> QED
      BY <2>1, <2>2 DEF ReadRow
  <1>2. job[p] \in Challenge /\ mem[p] \in Locals
    BY AtWork DEF PlanFlag, AtRest, Types
  <1>3. f \in Flag
    BY <1>2 DEF Locals
  <1>4. submissions[job[p]][f] \in RowStatuses /\ s \in RowStatuses
    BY <1>2, <1>3 DEF Types, RowStatuses, NonTerminal
  <1>5. [mem[p] EXCEPT !.sent = f, !.reply = s, !.row = submissions[job[p]][f]] \in Locals
    BY <1>2, <1>3, <1>4 DEF Locals
  <1> QED
    BY <1>1, <1>5 DEF Sets

(* PostFlag keeps the flag and the reply, and leaves its trace in the      *)
(* history.                                                                *)
LEMMA PostSets ==
  ASSUME Types, Working, NEW p \in Process, PostFlag(p)
  PROVE  \E f \in mem[p].todo, cooling \in BOOLEAN : \E r \in Replies(job[p], f) :
           /\ Decision(p, f, cooling)
           /\ Sets(p, [mem[p] EXCEPT !.sent = f, !.reply = r])
           /\ credited' = IF r = "accepted" THEN credited \cup {job[p]} ELSE credited
           /\ unanswered' = IF r = "unknown" THEN unanswered \cup {<<job[p], f>>}
                            ELSE unanswered
           /\ posts' = [posts EXCEPT ![job[p]][f] = IF @ < 2 THEN @ + 1 ELSE 2]
  <1>1. PICK f \in mem[p].todo, cooling \in BOOLEAN : \E r \in Replies(job[p], f) :
          /\ Decision(p, f, cooling)
          /\ mem' = [mem EXCEPT ![p].sent = f, ![p].reply = r]
          /\ credited' = IF r = "accepted" THEN credited \cup {job[p]} ELSE credited
          /\ unanswered' = IF r = "unknown" THEN unanswered \cup {<<job[p], f>>}
                           ELSE unanswered
          /\ posts' = [posts EXCEPT ![job[p]][f] = IF @ < 2 THEN @ + 1 ELSE 2]
    BY DEF PostFlag, Posted
  <1>2. mem[p] \in Locals /\ f \in Flag
    BY DEF Types, Locals
  <1>3. ASSUME NEW r \in Replies(job[p], f)
        PROVE  [mem[p] EXCEPT !.sent = f, !.reply = r] \in Locals
    <2>1. r \in RowStatuses \cup {"unknown"}
      BY DEF Replies, RowStatuses, Terminal
    <2> QED
      BY <1>2, <2>1 DEF Locals
  <1>4. PICK r \in Replies(job[p], f) :
          /\ Decision(p, f, cooling)
          /\ mem' = [mem EXCEPT ![p].sent = f, ![p].reply = r]
          /\ credited' = IF r = "accepted" THEN credited \cup {job[p]} ELSE credited
          /\ unanswered' = IF r = "unknown" THEN unanswered \cup {<<job[p], f>>}
                           ELSE unanswered
          /\ posts' = [posts EXCEPT ![job[p]][f] = IF @ < 2 THEN @ + 1 ELSE 2]
    BY <1>1
  <1>5. Sets(p, [mem[p] EXCEPT !.sent = f, !.reply = r])
    BY <1>3, <1>4 DEF Sets
  <1> QED
    BY <1>4, <1>5

(* RecordReply reads the row of the flag that was posted.                  *)
LEMMA RecordReplySets ==
  ASSUME Types, Working, NEW p \in Process, RecordReply(p)
  PROVE  LET s == IF mem[p].reply = "unknown" THEN "blocked" ELSE mem[p].reply
         IN Sets(p, [mem[p] EXCEPT !.sent = mem[p].sent, !.reply = s,
                                   !.row = submissions[job[p]][mem[p].sent]])
  <1> DEFINE s == IF mem[p].reply = "unknown" THEN "blocked" ELSE mem[p].reply
             f == mem[p].sent
  <1>1. mem' = [mem EXCEPT ![p].sent = f, ![p].reply = s, ![p].row = submissions[job[p]][f]]
    BY DEF RecordReply, ReadRow
  <1>2. job[p] \in Challenge /\ mem[p] \in Locals
    BY AtWork DEF RecordReply, AtRest, Types
  <1>3. f \in Flag
    BY <1>2 DEF Locals, RecordReply, Working, Posting
  <1>4. submissions[job[p]][f] \in RowStatuses /\ s \in RowStatuses
    BY <1>2, <1>3 DEF Types, Locals, RowStatuses, NonTerminal
  <1> HIDE DEF s, f
  <1>5. [mem[p] EXCEPT !.sent = f, !.reply = s, !.row = submissions[job[p]][f]] \in Locals
    BY <1>2, <1>3, <1>4 DEF Locals
  <1>6. Sets(p, [mem[p] EXCEPT !.sent = f, !.reply = s, !.row = submissions[job[p]][f]])
    BY <1>1, <1>5 DEF Sets
  <1> QED
    BY <1>6 DEF s, f

(* The locals once Record is done: the flag is off the list and on file.   *)
After(p) ==
  LET new == Recorded(mem[p].row, mem[p].reply) IN
  [mem[p] EXCEPT !.todo = @ \ {mem[p].sent},
                 !.previous = @ \cup {[flag |-> mem[p].sent, status |-> new, fresh |-> TRUE]},
                 !.outcome = Outcome(@, mem[p].reply),
                 !.sent = "none", !.reply = "none", !.row = "none"]

(* Record works its own entry into the list of previous submissions.       *)
LEMMA RecordSets ==
  ASSUME Types, Working, NEW p \in Process, Record(p)
  PROVE  Sets(p, After(p))
  <1> DEFINE f == mem[p].sent
             new == Recorded(mem[p].row, mem[p].reply)
             entry == [flag |-> f, status |-> new, fresh |-> TRUE]
  <1>1. mem[p] \in Locals /\ f \in Flag /\ mem[p].reply \in RowStatuses
    BY DEF Types, Working, Locals, Record, Posting
  <1>2. new \in RowStatuses
    BY <1>1 DEF Recorded, Locals
  <1>3. mem' = [mem EXCEPT ![p].todo = @ \ {f},
                           ![p].previous = @ \cup {entry},
                           ![p].outcome = Outcome(@, mem[p].reply),
                           ![p].sent = "none", ![p].reply = "none", ![p].row = "none"]
    BY DEF Record
  <1>4. entry \in Entries
    BY <1>1, <1>2 DEF Entries
  <1> HIDE DEF entry
  <1>5. mem' = [mem EXCEPT ![p] = [mem[p] EXCEPT
                 !.todo = mem[p].todo \ {f}, !.previous = mem[p].previous \cup {entry},
                 !.outcome = Outcome(mem[p].outcome, mem[p].reply),
                 !.sent = "none", !.reply = "none", !.row = "none"]]
    BY <1>1, <1>3 DEF Types
  <1>6. Outcome(mem[p].outcome, mem[p].reply) \in {"stalled", "submit_planned", "solved"}
    BY <1>1 DEF Outcome, Locals
  <1>7. "none" \in RowStatuses
    BY DEF RowStatuses
  <1>8. [mem[p] EXCEPT
                 !.todo = mem[p].todo \ {f}, !.previous = mem[p].previous \cup {entry},
                 !.outcome = Outcome(mem[p].outcome, mem[p].reply),
                 !.sent = "none", !.reply = "none", !.row = "none"] \in Locals
    BY <1>1, <1>4, <1>6, <1>7 DEF Locals
  <1> QED
    BY <1>5, <1>8 DEF Sets, After, entry

(* Whoever leaves has blank locals.                                        *)
LEMMA LeaveSets ==
  ASSUME Types, NEW p \in Process, Leave(p)
  PROVE  Sets(p, Blank)
  BY BlankLocals DEF Leave, Sets

(* The operator's submit starts with one flag.                             *)
LEMMA SubmitSets ==
  ASSUME Types, NEW o \in Operator, SubmitFlag(o)
  PROVE  \E f \in Flag : Sets(o, [mem[o] EXCEPT !.todo = {f}, !.kind = PlatformKind])
  <1>1. PICK f \in Flag : mem' = [mem EXCEPT ![o].todo = {f}, ![o].kind = PlatformKind]
    BY DEF SubmitFlag
  <1>2. mem[o] \in Locals /\ PlatformKind \in TargetKinds
    BY DEF Types, Process
  <1>3. [mem[o] EXCEPT !.todo = {f}, !.kind = PlatformKind] \in Locals
    BY <1>2 DEF Locals
  <1> QED
    BY <1>1, <1>3 DEF Sets

(* CheckPermission decides whether the operator's post is live.            *)
LEMMA PermissionSets ==
  ASSUME Types, NEW o \in Operator, CheckPermission(o)
  PROVE  \E b \in BOOLEAN : Sets(o, [mem[o] EXCEPT !.live = b])
  <1> DEFINE b == MaySubmit(mem[o].kind, Options \cup armed)
  <1>1. mem' = [mem EXCEPT ![o].live = b] /\ mem[o] \in Locals /\ b \in BOOLEAN
    BY DEF CheckPermission, MaySubmit, Types, Process
  <1> HIDE DEF b
  <1>2. [mem[o] EXCEPT !.live = b] \in Locals
    BY <1>1 DEF Locals
  <1> QED
    BY <1>1, <1>2 DEF Sets
-----------------------------------------------------------------------------
(* The initial states are well-typed and every process is at rest.         *)
LEMMA InitialTypes == Init => Types /\ Working
  <1> SUFFICES ASSUME Init PROVE Types /\ Working
    OBVIOUS
  <1>1. mem \in [Process -> Locals] /\ \A p \in Process : mem[p] = Blank
    BY BlankLocals DEF Init
  <1>2. \A p \in Process : pc[p] \in {"idle", "off"} /\ job[p] = NoJob
    BY DEF Init, Rest
  <1>3. pc \in [Process -> Labels] /\ job \in [Process -> Challenge \cup {NoJob}]
    BY <1>2 DEF Init, Labels
  <1>4. Working
    BY <1>2 DEF Working, AtRest, Posting
  <1>5. submissions \in [Challenge -> [Flag -> RowStatuses]]
    BY DEF Init, RowStatuses
  <1> QED
    BY <1>1, <1>3, <1>4, <1>5 DEF Init, Types

(* The steps of a process that keeps its challenge: from one label to      *)
(* another, with new locals.                                               *)
Moves(p, l, m) == /\ ~AtRest(p) /\ l \in Labels \ {"idle", "off", "down"}
                  /\ Goto(p, l) /\ UNCHANGED job /\ Sets(p, m)
                  /\ l \in Posting => m.sent \in m.todo /\ m.reply # "none"
                  /\ l = "recording" => m.reply # "unknown"

(* A step from one busy label to another keeps Working ...                 *)
LEMMA MovesWorking ==
  ASSUME Types, Working, NEW p \in Process, NEW l, NEW m, Moves(p, l, m)
  PROVE  /\ pc' \in [Process -> Labels] /\ job' \in [Process -> Challenge \cup {NoJob}]
         /\ mem' \in [Process -> Locals]
         /\ Working'
  <1>1. /\ pc' \in [Process -> Labels] /\ job' = job /\ pc'[p] = l
        /\ \A q \in Process : q # p => pc'[q] = pc[q]
    BY DEF Types, Moves, Goto
  <1>2. /\ mem' \in [Process -> Locals] /\ mem'[p] = m
        /\ \A q \in Process : q # p => mem'[q] = mem[q]
    BY SetsLocals DEF Moves
  <1> QED
    BY <1>1, <1>2 DEF Moves, Types, Working, AtRest

(* A process that leaves its challenge, by whatever exit.                  *)
Exits(p) == \E l \in {"idle", "off", "down"} :
  /\ Goto(p, l) /\ job' = [job EXCEPT ![p] = NoJob] /\ Sets(p, Blank)

(* ... and so does a step that gives the challenge up.                     *)
LEMMA ExitsWorking ==
  ASSUME Types, Working, NEW p \in Process, Exits(p)
  PROVE  /\ pc' \in [Process -> Labels] /\ job' \in [Process -> Challenge \cup {NoJob}]
         /\ mem' \in [Process -> Locals]
         /\ pc'[p] \in {"idle", "off", "down"} /\ job'[p] = NoJob /\ mem'[p] = Blank
         /\ \A q \in Process : q # p => pc'[q] = pc[q] /\ job'[q] = job[q] /\ mem'[q] = mem[q]
         /\ Working'
  <1>1. PICK l \in {"idle", "off", "down"} :
          Goto(p, l) /\ job' = [job EXCEPT ![p] = NoJob] /\ Sets(p, Blank)
    BY DEF Exits
  <1>2. /\ pc' \in [Process -> Labels] /\ pc'[p] = l
        /\ job' \in [Process -> Challenge \cup {NoJob}] /\ job'[p] = NoJob
        /\ \A q \in Process : q # p => pc'[q] = pc[q] /\ job'[q] = job[q]
    BY <1>1 DEF Types, Goto, Labels
  <1>3. /\ mem' \in [Process -> Locals] /\ mem'[p] = Blank
        /\ \A q \in Process : q # p => mem'[q] = mem[q]
    BY <1>1, SetsLocals
  <1>4. Working'
    BY <1>2, <1>3 DEF Working, AtRest, Posting
  <1> QED
    BY <1>2, <1>3, <1>4

(* Leave and Crash give the challenge up.                                  *)
LEMMA LeaveExits ==
  ASSUME Types, NEW p \in Process, Leave(p)
  PROVE  Exits(p)
  BY LeaveSets DEF Leave, Exits, Goto, Rest

LEMMA CrashExits ==
  ASSUME Types, NEW p \in Process, Crash(p)
  PROVE  Exits(p)
  BY BlankLocals DEF Crash, Exits, Goto, Sets

(* Which label each step leads to.                                         *)
LEMMA WorkerMoves ==
  ASSUME Types, Working, NEW w \in Worker
  PROVE  /\ ReadFlags(w) => Moves(w, "guard", [mem[w] EXCEPT !.flags = Options \cup armed])
         /\ StartSolving(w) => Moves(w, "solving", mem[w])
         /\ SolverDone(w) => \E m : m.outcome = "stalled" /\ Moves(w, "listing", m)
         /\ ParkSolved(w) => Moves(w, "postsolve", Blank)
  <1>1. w \in Process /\ mem[w] \in Locals
    BY DEF Process, Types
  <1>2. ASSUME ReadFlags(w)
        PROVE  Moves(w, "guard", [mem[w] EXCEPT !.flags = Options \cup armed])
    BY <1>2, ReadFlagsSets DEF ReadFlags, Moves, AtRest, Labels, Posting
  <1>3. ASSUME StartSolving(w) PROVE Moves(w, "solving", mem[w])
    <2>1. mem' = [mem EXCEPT ![w] = mem[w]]
      BY <1>1, <1>3 DEF StartSolving, Types
    <2> QED
      BY <1>1, <1>3, <2>1 DEF StartSolving, Moves, AtRest, Labels, Posting, Sets
  <1>4. ASSUME SolverDone(w) PROVE \E m : m.outcome = "stalled" /\ Moves(w, "listing", m)
    <2>1. PICK b \in BOOLEAN : Sets(w, [Blank EXCEPT !.todo = Candidates[job[w]], !.live = b])
      BY <1>4, SolverSets
    <2>2. [Blank EXCEPT !.todo = Candidates[job[w]], !.live = b].outcome = "stalled"
      BY DEF Blank
    <2>3. Moves(w, "listing", [Blank EXCEPT !.todo = Candidates[job[w]], !.live = b])
      BY <1>4, <2>1 DEF SolverDone, Moves, AtRest, Labels, Posting
    <2> QED
      BY <2>2, <2>3
  <1>5. ASSUME ParkSolved(w) PROVE Moves(w, "postsolve", Blank)
    BY <1>5, BlankLocals DEF ParkSolved, Planned, Moves, AtRest, Labels, Posting, Sets
  <1> QED
    BY <1>2, <1>3, <1>4, <1>5

(* The six steps of a submit all move from one busy label to another.      *)
LEMMA SubmitMoves ==
  ASSUME Types, Working, NEW p \in Process
  PROVE  /\ ListSubmissions(p) =>
              Moves(p, "reading", [mem[p] EXCEPT !.previous = Listed(submissions[job[p]])])
         /\ ReadState(p) => \E b \in BOOLEAN, l \in {"planning", "permission"} :
                               Moves(p, l, [mem[p] EXCEPT !.solved = b])
         /\ PlanFlag(p) => \E f \in mem[p].todo, s \in {"planned", "blocked"} :
              Moves(p, "recording", [mem[p] EXCEPT !.sent = f, !.reply = s,
                                                   !.row = submissions[job[p]][f]])
         /\ PostFlag(p) => \E f \in mem[p].todo : \E r \in Replies(job[p], f) :
              Moves(p, "posted", [mem[p] EXCEPT !.sent = f, !.reply = r])
         /\ RecordReply(p) =>
              LET s == IF mem[p].reply = "unknown" THEN "blocked" ELSE mem[p].reply
              IN Moves(p, "recording", [mem[p] EXCEPT !.sent = mem[p].sent, !.reply = s,
                                                 !.row = submissions[job[p]][mem[p].sent]])
         /\ Record(p) => Moves(p, "planning", After(p))
  <1>1. mem[p] \in Locals
    BY DEF Types
  <1> USE DEF Moves, AtRest, Labels, Posting
  <1>2. ASSUME ListSubmissions(p)
        PROVE  Moves(p, "reading", [mem[p] EXCEPT !.previous = Listed(submissions[job[p]])])
    BY <1>2, ListSets DEF ListSubmissions
  <1>3. ASSUME ReadState(p)
        PROVE  \E b \in BOOLEAN, l \in {"planning", "permission"} :
                 Moves(p, l, [mem[p] EXCEPT !.solved = b])
    BY <1>3, ReadStateSets DEF ReadState
  <1>4. ASSUME PlanFlag(p)
        PROVE  \E f \in mem[p].todo, s \in {"planned", "blocked"} :
                 Moves(p, "recording", [mem[p] EXCEPT !.sent = f, !.reply = s,
                                                      !.row = submissions[job[p]][f]])
    <2>1. PICK f \in mem[p].todo, s \in {"planned", "blocked"} :
            Sets(p, [mem[p] EXCEPT !.sent = f, !.reply = s, !.row = submissions[job[p]][f]])
      BY <1>4, PlanSets
    <2> DEFINE m == [mem[p] EXCEPT !.sent = f, !.reply = s, !.row = submissions[job[p]][f]]
    <2>2. m.sent = f /\ m.todo = mem[p].todo /\ m.reply = s
      BY <1>1 DEF Locals
    <2>3. s \notin {"none", "unknown"}
      OBVIOUS
    <2> HIDE DEF m
    <2>4. Goto(p, "recording") /\ UNCHANGED job /\ pc[p] = "planning"
      BY <1>4 DEF PlanFlag, ReadRow
    <2>5. Sets(p, m)
      BY <2>1 DEF m
    <2>6. Moves(p, "recording", m)
      BY <2>2, <2>3, <2>4, <2>5
    <2> QED
      BY <2>6 DEF m
  <1>5. ASSUME PostFlag(p)
        PROVE  \E f \in mem[p].todo : \E r \in Replies(job[p], f) :
                 Moves(p, "posted", [mem[p] EXCEPT !.sent = f, !.reply = r])
    <2>1. PICK f \in mem[p].todo : \E r \in Replies(job[p], f) :
            Sets(p, [mem[p] EXCEPT !.sent = f, !.reply = r])
      BY <1>5, PostSets
    <2>2. PICK r \in Replies(job[p], f) : Sets(p, [mem[p] EXCEPT !.sent = f, !.reply = r])
      BY <2>1
    <2> DEFINE m == [mem[p] EXCEPT !.sent = f, !.reply = r]
    <2>3. m.sent = f /\ m.todo = mem[p].todo /\ m.reply = r /\ r # "none"
      BY <1>1 DEF Locals, Replies
    <2>4. Goto(p, "posted") /\ UNCHANGED job /\ pc[p] = "planning"
      BY <1>5 DEF PostFlag
    <2> HIDE DEF m
    <2>5. Sets(p, m)
      BY <2>2 DEF m
    <2>6. Moves(p, "posted", m)
      BY <2>3, <2>4, <2>5
    <2> QED
      BY <2>6 DEF m
  <1>6. ASSUME RecordReply(p)
        PROVE  LET s == IF mem[p].reply = "unknown" THEN "blocked" ELSE mem[p].reply
               IN Moves(p, "recording", [mem[p] EXCEPT !.sent = mem[p].sent, !.reply = s,
                                                  !.row = submissions[job[p]][mem[p].sent]])
    <2> DEFINE s == IF mem[p].reply = "unknown" THEN "blocked" ELSE mem[p].reply
               m == [mem[p] EXCEPT !.sent = mem[p].sent, !.reply = s,
                                   !.row = submissions[job[p]][mem[p].sent]]
    <2>1. Sets(p, m)
      BY <1>6, RecordReplySets
    <2>2. m.sent = mem[p].sent /\ m.todo = mem[p].todo /\ m.reply = s
      BY <1>1 DEF Locals
    <2>3. pc[p] = "posted" /\ mem[p].sent \in mem[p].todo
      BY <1>6 DEF RecordReply, Working
    <2>4. s \notin {"none", "unknown"}
      BY <1>6 DEF Working, RecordReply
    <2>5. Goto(p, "recording") /\ UNCHANGED job
      BY <1>6 DEF RecordReply, ReadRow
    <2> HIDE DEF m, s
    <2>6. Moves(p, "recording", m)
      BY <2>1, <2>2, <2>3, <2>4, <2>5
    <2> QED
      BY <2>6 DEF m, s
  <1>7. ASSUME Record(p) PROVE Moves(p, "planning", After(p))
    BY <1>7, RecordSets DEF Record
  <1> QED
    BY <1>2, <1>3, <1>4, <1>5, <1>6, <1>7

(* The other steps of an operator's submit.                                *)
LEMMA OperatorMoves ==
  ASSUME Types, Working, NEW o \in Operator
  PROVE  /\ CheckPermission(o) => \E b \in BOOLEAN :
              Moves(o, "planning", [mem[o] EXCEPT !.live = b])
         /\ SubmitAccepted(o) => Moves(o, "rerecord", mem[o])
  <1>1. o \in Process /\ mem[o] \in Locals
    BY DEF Process, Types
  <1>2. ASSUME CheckPermission(o)
        PROVE  \E b \in BOOLEAN : Moves(o, "planning", [mem[o] EXCEPT !.live = b])
    BY <1>2, PermissionSets DEF CheckPermission, Moves, AtRest, Labels, Posting
  <1>3. ASSUME SubmitAccepted(o) PROVE Moves(o, "rerecord", mem[o])
    <2>1. mem' = [mem EXCEPT ![o] = mem[o]]
      BY <1>1, <1>3 DEF SubmitAccepted, Types
    <2> QED
      BY <1>1, <1>3, <2>1 DEF SubmitAccepted, Planned, Moves, AtRest, Labels, Posting, Sets
  <1> QED
    BY <1>2, <1>3

-----------------------------------------------------------------------------
(* What the tables and the history hold, apart from the processes.         *)
TablesTyped ==
  /\ submissions \in [Challenge -> [Flag -> RowStatuses]]
  /\ armed \subseteq {"contest_armed", "allow_live_submit"}
  /\ posts \in [Challenge -> [Flag -> 0..2]]
  /\ credited \subseteq Challenge /\ contended \subseteq Challenge
  /\ orphaned \subseteq Challenge /\ unanswered \subseteq Challenge \X Flag

ProcessesTyped ==
  /\ pc \in [Process -> Labels]
  /\ job \in [Process -> Challenge \cup {NoJob}]
  /\ mem \in [Process -> Locals]

(* Typing of the processes and typing of the tables are proved apart.      *)
LEMMA TypesSplit == (Types <=> TablesTyped /\ ProcessesTyped)
  BY DEF Types, TablesTyped, ProcessesTyped

(* Control state, challenges and locals stay well-typed.                   *)
LEMMA ProcessTypesKept ==
  ASSUME Types, Working, [Next]_vars
  PROVE  ProcessesTyped' /\ Working'
  <1> DEFINE Kept == ProcessesTyped' /\ Working'
  <1>1. ASSUME NEW p \in Process, NEW l, NEW m, Moves(p, l, m) PROVE Kept
    BY <1>1, MovesWorking DEF ProcessesTyped
  <1>2. ASSUME NEW p \in Process, Exits(p) PROVE Kept
    BY <1>2, ExitsWorking DEF ProcessesTyped
  <1>3. ASSUME UNCHANGED <<pc, job, mem>> PROVE Kept
    BY <1>3 DEF Types, ProcessesTyped, Working, AtRest
  <1>4. ASSUME NEW w \in Worker, WorkerStep(w) \/ Fail(w) PROVE Kept
    <2>1. w \in Process
      BY DEF Process
    <2>2. ASSUME ClaimChallenge(w) PROVE Kept
      <3>1. PICK c \in Challenge : pc[w] = "idle" /\ Goto(w, "claimed") /\ job' = [job EXCEPT ![w] = c]
        BY <2>2 DEF ClaimChallenge
      <3>2. PICK k \in TargetKinds : Sets(w, [mem[w] EXCEPT !.kind = k])
        BY <2>2, ClaimSets
      <3>3. /\ mem' \in [Process -> Locals]
            /\ \A q \in Process : q # w => mem'[q] = mem[q]
        BY <2>1, <3>2, SetsLocals
      <3>4. /\ pc' \in [Process -> Labels] /\ pc'[w] = "claimed"
            /\ job' \in [Process -> Challenge \cup {NoJob}] /\ job'[w] = c
            /\ \A q \in Process : q # w => pc'[q] = pc[q] /\ job'[q] = job[q]
        BY <2>1, <3>1 DEF Types, Goto, Labels
      <3>5. Working'
        BY <3>3, <3>4 DEF Working, AtRest, Posting, NoJob
      <3> QED
        BY <3>3, <3>4, <3>5 DEF ProcessesTyped
    <2>3. ASSUME ClaimNothing(w) PROVE Kept
      <3>1. /\ pc' \in [Process -> Labels] /\ UNCHANGED <<job, mem>>
            /\ AtRest(w) /\ pc'[w] \in {"idle", "down"}
            /\ \A q \in Process : q # w => pc'[q] = pc[q]
        BY <2>1, <2>3 DEF ClaimNothing, Types, Goto, Labels, AtRest
      <3>2. Working'
        BY <3>1 DEF Working, AtRest, Posting
      <3> QED
        BY <3>1, <3>2 DEF ProcessesTyped, Types
    <2>4. ASSUME ReadFlags(w) \/ StartSolving(w) \/ SolverDone(w) \/ ParkSolved(w) PROVE Kept
      BY <2>1, <2>4, <1>1, WorkerMoves
    <2>5. ASSUME SubmitStep(w) PROVE Kept
      BY <2>1, <2>5, <1>1, SubmitMoves DEF SubmitStep
    <2>6. ASSUME BlockByMode(w) \/ Park(w) \/ PostsolveDone(w) \/ Fail(w) PROVE Kept
      BY <2>1, <2>6, <1>2, LeaveExits DEF BlockByMode, Park, PostsolveDone, Fail
    <2> QED
      BY <1>4, <2>2, <2>3, <2>4, <2>5, <2>6 DEF WorkerStep
  <1>5. ASSUME NEW o \in Operator, OperatorStep(o) PROVE Kept
    <2>1. o \in Process
      BY DEF Process
    <2>2. ASSUME SubmitFlag(o) PROVE Kept
      <3>1. PICK c \in Challenge : pc[o] = "off" /\ Goto(o, "listing") /\ job' = [job EXCEPT ![o] = c]
        BY <2>2 DEF SubmitFlag
      <3>2. PICK f \in Flag : Sets(o, [mem[o] EXCEPT !.todo = {f}, !.kind = PlatformKind])
        BY <2>2, SubmitSets
      <3>3. /\ mem' \in [Process -> Locals]
            /\ \A q \in Process : q # o => mem'[q] = mem[q]
        BY <2>1, <3>2, SetsLocals
      <3>4. /\ pc' \in [Process -> Labels] /\ pc'[o] = "listing"
            /\ job' \in [Process -> Challenge \cup {NoJob}] /\ job'[o] = c
            /\ \A q \in Process : q # o => pc'[q] = pc[q] /\ job'[q] = job[q]
        BY <2>1, <3>1 DEF Types, Goto, Labels
      <3>5. Working'
        BY <3>3, <3>4 DEF Working, AtRest, Posting, NoJob
      <3> QED
        BY <3>3, <3>4, <3>5 DEF ProcessesTyped
    <2>3. ASSUME SubmitStep(o) PROVE Kept
      BY <2>1, <2>3, <1>1, SubmitMoves DEF SubmitStep
    <2>4. ASSUME CheckPermission(o) \/ SubmitAccepted(o) PROVE Kept
      BY <2>1, <2>4, <1>1, OperatorMoves
    <2>5. ASSUME RecordAccepted(o) \/ SubmitEnds(o) PROVE Kept
      BY <2>1, <2>5, <1>2, LeaveExits DEF RecordAccepted, SubmitEnds
    <2> QED
      BY <1>5, <2>2, <2>3, <2>4, <2>5 DEF OperatorStep
  <1>6. ASSUME NEW p \in Process, Crash(p) PROVE Kept
    BY <1>6, <1>2, CrashExits
  <1>7. ASSUME NEW w \in Worker, Restart(w) PROVE Kept
    <2>1. w \in Process
      BY DEF Process
    <2>2. /\ pc' \in [Process -> Labels] /\ UNCHANGED <<job, mem>>
          /\ AtRest(w) /\ pc'[w] = "idle"
          /\ \A q \in Process : q # w => pc'[q] = pc[q]
      BY <1>7, <2>1 DEF Restart, Types, Goto, Labels, AtRest
    <2>3. Working'
      BY <2>2 DEF Working, AtRest, Posting
    <2> QED
      BY <2>2, <2>3 DEF ProcessesTyped, Types
  <1>8. ASSUME Sync \/ Arm \/ Disarm PROVE Kept
    BY <1>8, <1>3 DEF Sync, Arm, Disarm, Disturb
  <1>9. ASSUME NEW c \in Challenge, LeaseExpires(c) \/ Ingest(c)
               \/ (\E p \in Priority : QueueAdd(c, p))
               \/ (\E w \in Worker, s \in Q!Statuses : QueueRelease(w, c, s))
        PROVE  Kept
    BY <1>9, <1>3 DEF LeaseExpires, Ingest, QueueAdd, QueueRelease, Disturb
  <1>10. ASSUME UNCHANGED vars PROVE Kept
    BY <1>10, <1>3 DEF vars
  <1> QED
    BY <1>4, <1>5, <1>6, <1>7, <1>8, <1>9, <1>10 DEF Next, Environment

(* The ledger, the contest flags and the history stay well-typed.          *)
LEMMA TableTypesKept ==
  ASSUME Types, Working, [Next]_vars
  PROVE  TablesTyped'
  <1> DEFINE Rows == submissions' \in [Challenge -> [Flag -> RowStatuses]]
             Ghosts == /\ posts' \in [Challenge -> [Flag -> 0..2]]
                       /\ credited' \subseteq Challenge /\ contended' \subseteq Challenge
                       /\ orphaned' \subseteq Challenge
                       /\ unanswered' \subseteq Challenge \X Flag
  <1>1. ASSUME UNCHANGED submissions PROVE Rows
    BY <1>1 DEF Types
  <1>2. ASSUME UNCHANGED ghosts PROVE Ghosts
    BY <1>2 DEF Types, ghosts
  <1>3. ASSUME UNCHANGED <<posts, credited, unanswered>>, orphaned' \subseteq orphaned,
               contended' \subseteq Challenge
        PROVE  Ghosts
    BY <1>3 DEF Types
  <1>4. ASSUME NEW p \in Process, ~AtRest(p) PROVE PostLost(p) \subseteq Challenge \X Flag
    <2>1. job[p] \in Challenge /\ (pc[p] \in Posting => mem[p].sent \in Flag)
      BY <1>4, AtWork DEF Types, Working, Locals
    <2> QED
      BY <2>1 DEF PostLost, Types, Posting
  <1>5. ASSUME NEW p \in Process, SubmitStep(p) PROVE TablesTyped'
    <2>1. ASSUME PostFlag(p) PROVE TablesTyped'
      <3>1. PICK f \in mem[p].todo : \E r \in Replies(job[p], f) :
              /\ credited' = IF r = "accepted" THEN credited \cup {job[p]} ELSE credited
              /\ unanswered' = IF r = "unknown" THEN unanswered \cup {<<job[p], f>>}
                               ELSE unanswered
              /\ posts' = [posts EXCEPT ![job[p]][f] = IF @ < 2 THEN @ + 1 ELSE 2]
        BY <2>1, PostSets
      <3>2. job[p] \in Challenge /\ f \in Flag
        BY <2>1, AtWork DEF PostFlag, AtRest, Types, Locals
      <3>3. posts' \in [Challenge -> [Flag -> 0..2]]
        <4>1. posts \in [Challenge -> [Flag -> 0..2]]
          BY DEF Types
        <4> DEFINE n == IF posts[job[p]][f] < 2 THEN posts[job[p]][f] + 1 ELSE 2
        <4>2. n \in 0..2
          BY <3>2, <4>1
        <4>3. posts' = [posts EXCEPT ![job[p]][f] = n]
          BY <3>1
        <4> HIDE DEF n
        <4> QED
          BY <3>2, <4>1, <4>2, <4>3
      <3>4. credited' \subseteq Challenge /\ unanswered' \subseteq Challenge \X Flag
        BY <3>1, <3>2 DEF Types
      <3> QED
        BY <2>1, <3>3, <3>4 DEF PostFlag, Types, TablesTyped
    <2>2. ASSUME Record(p) PROVE TablesTyped'
      <3>1. job[p] \in Challenge /\ mem[p].sent \in Flag /\ mem[p].reply \in RowStatuses
        BY <2>2, AtWork DEF Record, AtRest, Types, Working, Locals, Posting
      <3>2. Rows
        BY <2>2, <3>1 DEF Record, Types
      <3> QED
        BY <2>2, <3>2, <1>2 DEF Record, Types, TablesTyped
    <2>3. ASSUME ~PostFlag(p), ~Record(p) PROVE UNCHANGED <<submissions, armed, ghosts>>
      BY <1>5, <2>3 DEF SubmitStep, ListSubmissions, ReadState, PlanFlag, RecordReply
    <2> QED
      BY <2>1, <2>2, <2>3, <1>1, <1>2 DEF TablesTyped, Types
  <1>6. ASSUME NEW w \in Worker, WorkerStep(w) PROVE TablesTyped'
    <2>1. w \in Process
      BY DEF Process
    <2>2. ASSUME ClaimChallenge(w) PROVE TablesTyped'
      <3>1. contended' \subseteq Challenge
        BY <2>2 DEF ClaimChallenge, Usurped, Q!StaleClaims, Types
      <3>2. orphaned' \subseteq orphaned /\ UNCHANGED <<submissions, armed, posts, credited, unanswered>>
        BY <2>2 DEF ClaimChallenge
      <3> QED
        BY <3>1, <3>2, <1>1, <1>3 DEF Types, TablesTyped
    <2>3. ASSUME ~ClaimChallenge(w), ~SubmitStep(w)
          PROVE  UNCHANGED <<submissions, armed, ghosts>>
      BY <1>6, <2>3 DEF WorkerStep, ClaimNothing, ReadFlags, BlockByMode, StartSolving,
         SolverDone, Park, ParkSolved, PostsolveDone
    <2> QED
      BY <2>1, <2>2, <2>3, <1>1, <1>2, <1>5 DEF TablesTyped, Types
  <1>7. ASSUME NEW o \in Operator, OperatorStep(o) PROVE TablesTyped'
    <2>1. o \in Process
      BY DEF Process
    <2>2. ASSUME SubmitFlag(o) PROVE TablesTyped'
      BY <2>2, <1>1, <1>3 DEF SubmitFlag, Types, TablesTyped
    <2>3. ASSUME RecordAccepted(o) PROVE TablesTyped'
      <3>1. PICK e \in mem[o].previous : submissions' = [submissions EXCEPT ![job[o]][e.flag] = "accepted"]
        BY <2>3 DEF RecordAccepted
      <3>2. job[o] \in Challenge /\ e.flag \in Flag
        <4>1. job[o] \in Challenge
          BY <2>1, <2>3, AtWork DEF RecordAccepted, AtRest
        <4>2. mem[o].previous \subseteq Entries
          BY <2>1 DEF Types, Locals
        <4> QED
          BY <4>1, <4>2 DEF Entries
      <3>3. "accepted" \in RowStatuses
        BY DEF RowStatuses, Terminal
      <3>4. Rows
        BY <3>1, <3>2, <3>3 DEF Types
      <3> QED
        BY <2>3, <3>4, <1>2 DEF RecordAccepted, Types, TablesTyped
    <2>4. ASSUME CheckPermission(o) \/ SubmitAccepted(o) \/ SubmitEnds(o)
          PROVE  UNCHANGED <<submissions, armed, ghosts>>
      BY <2>4 DEF CheckPermission, SubmitAccepted, SubmitEnds
    <2> QED
      BY <1>7, <2>1, <2>2, <2>3, <2>4, <1>1, <1>2, <1>5 DEF OperatorStep, TablesTyped, Types
  <1>8. ASSUME NEW p \in Process, Crash(p) PROVE TablesTyped'
    <2>1. unanswered' \subseteq Challenge \X Flag
      BY <1>8, <1>4 DEF Crash
    <2>2. orphaned' \subseteq Challenge
      BY <1>8, AtWork DEF Crash, Types
    <2> QED
      BY <1>8, <2>1, <2>2, <1>1 DEF Crash, Types, TablesTyped
  <1>9. ASSUME NEW w \in Worker, Fail(w) PROVE TablesTyped'
    <2>1. unanswered' \subseteq Challenge \X Flag
      BY <1>9, <1>4 DEF Fail, Failing, AtRest, Process
    <2> QED
      BY <1>9, <2>1, <1>1 DEF Fail, Types, TablesTyped
  <1>10. ASSUME (\E w \in Worker : Restart(w)) \/ Sync \/ Arm \/ Disarm PROVE TablesTyped'
    BY <1>10, <1>1, <1>2 DEF Restart, Sync, Arm, Disarm, Types, TablesTyped
  <1>11. ASSUME NEW c \in Challenge, LeaseExpires(c) \/ Ingest(c)
               \/ (\E p \in Priority : QueueAdd(c, p))
               \/ (\E w \in Worker, s \in Q!Statuses : QueueRelease(w, c, s))
        PROVE  TablesTyped'
    <2>1. /\ contended' \subseteq Challenge
          /\ UNCHANGED <<submissions, armed, posts, credited, unanswered, orphaned>>
      BY <1>11 DEF LeaseExpires, Ingest, QueueAdd, QueueRelease, Disturb, ghosts, Types
    <2> QED
      BY <2>1, <1>1, <1>3 DEF Types, TablesTyped
  <1>12. ASSUME UNCHANGED vars PROVE TablesTyped'
    BY <1>12, <1>1, <1>2 DEF vars, Types, TablesTyped
  <1> QED
    BY <1>6, <1>7, <1>8, <1>9, <1>10, <1>11, <1>12 DEF Next, Environment

(* Every step of the loop is a step of the queue or leaves its tables      *)
(* alone.                                                                  *)
LEMMA QueueStep ==
  ASSUME Types, Working, [Next]_vars
  PROVE  [Q!Next]_queueVars
  <1>0. Q!MaybeWorker = Worker \cup {NoWorker} /\ {"blocked_by_mode", "solving", "error", "stalled", "submit_planned"} \subseteq Q!Statuses
    BY DEF Q!MaybeWorker, Q!Statuses, Q!Leased, Q!Parked
  <1>1. ASSUME NEW w \in Worker, WorkerStep(w) \/ Fail(w) PROVE [Q!Next]_queueVars
    <2>0. w \in Process
      BY DEF Process
    <2>1. ASSUME ClaimChallenge(w) \/ ClaimNothing(w) PROVE Q!Next
      BY <2>1 DEF ClaimChallenge, ClaimNothing, Q!Next
    <2>2. ASSUME ~AtRest(w), NEW s \in Q!Statuses,
                 Q!SetStatus(w, job[w], s) \/ Q!MarkSolved(w, job[w]) \/ Q!HeartbeatClaim(w, job[w])
          PROVE  Q!Next
      BY <1>0, <2>0, <2>2, AtWork DEF Q!Next
    <2>3. ASSUME BlockByMode(w) \/ StartSolving(w) \/ Park(w) \/ Fail(w) PROVE Q!Next
      <3>1. ~AtRest(w)
        BY <2>3 DEF BlockByMode, StartSolving, Park, Fail, Planned, AtRest, Failing
      <3>2. \E s \in Q!Statuses : Q!SetStatus(w, job[w], s)
        <4>1. mem[w].outcome \in {"stalled", "submit_planned", "solved"}
          BY <2>0 DEF Types, Locals
        <4> QED
          BY <1>0, <2>3, <4>1 DEF BlockByMode, StartSolving, Park, Fail
      <3> QED
        BY <3>1, <3>2, <2>2
    <2>4. ASSUME SolverDone(w) \/ ParkSolved(w) PROVE Q!Next
      <3>1. ~AtRest(w)
        BY <2>4 DEF SolverDone, ParkSolved, Planned, AtRest
      <3> QED
        BY <1>0, <2>2, <2>4, <3>1 DEF SolverDone, ParkSolved
    <2>5. ASSUME ReadFlags(w) \/ SubmitStep(w) \/ PostsolveDone(w) PROVE UNCHANGED queueVars
      BY <2>5 DEF ReadFlags, SubmitStep, PostsolveDone, ListSubmissions, ReadState, PlanFlag, PostFlag,
                  RecordReply, Record
    <2> QED
      BY <1>1, <2>1, <2>3, <2>4, <2>5 DEF WorkerStep
  <1>2. ASSUME NEW o \in Operator, OperatorStep(o) PROVE [Q!Next]_queueVars
    <2>1. ASSUME SubmitAccepted(o) PROVE Q!Next
      <3>1. job[o] \in Challenge
        BY <2>1, AtWork DEF SubmitAccepted, Planned, AtRest, Process
      <3> QED
        BY <1>0, <2>1, <3>1 DEF SubmitAccepted, Q!Next
    <2>2. ASSUME ~SubmitAccepted(o) PROVE UNCHANGED queueVars
      BY <1>2, <2>2 DEF OperatorStep, SubmitFlag, SubmitStep, CheckPermission, RecordAccepted, SubmitEnds,
                  ListSubmissions, ReadState, PlanFlag, PostFlag, RecordReply, Record
    <2> QED
      BY <2>1, <2>2
  <1>3. ASSUME NEW p \in Process, Crash(p) PROVE UNCHANGED queueVars
    BY <1>3 DEF Crash
  <1>4. ASSUME NEW w \in Worker, Restart(w) PROVE UNCHANGED queueVars
    BY <1>4 DEF Restart
  <1>5. ASSUME Sync \/ Arm \/ Disarm PROVE [Q!Next]_queueVars
    BY <1>5 DEF Sync, Arm, Disarm, Q!Next
  <1>6. ASSUME NEW c \in Challenge, LeaseExpires(c) \/ Ingest(c)
               \/ (\E p \in Priority : QueueAdd(c, p))
               \/ (\E w \in Worker, s \in Q!Statuses : QueueRelease(w, c, s))
        PROVE  Q!Next
    BY <1>6 DEF LeaseExpires, Ingest, QueueAdd, QueueRelease, Q!Next
  <1>7. ASSUME UNCHANGED vars PROVE UNCHANGED queueVars
    BY <1>7 DEF vars
  <1> QED
    BY <1>1, <1>2, <1>3, <1>4, <1>5, <1>6, <1>7 DEF Next, Environment

-----------------------------------------------------------------------------
(* The loop's steps are steps of the queue's interface, so that what       *)
(* WorkQueueProofs proves of the queue under any caller holds under these. *)
LEMMA QueueAssumption == QP!WorkQueueAssumption
  BY DEF QP!WorkQueueAssumption

(* What WorkQueueProofs says of its tables it says of the loop's.          *)
LEMMA SameQueueInv == (QueueInv <=> QP!IInv)
  BY DEF QueueInv, QP!IInv, QP!ExpiredIsClaimed, Q!TypeOK, QP!TypeOK, Q!ClaimConsistent,
         QP!ClaimConsistent, Q!Statuses, QP!Statuses, Q!Known, QP!Known, Q!MaybeWorker,
         QP!MaybeWorker, Q!Claimable, QP!Claimable, Q!Leased, QP!Leased, Q!Parked, QP!Parked,
         Q!Claimed, QP!Claimed

(* The reclaim is the same in both ...                                     *)
LEMMA SameReclaim ==
  /\ Q!StaleClaims = QP!StaleClaims /\ Q!FreeToClaim = QP!FreeToClaim
  /\ Q!StatusReclaimed = QP!StatusReclaimed /\ Q!OwnerReclaimed = QP!OwnerReclaimed
  /\ Q!WorkerReclaimed = QP!WorkerReclaimed
  /\ \A f, S, v : Q!Reset(f, S, v) = QP!Reset(f, S, v)
  BY DEF Q!FreeToClaim, QP!FreeToClaim, Q!StatusReclaimed, QP!StatusReclaimed,
         Q!StaleClaims, QP!StaleClaims, Q!Reset, QP!Reset, Q!Claimed, QP!Claimed,
         Q!Leased, QP!Leased, Q!OwnerReclaimed, QP!OwnerReclaimed,
         Q!WorkerReclaimed, QP!WorkerReclaimed, Q!Claimable, QP!Claimable

(* ... and so is every step.                                               *)
LEMMA SameQueueNext == (Q!Next <=> QP!Next)
  <1>0. Q!Statuses = QP!Statuses /\ Q!MaybeWorker = QP!MaybeWorker /\ Q!Leased = QP!Leased
        /\ Q!KeptBySync = QP!KeptBySync
    BY DEF Q!Statuses, QP!Statuses, Q!Claimable, QP!Claimable, Q!Leased, QP!Leased, Q!Parked,
           QP!Parked, Q!MaybeWorker, QP!MaybeWorker, Q!KeptBySync, QP!KeptBySync
  <1>1. \A c : (Q!Known(c) <=> QP!Known(c)) /\ (Q!Claimed(c) <=> QP!Claimed(c))
    BY DEF Q!Known, QP!Known, Q!Claimed, QP!Claimed
  <1>2. \A w, s : Q!SetWorker(w, s) <=> QP!SetWorker(w, s)
    BY DEF Q!SetWorker, QP!SetWorker
  <1>3. \A c, s : /\ Q!SetRow(c, s) <=> QP!SetRow(c, s)
                  /\ Q!ArchiveClaims(c) <=> QP!ArchiveClaims(c)
    BY DEF Q!SetRow, QP!SetRow, Q!ArchiveClaims, QP!ArchiveClaims, Q!Known, QP!Known
  <1>4. \A w : /\ Q!RegisterWorker(w) <=> QP!RegisterWorker(w)
               /\ Q!ClaimNone(w) <=> QP!ClaimNone(w)
    BY SameReclaim DEF Q!RegisterWorker, QP!RegisterWorker, Q!ClaimNone, QP!ClaimNone
  <1>5. \A c, p : /\ Q!AddManual(c, p) <=> QP!AddManual(c, p)
                  /\ Q!Ingested(c) <=> QP!Ingested(c)
                  /\ Q!Expire(c) <=> QP!Expire(c)
    BY DEF Q!AddManual, QP!AddManual, Q!Ingested, QP!Ingested, Q!Expire, QP!Expire, Q!Known,
           QP!Known, Q!Claimed, QP!Claimed
  <1>6. \A S : Q!UpsertPlatform(S) <=> QP!UpsertPlatform(S)
    BY DEF Q!UpsertPlatform, QP!UpsertPlatform, Q!SyncStatus, QP!SyncStatus, Q!SyncSource,
           QP!SyncSource, Q!KeptBySync, QP!KeptBySync, Q!Known, QP!Known
  <1>7. Q!ReclaimStale <=> QP!ReclaimStale
    BY SameReclaim DEF Q!ReclaimStale, QP!ReclaimStale
  <1>8. \A w, c : Q!ClaimNext(w, c) <=> QP!ClaimNext(w, c)
    BY SameReclaim DEF Q!ClaimNext, QP!ClaimNext
  <1>9. \A w, c : Q!HeartbeatClaim(w, c) <=> QP!HeartbeatClaim(w, c)
    BY DEF Q!HeartbeatClaim, QP!HeartbeatClaim
  <1>10. \A w, c, s : Q!SetStatus(w, c, s) <=> QP!SetStatus(w, c, s)
    BY <1>0, <1>2, <1>3 DEF Q!SetStatus, QP!SetStatus
  <1>11. \A w, c, s : /\ Q!ReleaseClaim(w, c, s) <=> QP!ReleaseClaim(w, c, s)
                      /\ Q!MarkSolved(w, c) <=> QP!MarkSolved(w, c)
    BY <1>2, <1>3 DEF Q!ReleaseClaim, QP!ReleaseClaim, Q!MarkSolved, QP!MarkSolved
  <1> QED
    BY <1>0, <1>4, <1>5, <1>6, <1>7, <1>8, <1>9, <1>10, <1>11 DEF Q!Next, QP!Next

(* The queue's invariant is kept by the loop, by the queue's own proof.    *)
LEMMA QueueInvKept ==
  ASSUME Types, Working, QueueInv, [Next]_vars
  PROVE  QueueInv'
  <1>1. QP!queueVars = queueVars
    BY DEF QP!queueVars, queueVars
  <1>2. QP!IInv /\ [QP!Next]_(QP!queueVars)
    BY <1>1, QueueStep, SameQueueNext, SameQueueInv DEF queueVars, QP!queueVars
  <1>3. QP!IInv'
    BY <1>2, QueueAssumption, QP!StepKeepsInv
  <1>4. (QueueInv <=> QP!IInv)'
    BY SameQueueInv, PTL
  <1> QED
    BY <1>3, <1>4

-----------------------------------------------------------------------------
(* What every further invariant rests on.                                  *)
Base == Types /\ Working /\ QueueInv

(* It is inductive by itself.                                              *)
LEMMA BaseKept ==
  ASSUME Base, [Next]_vars
  PROVE  Base'
  BY QueueInvKept, ProcessTypesKept, TableTypesKept, TypesSplit, PTL DEF Base

(* A claim has a worker and its challenge a row; a worker is no operator.  *)
LEMMA Owners ==
  ASSUME Base
  PROVE  /\ \A c \in Challenge : owner[c] \in Worker \cup {NoWorker}
         /\ \A c \in Challenge : Q!Claimed(c) => owner[c] \in Worker /\ Q!Known(c) /\ status[c] # "solved"
         /\ \A w \in Worker : w \in Process /\ w \notin Operator /\ w # NoWorker
         /\ \A p \in Process : job[p] \in Challenge \cup {NoJob}
         /\ \A p \in Process : AtRest(p) <=> job[p] = NoJob
         /\ NoJob \notin Challenge
  BY DEF Base, QueueInv, Q!TypeOK, Q!MaybeWorker, Q!Claimed, Q!ClaimConsistent, Q!Known, Q!Leased,
         Process, Types, Working, NoJob

(* What is left of the claims when nobody's challenge, claim or status     *)
(* changes but that of a challenge no worker is done with.                 *)
LEMMA ClaimsStill ==
  ASSUME Base, Claims, UNCHANGED <<owner, job, orphaned>>, contended \subseteq contended',
         \A w \in Worker : pc'[w] = "postsolve" <=> pc[w] = "postsolve",
         \A c \in Challenge : status'[c] = status[c]
                               \/ (status[c] # "solved" /\ status'[c] \notin Q!Leased)
  PROVE  Claims'
  <1>1. Apart'
    BY DEF Claims, Apart
  <1>2. Held' /\ LetGo'
    BY Owners DEF Claims, Held, LetGo, Holds, Shut, Q!Claimed
  <1>3. NoLeakedClaim'
    BY DEF Claims, NoLeakedClaim, Q!Claimed
  <1>4. LeasedIsClaimed'
    BY DEF Claims, LeasedIsClaimed, Q!Claimed, Q!Leased
  <1> QED
    BY <1>1, <1>2, <1>3, <1>4 DEF Claims

(* An operator's process comes or goes; the queue is left alone.           *)
LEMMA ClaimsBesideOperator ==
  ASSUME Base, Claims, UNCHANGED <<owner, status>>,
         contended \subseteq contended', orphaned \subseteq orphaned',
         \A w \in Worker : pc'[w] = pc[w] /\ job'[w] = job[w], Apart'
  PROVE  Claims'
  <1>2. Held' /\ LetGo'
    BY Owners DEF Claims, Held, LetGo, Holds, Shut, Q!Claimed
  <1>3. NoLeakedClaim'
    BY Owners DEF Claims, NoLeakedClaim, Q!Claimed
  <1>4. LeasedIsClaimed'
    BY DEF Claims, LeasedIsClaimed, Q!Claimed, Q!Leased
  <1> QED
    BY <1>2, <1>3, <1>4 DEF Claims

(* A worker leaves its challenge with the claim and the status archived,   *)
(* or after the claim was given back.                                      *)
LEMMA ClaimsLeft ==
  ASSUME Base, Claims, NEW w \in Worker, ~AtRest(w), Exits(w), UNCHANGED <<contended, orphaned>>,
         \A c \in Challenge : c # job[w] => owner'[c] = owner[c] /\ status'[c] = status[c],
         \/ UNCHANGED <<owner, status>> /\ pc[w] = "postsolve"
         \/ owner'[job[w]] = NoWorker /\ status'[job[w]] \notin Q!Leased
  PROVE  Claims'
  <1>1. /\ w \in Process /\ job[w] \in Challenge /\ job'[w] = NoJob
        /\ pc'[w] # "postsolve"
        /\ \A q \in Process : q # w => pc'[q] = pc[q] /\ job'[q] = job[q]
    BY ExitsWorking, AtWork DEF Process, Base
  <1>2. Apart'
    BY <1>1 DEF Claims, Apart
  <1>3. Held'
    <2> SUFFICES ASSUME NEW v \in Worker, job'[v] # NoJob, job'[v] \notin contended
                 PROVE  (IF pc[v] = "postsolve" THEN Shut(v) ELSE Holds(v))'
      BY DEF Held
    <2>1. v # w /\ job'[v] = job[v] /\ pc'[v] = pc[v] /\ job[v] \in Challenge
      BY <1>1, Owners
    <2>2. job[v] # job[w]
      BY <2>1, <1>1, Owners DEF Claims, Apart
    <2> QED
      BY <2>1, <2>2 DEF Claims, Held, Holds, Shut, Q!Claimed
  <1>4. LetGo'
    <2> SUFFICES ASSUME NEW v \in Worker, pc'[v] = "postsolve" PROVE ~Holds(v)'
      BY DEF LetGo
    <2>1. v # w /\ job'[v] = job[v] /\ pc'[v] = pc[v] /\ job[v] \in Challenge
      BY <1>1, Owners DEF AtRest
    <2> QED
      BY <2>1, Owners DEF Claims, LetGo, Holds
  <1>5. NoLeakedClaim'
    <2> SUFFICES ASSUME NEW c \in Challenge, owner'[c] # NoWorker
                 PROVE  job'[owner'[c]] = c \/ c \in orphaned'
      BY DEF NoLeakedClaim, Q!Claimed
    <2>1. owner'[c] = owner[c] /\ owner[c] \in Worker
      BY Owners
    <2>2. CASE owner[c] = w
      <3>1. job[w] # c
        BY <2>1, <2>2 DEF Claims, LetGo, Holds
      <3> QED
        BY <2>1, <2>2, <3>1 DEF Claims, NoLeakedClaim, Q!Claimed
    <2>3. CASE owner[c] # w
      BY <1>1, <2>1, <2>3, Owners DEF Claims, NoLeakedClaim, Q!Claimed
    <2> QED
      BY <2>2, <2>3
  <1>6. LeasedIsClaimed'
    BY <1>1 DEF Claims, LeasedIsClaimed, Q!Claimed, Q!Leased
  <1> QED
    BY <1>2, <1>3, <1>4, <1>5, <1>6 DEF Claims

(* A row's claim is archived under the workers that are on its challenge:  *)
(* they contend, or are done with it, or it is its solver that is done.    *)
LEMMA ClaimsArchived ==
  ASSUME Base, Claims, UNCHANGED <<job, orphaned>>, contended \subseteq contended',
         NEW c \in Challenge, owner'[c] = NoWorker, status'[c] \notin Q!Leased,
         \A d \in Challenge : d # c => owner'[d] = owner[d] /\ status'[d] = status[d],
         \A v \in Worker : job[v] # c => pc'[v] = pc[v],
         \A v \in Worker : job[v] = c /\ c \notin contended'
                            => pc'[v] = "postsolve" /\ status'[c] = "solved"
  PROVE  Claims'
  <1>1. Apart'
    BY DEF Claims, Apart
  <1>2. Held'
    <2> SUFFICES ASSUME NEW v \in Worker, job[v] # NoJob, job[v] \notin contended'
                 PROVE  (IF pc[v] = "postsolve" THEN Shut(v) ELSE Holds(v))'
      BY DEF Held
    <2> QED
      BY Owners DEF Claims, Held, Holds, Shut, Q!Claimed
  <1>3. LetGo'
    <2> SUFFICES ASSUME NEW v \in Worker, pc'[v] = "postsolve" PROVE owner'[job[v]] # v
      BY DEF LetGo, Holds
    <2>1. CASE job[v] = c
      BY <2>1, Owners
    <2>2. CASE job[v] # c
      <3>1. pc[v] = "postsolve" /\ job[v] \in Challenge
        BY <2>2, Owners DEF AtRest
      <3> QED
        BY <2>2, <3>1 DEF Claims, LetGo, Holds
    <2> QED
      BY <2>1, <2>2
  <1>4. NoLeakedClaim'
    BY DEF Claims, NoLeakedClaim, Q!Claimed
  <1>5. LeasedIsClaimed'
    BY DEF Claims, LeasedIsClaimed, Q!Claimed, Q!Leased
  <1> QED
    BY <1>1, <1>2, <1>3, <1>4, <1>5 DEF Claims

(* A worker starts on the challenge it has: unless it lost the claim to a  *)
(* contender, the status it writes has its own claim beside it.            *)
LEMMA ClaimsStarted ==
  ASSUME Base, Claims, NEW w \in Worker, StartSolving(w)
  PROVE  Claims'
  <1>1. w \in Process /\ job[w] \in Challenge /\ job[w] # NoJob /\ pc[w] = "guard"
    BY AtWork, Owners DEF StartSolving, AtRest, Base
  <1>2. /\ UNCHANGED <<owner, job, contended, orphaned>>
        /\ \A v \in Worker : pc'[v] = "postsolve" <=> pc[v] = "postsolve"
    <2>1. UNCHANGED <<owner, job, contended, orphaned>>
      BY Owners DEF StartSolving, Q!SetStatus, Q!Leased, ghosts
    <2> QED
      BY <1>1, <2>1 DEF StartSolving, Goto, Base, Types
  <1>3. \A c \in Challenge : c # job[w] => status'[c] = status[c]
    BY <1>1 DEF StartSolving, Q!SetStatus, Q!SetRow, Base, QueueInv, Q!TypeOK
  <1>4. Apart'
    BY <1>2 DEF Claims, Apart
  <1>5. Held'
    <2> SUFFICES ASSUME NEW v \in Worker, job[v] # NoJob, job[v] \notin contended
                 PROVE  (IF pc[v] = "postsolve" THEN Shut(v) ELSE Holds(v))'
      BY <1>2 DEF Held
    <2>1. v # w => job[v] # job[w]
      BY <1>1, Owners DEF Claims, Apart
    <2> QED
      BY <1>1, <1>2, <1>3, <2>1, Owners DEF Claims, Held, Holds, Shut, Q!Claimed
  <1>6. LetGo' /\ NoLeakedClaim'
    BY <1>2 DEF Claims, LetGo, Holds, NoLeakedClaim, Q!Claimed
  <1>7. LeasedIsClaimed'
    <2>1. job[w] \in contended \/ Q!Claimed(job[w])
      BY <1>1, Owners DEF Claims, Held, Holds, Q!Claimed
    <2> QED
      BY <1>2, <1>3, <2>1 DEF Claims, LeasedIsClaimed, Q!Claimed
  <1> QED
    BY <1>4, <1>5, <1>6, <1>7 DEF Claims

(* The reclaim inside a claim, as the workers see it.                      *)
LEMMA ClaimEffect ==
  ASSUME Base, NEW w \in Worker, NEW c \in Challenge, Q!ClaimNext(w, c)
  PROVE  /\ owner'[c] = w /\ status'[c] = "claimed"
         /\ \A d \in Challenge : d # c /\ d \in Q!StaleClaims
              => owner'[d] = NoWorker /\ status'[d] = "queued"
         /\ \A d \in Challenge : d # c /\ d \notin Q!StaleClaims
              => owner'[d] = owner[d] /\ status'[d] = status[d]
         /\ c \notin Q!StaleClaims => status[c] \in Q!Claimable /\ owner[c] = NoWorker
  <1>1. status \in [Challenge -> Q!Statuses \cup {"absent"}] /\ owner \in [Challenge -> Q!MaybeWorker]
    BY DEF Base, QueueInv, Q!TypeOK
  <1>2. \A d \in Challenge :
          /\ Q!StatusReclaimed[d] = IF d \in Q!StaleClaims THEN "queued" ELSE status[d]
          /\ Q!OwnerReclaimed[d] = IF d \in Q!StaleClaims THEN NoWorker ELSE owner[d]
    BY <1>1 DEF Q!StatusReclaimed, Q!OwnerReclaimed, Q!Reset
  <1>3. DOMAIN Q!StatusReclaimed = Challenge /\ DOMAIN Q!OwnerReclaimed = Challenge
    BY <1>1 DEF Q!StatusReclaimed, Q!OwnerReclaimed, Q!Reset
  <1>4. \A d \in Challenge :
          /\ status'[d] = IF d = c THEN "claimed" ELSE Q!StatusReclaimed[d]
          /\ owner'[d] = IF d = c THEN w ELSE Q!OwnerReclaimed[d]
    BY <1>3 DEF Q!ClaimNext, Q!StatusReclaimed, Q!OwnerReclaimed, Q!Reset
  <1> QED
    BY <1>2, <1>4 DEF Q!ClaimNext, Q!FreeToClaim

(* The claim itself: whoever is overtaken by it counts as contended.       *)
LEMMA ClaimsTaken ==
  ASSUME Base, Claims, NEW w \in Worker, ClaimChallenge(w)
  PROVE  Claims'
  <1>1. PICK c \in Challenge :
          /\ pc[w] = "idle" /\ Q!ClaimNext(w, c) /\ Goto(w, "claimed")
          /\ job' = [job EXCEPT ![w] = c]
          /\ orphaned' = orphaned \ {c}
          /\ contended' = contended \cup Usurped \cup {d \in {c} : \E o \in Operator : job[o] = d}
    BY DEF ClaimChallenge
  <1>2. /\ w \in Process /\ job[w] = NoJob /\ job'[w] = c /\ pc'[w] = "claimed"
        /\ \A q \in Process : q # w => pc'[q] = pc[q] /\ job'[q] = job[q]
    BY <1>1, Owners DEF Goto, Base, Types, AtRest
  <1>3. contended \subseteq contended' /\ Usurped \subseteq contended'
        /\ \A o \in Operator : job[o] = c => c \in contended'
    BY <1>1
  \* A worker that holds its claim keeps it, or was usurped.
  <1>4. ASSUME NEW v \in Worker, v # w, job[v] # NoJob, job[v] \notin contended'
        PROVE  /\ job[v] # c
               /\ IF pc[v] = "postsolve" THEN Shut(v)' ELSE Holds(v)'
    <2>1. job[v] \in Challenge /\ job[v] \notin contended /\ job'[v] = job[v]
      BY <1>2, <1>3, <1>4, Owners
    <2>2. CASE pc[v] = "postsolve"
      <3>1. Shut(v)
        BY <1>4, <2>1, <2>2 DEF Claims, Held
      <3>2. job[v] \notin Q!StaleClaims
        BY <3>1 DEF Shut, Q!StaleClaims
      <3>3. job[v] # c
        BY <1>1, <3>1, <3>2, ClaimEffect DEF Shut, Q!Claimable
      <3> QED
        BY <1>1, <2>1, <2>2, <3>1, <3>2, <3>3, ClaimEffect DEF Shut, Q!Claimed
    <2>3. CASE pc[v] # "postsolve"
      <3>1. owner[job[v]] = v
        BY <1>4, <2>1, <2>3 DEF Claims, Held, Holds
      <3>2. job[v] \notin Q!StaleClaims
        BY <1>3, <1>4, <3>1 DEF Usurped
      <3>3. job[v] # c
        BY <1>1, <3>1, <3>2, ClaimEffect, Owners
      <3> QED
        BY <1>1, <2>1, <2>3, <3>1, <3>2, <3>3, ClaimEffect DEF Holds
    <2> QED
      BY <2>2, <2>3
  <1>5. Apart'
    <2> SUFFICES ASSUME NEW p \in Process, NEW q \in Process, p # q, job'[p] = job'[q],
                        job'[p] # NoJob, job'[p] \notin contended'
                 PROVE  FALSE
      BY DEF Apart
    <2>1. CASE p # w /\ q # w
      BY <1>2, <1>3, <2>1 DEF Claims, Apart
    <2>2. ASSUME NEW v \in Process, v # w, job[v] = c, c \notin contended' PROVE FALSE
      <3>1. v \in Worker
        BY <1>3, <2>2 DEF Process
      <3> QED
        BY <1>4, <2>2, <3>1, Owners
    <2> QED
      BY <1>2, <2>1, <2>2
  <1>6. Held'
    <2> SUFFICES ASSUME NEW v \in Worker, job'[v] # NoJob, job'[v] \notin contended'
                 PROVE  (IF pc[v] = "postsolve" THEN Shut(v) ELSE Holds(v))'
      BY DEF Held
    <2>1. CASE v = w
      BY <1>1, <1>2, <2>1, ClaimEffect DEF Holds
    <2>2. CASE v # w
      BY <1>2, <1>4, <2>2, Owners
    <2> QED
      BY <2>1, <2>2
  <1>7. LetGo'
    <2> SUFFICES ASSUME NEW v \in Worker, pc'[v] = "postsolve" PROVE ~Holds(v)'
      BY DEF LetGo
    <2>1. v # w /\ pc[v] = "postsolve" /\ job'[v] = job[v] /\ job[v] \in Challenge
      BY <1>2, Owners DEF AtRest
    <2>2. owner[job[v]] # v
      BY <2>1 DEF Claims, LetGo, Holds
    <2> QED
      BY <1>1, <2>1, <2>2, ClaimEffect, Owners DEF Holds
  <1>8. NoLeakedClaim'
    <2> SUFFICES ASSUME NEW d \in Challenge, owner'[d] # NoWorker
                 PROVE  job'[owner'[d]] = d \/ d \in orphaned'
      BY DEF NoLeakedClaim, Q!Claimed
    <2>1. CASE d = c
      BY <1>1, <1>2, <2>1, ClaimEffect
    <2>2. CASE d # c
      <3>1. owner'[d] = owner[d] /\ owner[d] \in Worker
        BY <1>1, <2>2, ClaimEffect, Owners
      <3>2. job[owner[d]] = d \/ d \in orphaned
        BY <3>1, Owners DEF Claims, NoLeakedClaim, Q!Claimed
      <3> QED
        BY <1>1, <1>2, <2>2, <3>1, <3>2, Owners
    <2> QED
      BY <2>1, <2>2
  <1>9. LeasedIsClaimed'
    <2> SUFFICES ASSUME NEW d \in Challenge, status'[d] \in Q!Leased
                 PROVE  owner'[d] # NoWorker \/ d \in contended'
      BY DEF LeasedIsClaimed, Q!Claimed, Q!Leased
    <2>1. CASE d = c
      BY <1>1, <2>1, ClaimEffect, Owners
    <2>2. CASE d # c
      <3>1. owner'[d] = owner[d] /\ status'[d] = status[d]
        BY <1>1, <2>2, ClaimEffect DEF Q!Leased
      <3> QED
        BY <1>3, <3>1 DEF Claims, LeasedIsClaimed, Q!Claimed
    <2> QED
      BY <2>1, <2>2
  <1> QED
    BY <1>5, <1>6, <1>7, <1>8, <1>9 DEF Claims

(* What archiving a row leaves of it, by a worker or the operator.         *)
LEMMA ArchiveEffect ==
  ASSUME Base, NEW c \in Challenge, NEW s \in Q!Statuses \ Q!Leased,
         Q!SetRow(c, s), Q!ArchiveClaims(c)
  PROVE  /\ owner'[c] = NoWorker /\ status'[c] \notin Q!Leased
         /\ Q!Known(c) => status'[c] = s
         /\ \A d \in Challenge : d # c => owner'[d] = owner[d] /\ status'[d] = status[d]
  BY DEF Base, QueueInv, Q!TypeOK, Q!SetRow, Q!ArchiveClaims, Q!Known, Q!Leased

(* Every step keeps the five claim invariants together.                    *)
LEMMA ClaimsKept ==
  ASSUME Base, Claims, [Next]_vars
  PROVE  Claims'
  <1>1. ASSUME NEW p \in Process, NEW l, NEW m, Moves(p, l, m), l # "postsolve", pc[p] # "postsolve",
               UNCHANGED <<status, owner, contended, orphaned>>
        PROVE  Claims'
    <2>1. \A w \in Worker : pc'[w] = "postsolve" <=> pc[w] = "postsolve"
      BY <1>1 DEF Moves, Goto, Base, Types, Process
    <2> QED
      BY <1>1, <2>1, ClaimsStill DEF Moves
  <1>2. ASSUME NEW p \in Process, SubmitStep(p) PROVE Claims'
    <2>1. UNCHANGED <<status, owner, contended, orphaned>> /\ pc[p] # "postsolve"
      BY <1>2 DEF SubmitStep, ListSubmissions, ReadState, PlanFlag, PostFlag, RecordReply, Record,
                  queueVars, ghosts
    <2>2. \E l \in Labels \ {"postsolve"} : \E m : Moves(p, l, m)
      BY <1>2, SubmitMoves DEF SubmitStep, Labels, Base
    <2> QED
      BY <1>1, <2>1, <2>2
  <1>3. ASSUME NEW w \in Worker, WorkerStep(w) \/ Fail(w) PROVE Claims'
    <2>1. w \in Process /\ w # NoWorker
      BY Owners
    <2>2. ASSUME BlockByMode(w) \/ Park(w) \/ Fail(w) PROVE Claims'
      <3>1. ~AtRest(w)
        BY <2>2 DEF BlockByMode, Park, Fail, Planned, AtRest, Failing
      <3>2. job[w] \in Challenge /\ mem[w].outcome \in {"stalled", "submit_planned", "solved"}
        BY <2>1, <3>1, AtWork DEF Base, Types, Locals
      <3>3. \E s \in Q!Statuses \ Q!Leased : Q!SetStatus(w, job[w], s)
        BY <2>2, <3>2 DEF BlockByMode, Park, Fail, Q!Statuses, Q!Parked, Q!Leased
      <3>4. PICK s \in Q!Statuses \ Q!Leased : Q!SetRow(job[w], s) /\ Q!ArchiveClaims(job[w])
        BY <3>3 DEF Q!SetStatus
      <3>5. UNCHANGED <<contended, orphaned>> /\ Exits(w)
        BY <2>1, <2>2, LeaveExits DEF BlockByMode, Park, Fail, ghosts, Base
      <3> QED
        BY <3>1, <3>2, <3>4, <3>5, ArchiveEffect, ClaimsLeft
    <2>3. ASSUME PostsolveDone(w) PROVE Claims'
      <3>1. ~AtRest(w) /\ Exits(w) /\ UNCHANGED <<owner, status, contended, orphaned>>
            /\ pc[w] = "postsolve"
        BY <2>1, <2>3, LeaveExits DEF PostsolveDone, AtRest, queueVars, ghosts, Base
      <3> QED
        BY <3>1, ClaimsLeft
    <2>4. ASSUME ParkSolved(w) PROVE Claims'
      <3>1. ~AtRest(w) /\ Q!SetRow(job[w], "solved") /\ Q!ArchiveClaims(job[w])
            /\ UNCHANGED <<job, contended, orphaned>> /\ pc' = [pc EXCEPT ![w] = "postsolve"]
            /\ pc[w] = "planning"
        BY <2>4 DEF ParkSolved, Planned, AtRest, Q!MarkSolved, ghosts, Goto
      <3>2. job[w] \in Challenge /\ job[w] # NoJob
        BY <2>1, <3>1, AtWork, Owners DEF Base
      <3>3. "solved" \in Q!Statuses \ Q!Leased
        BY DEF Q!Statuses, Q!Parked, Q!Leased
      <3>4. ASSUME NEW v \in Worker, job[v] = job[w], job[w] \notin contended'
            PROVE  pc'[v] = "postsolve" /\ status'[job[w]] = "solved"
        <4>1. v = w
          BY <2>1, <3>1, <3>2, <3>4, Owners DEF Claims, Apart
        <4>2. owner[job[w]] = w
          BY <3>1, <3>2, <3>4 DEF Claims, Held, Holds
        <4>3. Q!Known(job[w])
          BY <2>1, <3>2, <4>2, Owners DEF Q!Claimed
        <4> QED
          BY <2>1, <3>1, <3>2, <3>3, <4>1, <4>3, ArchiveEffect DEF Base, Types
      <3>5. \A v \in Worker : job[v] # job[w] => pc'[v] = pc[v]
        BY <2>1, <3>1, Owners DEF Base, Types
      <3> QED
        BY <3>1, <3>2, <3>3, <3>4, <3>5, ArchiveEffect, ClaimsArchived
    <2>5. ASSUME ReadFlags(w) \/ SolverDone(w) PROVE Claims'
      <3>1. UNCHANGED <<status, owner, contended, orphaned>> /\ pc[w] # "postsolve"
        BY <2>5 DEF ReadFlags, SolverDone, Q!HeartbeatClaim, queueVars, ghosts
      <3>2. \E l \in Labels \ {"postsolve"} : \E m : Moves(w, l, m)
        BY <2>5, WorkerMoves DEF Labels, Base
      <3> QED
        BY <1>1, <2>1, <3>1, <3>2
    <2>6. ASSUME ClaimNothing(w) PROVE Claims'
      <3>1. UNCHANGED <<status, owner, job, contended, orphaned>>
            /\ \A v \in Worker : pc'[v] = "postsolve" <=> pc[v] = "postsolve"
        BY <2>1, <2>6 DEF ClaimNothing, Q!ClaimNone, ghosts, Goto, Base, Types, Process
      <3> QED
        BY <3>1, ClaimsStill
    <2> QED
      BY <1>3, <2>1, <1>2, <2>2, <2>3, <2>4, <2>5, <2>6, ClaimsTaken, ClaimsStarted DEF WorkerStep
  <1>4. ASSUME NEW o \in Operator, OperatorStep(o) PROVE Claims'
    <2>1. o \in Process /\ o \notin Worker
      BY DEF Process
    <2>2. ASSUME SubmitFlag(o) PROVE Claims'
      <3>1. PICK c \in Challenge :
              /\ pc[o] = "off" /\ Goto(o, "listing") /\ job' = [job EXCEPT ![o] = c]
              /\ contended' = IF InUse(c) THEN contended \cup {c} ELSE contended
              /\ UNCHANGED <<owner, status, orphaned>>
        BY <2>2 DEF SubmitFlag, queueVars
      <3>2. /\ job'[o] = c
            /\ \A q \in Process : q # o => pc'[q] = pc[q] /\ job'[q] = job[q]
        BY <2>1, <3>1 DEF Base, Types, Goto
      <3>3. Apart'
        <4> SUFFICES ASSUME NEW p \in Process, NEW q \in Process, p # q, job'[p] = job'[q],
                            job'[p] # NoJob
                     PROVE  job'[p] \in contended'
          BY DEF Apart
        <4>1. CASE p # o /\ q # o
          BY <3>1, <3>2, <4>1 DEF Claims, Apart
        <4>2. CASE p = o \/ q = o
          BY <3>1, <3>2, <4>2 DEF InUse
        <4> QED
          BY <4>1, <4>2
      <3> QED
        BY <2>1, <3>1, <3>2, <3>3, Owners, ClaimsBesideOperator
    <2>3. ASSUME CheckPermission(o) PROVE Claims'
      <3>1. UNCHANGED <<status, owner, contended, orphaned>> /\ pc[o] # "postsolve"
        BY <2>3 DEF CheckPermission, queueVars, ghosts
      <3>2. \E m : Moves(o, "planning", m)
        BY <2>3, OperatorMoves DEF Base
      <3> QED
        BY <1>1, <2>1, <3>1, <3>2
    <2>4. ASSUME SubmitAccepted(o) PROVE Claims'
      <3>1. ~AtRest(o) /\ Q!SetRow(job[o], "solved") /\ Q!ArchiveClaims(job[o])
            /\ UNCHANGED <<job, contended, orphaned>> /\ Goto(o, "rerecord")
        BY <2>4 DEF SubmitAccepted, Planned, AtRest, Q!MarkSolved, ghosts
      <3>2. job[o] \in Challenge /\ job[o] # NoJob
        BY <2>1, <3>1, AtWork, Owners DEF Base
      <3>3. "solved" \in Q!Statuses \ Q!Leased
        BY DEF Q!Statuses, Q!Parked, Q!Leased
      <3>4. \A v \in Worker : job[v] = job[o] => job[o] \in contended'
        BY <2>1, <3>1, <3>2, Owners DEF Claims, Apart
      <3>5. \A v \in Worker : pc'[v] = pc[v]
        BY <2>1, <3>1, Owners DEF Base, Types, Goto
      <3> QED
        BY <3>1, <3>2, <3>3, <3>4, <3>5, ArchiveEffect, ClaimsArchived
    <2>5. ASSUME RecordAccepted(o) \/ SubmitEnds(o) PROVE Claims'
      <3>1. UNCHANGED <<owner, status, contended, orphaned>> /\ Exits(o)
        BY <2>1, <2>5, LeaveExits DEF RecordAccepted, SubmitEnds, queueVars, ghosts, Base
      <3>2. /\ job'[o] = NoJob
            /\ \A q \in Process : q # o => pc'[q] = pc[q] /\ job'[q] = job[q]
        BY <2>1, <3>1, ExitsWorking DEF Base
      <3>3. Apart'
        BY <3>1, <3>2 DEF Claims, Apart
      <3> QED
        BY <2>1, <3>1, <3>2, <3>3, Owners, ClaimsBesideOperator
    <2> QED
      BY <1>4, <2>1, <1>2, <2>2, <2>3, <2>4, <2>5 DEF OperatorStep
  <1>5. ASSUME NEW p \in Process, Crash(p) PROVE Claims'
    <2>1. /\ Exits(p) /\ UNCHANGED <<owner, status, contended>> /\ orphaned \subseteq orphaned'
          /\ owner[job[p]] = p => job[p] \in orphaned'
      BY <1>5, CrashExits DEF Crash, queueVars, Base
    <2>2. /\ job'[p] = NoJob /\ pc'[p] # "postsolve"
          /\ \A q \in Process : q # p => pc'[q] = pc[q] /\ job'[q] = job[q]
      BY <2>1, ExitsWorking DEF Base
    <2>3. Apart'
      BY <2>1, <2>2 DEF Claims, Apart
    <2>4. Held' /\ LetGo'
      BY <2>1, <2>2, Owners DEF Claims, Held, LetGo, Holds, Shut, Q!Claimed
    <2>5. NoLeakedClaim'
      BY <2>1, <2>2, Owners DEF Claims, NoLeakedClaim, Q!Claimed
    <2>6. LeasedIsClaimed'
      BY <2>1 DEF Claims, LeasedIsClaimed, Q!Claimed, Q!Leased
    <2> QED
      BY <2>3, <2>4, <2>5, <2>6 DEF Claims
  <1>6. ASSUME NEW w \in Worker, Restart(w) PROVE Claims'
    <2>1. UNCHANGED <<status, owner, job, contended, orphaned>>
          /\ \A v \in Worker : pc'[v] = "postsolve" <=> pc[v] = "postsolve"
      BY <1>6 DEF Restart, queueVars, ghosts, Goto, Base, Types, Process
    <2> QED
      BY <2>1, ClaimsStill
  <1>7. CASE Sync
    <2>1. UNCHANGED <<owner, pc, job, contended, orphaned>>
      BY <1>7 DEF Sync, Disturb, Q!UpsertPlatform, ghosts
    <2>2. ASSUME NEW c \in Challenge
          PROVE  status'[c] = status[c] \/ (status[c] # "solved" /\ status'[c] \notin Q!Leased)
      <3>1. status'[c] \in {status[c], Q!SyncStatus(c)}
        BY <1>7 DEF Sync, Q!UpsertPlatform
      <3> QED
        BY <3>1 DEF Q!SyncStatus, Q!KeptBySync, Q!Leased
    <2> QED
      BY <2>1, <2>2, ClaimsStill
  <1>8. ASSUME NEW c \in Challenge, NEW p \in Priority, QueueAdd(c, p) PROVE Claims'
    <2>1. UNCHANGED <<owner, pc, job, contended, orphaned>>
      BY <1>8 DEF QueueAdd, Disturb, Q!AddManual, ghosts
    <2>2. ASSUME NEW d \in Challenge
          PROVE  status'[d] = status[d] \/ (status[d] # "solved" /\ status'[d] \notin Q!Leased)
      BY <1>8 DEF QueueAdd, Q!AddManual, Q!Known, Q!Leased, Base, QueueInv, Q!TypeOK
    <2> QED
      BY <2>1, <2>2, ClaimsStill
  <1>9. ASSUME NEW c \in Challenge, LeaseExpires(c) PROVE Claims'
    <2>1. UNCHANGED <<status, owner, pc, job, contended, orphaned>>
      BY <1>9 DEF LeaseExpires, Q!Expire, ghosts
    <2> QED
      BY <2>1, ClaimsStill
  <1>10. CASE Arm \/ Disarm
    <2>1. UNCHANGED <<status, owner, pc, job, contended, orphaned>>
      BY <1>10 DEF Arm, Disarm, Disturb, queueVars, ghosts
    <2> QED
      BY <2>1, ClaimsStill
  <1>11. ASSUME NEW c \in Challenge, Ingest(c) PROVE Claims'
    <2>1. /\ UNCHANGED <<owner, pc, job, orphaned>> /\ contended \subseteq contended'
          /\ ~Q!Claimed(c) /\ InUse(c) => c \in contended'
          /\ status'[c] = "ingest_ready"
          /\ \A d \in Challenge : d # c => status'[d] = status[d]
      BY <1>11 DEF Ingest, Disturb, Q!Ingested, Base, QueueInv, Q!TypeOK
    <2>2. Apart'
      BY <2>1 DEF Claims, Apart
    <2>3. Held'
      <3> SUFFICES ASSUME NEW v \in Worker, job[v] # NoJob, job[v] \notin contended'
                   PROVE  (IF pc[v] = "postsolve" THEN Shut(v) ELSE Holds(v))'
        BY <2>1 DEF Held
      <3>1. job[v] \in Challenge
        BY Owners
      <3>2. pc[v] = "postsolve" => job[v] # c
        BY <2>1, Owners DEF InUse, Claims, Held, Shut
      <3> QED
        BY <2>1, <3>1, <3>2 DEF Claims, Held, Holds, Shut, Q!Claimed
    <2>4. LetGo' /\ NoLeakedClaim'
      BY <2>1 DEF Claims, LetGo, Holds, NoLeakedClaim, Q!Claimed
    <2>5. LeasedIsClaimed'
      BY <2>1 DEF Claims, LeasedIsClaimed, Q!Claimed, Q!Leased
    <2> QED
      BY <2>2, <2>3, <2>4, <2>5 DEF Claims
  <1>12. ASSUME NEW w \in Worker, NEW c \in Challenge, NEW s \in Q!Statuses, QueueRelease(w, c, s)
         PROVE  Claims'
    <2>1. /\ UNCHANGED <<pc, job, orphaned>> /\ contended \subseteq contended'
          /\ InUse(c) => c \in contended'
          /\ Q!SetRow(c, s) /\ Q!ArchiveClaims(c) /\ s \in Q!Statuses \ Q!Leased
      BY <1>12 DEF QueueRelease, Disturb, Q!ReleaseClaim, Q!Leased
    <2>2. \A v \in Worker : job[v] = c => c \in contended'
      BY <2>1, Owners DEF InUse
    <2> QED
      BY <2>1, <2>2, ArchiveEffect, ClaimsArchived
  <1>13. CASE UNCHANGED vars
    <2>1. UNCHANGED <<status, owner, pc, job, contended, orphaned>>
      BY <1>13 DEF vars, queueVars, ghosts
    <2> QED
      BY <2>1, ClaimsStill
  <1> QED
    BY <1>3, <1>4, <1>5, <1>6, <1>7, <1>8, <1>9, <1>10, <1>11, <1>12, <1>13 DEF Next, Environment

-----------------------------------------------------------------------------
(* The initial states, the invariant, and what follows from it.            *)
LEMMA InitialClaims == Init => Base /\ Claims
  <1> SUFFICES ASSUME Init PROVE Base /\ Claims
    OBVIOUS
  <1>1. /\ \A c \in Challenge : owner[c] = NoWorker /\ ~expired[c] /\ status[c] \notin Q!Leased
        /\ \A p \in Process : job[p] = NoJob /\ pc[p] \in {"idle", "off"}
    BY DEF Init, Rest, Q!Leased
  <1>2. \A c \in Challenge : source[c] \in {"none", "manual", "platform"}
    BY DEF Init
  <1>3. \A c \in Challenge : /\ status[c] \in Q!Statuses \cup {"absent"}
                             /\ status[c] = "absent" <=> source[c] = "none"
    BY <1>2 DEF Init, Q!Statuses, Q!Claimable
  <1>4. Q!TypeOK
    BY <1>1, <1>2, <1>3 DEF Init, Q!TypeOK, Q!Known, Q!MaybeWorker
  <1>5. QueueInv
    BY <1>1, <1>4 DEF QueueInv, Q!ClaimConsistent, Q!Claimed
  <1>6. Claims
    BY <1>1 DEF Claims, Apart, Held, LetGo, NoLeakedClaim, LeasedIsClaimed, Q!Claimed, Process
  <1> QED
    BY <1>5, <1>6, InitialTypes DEF Base

(* The inductive invariant of the claims.                                  *)
THEOREM ClaimsInvariant == Spec => [](Base /\ Claims)
  <1>1. Base /\ Claims /\ [Next]_vars => (Base /\ Claims)'
    BY BaseKept, ClaimsKept
  <1> QED
    BY <1>1, InitialClaims, PTL DEF Spec

(* Type correctness of the tables and of every process's locals.           *)
THEOREM LoopTypeCorrect == Spec => []TypeOK
  <1>1. Base => TypeOK
    <2> SUFFICES ASSUME Base PROVE TypeOK
      OBVIOUS
    <2>1. \A p \in Process : mem[p] \in Locals
      BY DEF Base, Types
    <2>2. \A p \in Process : /\ mem[p].todo \subseteq Flag /\ mem[p].previous \subseteq Entries
                             /\ mem[p].outcome \in {"stalled", "submit_planned", "solved"}
      BY <2>1 DEF Locals
    <2>3. \A p \in Process : job[p] \in IF AtRest(p) THEN {NoJob} ELSE Challenge
      BY Owners
    <2> QED
      BY <2>2, <2>3 DEF TypeOK, Base, Types, QueueInv
  <1> QED
    BY <1>1, ClaimsInvariant, PTL

(* Two workers on one challenge contended for it.                          *)
THEOREM WorkersExclusive == Spec => []Exclusive
  <1>1. Claims => Exclusive
    BY DEF Claims, Apart, Exclusive, Process
  <1> QED
    BY <1>1, ClaimsInvariant, PTL

(* Only a crash leaves a claim without its worker.                         *)
THEOREM ClaimsGivenBack == Spec => []NoLeakedClaim
  <1>1. Claims => NoLeakedClaim
    BY DEF Claims
  <1> QED
    BY <1>1, ClaimsInvariant, PTL

(* A challenge shown as claimed or solving has a claim.                    *)
THEOREM LeasedAreClaimed == Spec => []LeasedIsClaimed
  <1>1. Claims => LeasedIsClaimed
    BY DEF Claims
  <1> QED
    BY <1>1, ClaimsInvariant, PTL

(* A worker that nobody contends with has the claim until it is done, so   *)
(* that a solved status it did not write itself is out of its reach.       *)
LEMMA SolvedIsContended ==
  ASSUME Base, Claims, NEW w \in Worker, ~AtRest(w), pc[w] # "postsolve", status[job[w]] = "solved"
  PROVE  job[w] \in contended
  <1>1. job[w] \in Challenge /\ job[w] # NoJob
    BY AtWork, Owners DEF Base
  <1>2. SUFFICES ASSUME job[w] \notin contended PROVE FALSE
    OBVIOUS
  <1>3. owner[job[w]] = w
    BY <1>1, <1>2 DEF Claims, Held, Holds
  <1> QED
    BY <1>1, <1>3, Owners DEF Q!Claimed

(* Of the steps that change a solved status, each is one of the listed.    *)
LEMMA SolvedStep ==
  ASSUME Base, Claims, [Next]_vars, NEW c \in Challenge, status[c] = "solved", status'[c] # "solved"
  PROVE  Reopened(c)
  <1> DEFINE Allowed == Reopened(c)
  <1>0. status \in [Challenge -> Q!Statuses \cup {"absent"}]
    BY DEF Base, QueueInv, Q!TypeOK
  <1>1. ASSUME NEW w \in Worker, WorkerStep(w) \/ Fail(w) PROVE Allowed
    <2>1. w \in Process /\ w # NoWorker
      BY Owners
    <2>2. ASSUME BlockByMode(w) \/ StartSolving(w) \/ Park(w) \/ Fail(w) PROVE Allowed
      <3>1. /\ ~AtRest(w) /\ contended' = contended
            /\ pc[w] = "postsolve" => Fail(w)
        BY <2>2 DEF BlockByMode, StartSolving, Park, Fail, Planned, AtRest, Failing, ghosts
      <3>2. \E s : Q!SetRow(job[w], s)
        BY <2>2 DEF BlockByMode, StartSolving, Park, Fail, Q!SetStatus
      <3>3. job[w] = c
        BY <1>0, <3>2 DEF Q!SetRow
      <3> QED
        BY <3>1, <3>3, SolvedIsContended DEF Reopened
    <2>3. ASSUME ClaimChallenge(w) PROVE FALSE
      <3>1. PICK d \in Challenge : Q!ClaimNext(w, d)
        BY <2>3 DEF ClaimChallenge
      <3>2. c \notin Q!StaleClaims
        BY DEF Q!StaleClaims, Q!Leased
      <3> QED
        BY <3>1, <3>2, ClaimEffect DEF Q!Claimable
    <2>4. ASSUME ParkSolved(w) PROVE FALSE
      BY <1>0, <2>4 DEF ParkSolved, Q!MarkSolved, Q!SetRow, Q!Known
    <2>5. ASSUME ClaimNothing(w) \/ ReadFlags(w) \/ SolverDone(w) \/ SubmitStep(w) \/ PostsolveDone(w)
          PROVE  FALSE
      BY <2>5 DEF ClaimNothing, Q!ClaimNone, ReadFlags, SolverDone, Q!HeartbeatClaim, PostsolveDone,
                  SubmitStep, ListSubmissions, ReadState, PlanFlag, PostFlag, RecordReply, Record, queueVars
    <2> QED
      BY <1>1, <2>2, <2>3, <2>4, <2>5 DEF WorkerStep
  <1>2. ASSUME NEW o \in Operator, OperatorStep(o) PROVE FALSE
    <2>1. ASSUME SubmitAccepted(o) PROVE FALSE
      BY <1>0, <2>1 DEF SubmitAccepted, Q!MarkSolved, Q!SetRow, Q!Known
    <2> QED
      BY <1>2, <2>1 DEF OperatorStep, SubmitFlag, CheckPermission, RecordAccepted, SubmitEnds,
         SubmitStep, ListSubmissions, ReadState, PlanFlag, PostFlag, RecordReply, Record, queueVars
  <1>3. ASSUME NEW d \in Challenge, NEW w \in Worker, NEW s \in Q!Statuses, QueueRelease(w, d, s)
        PROVE  Allowed
    <2>1. d = c
      BY <1>0, <1>3 DEF QueueRelease, Q!ReleaseClaim, Q!SetRow
    <2>2. CASE InUse(c)
      BY <1>3, <2>1, <2>2 DEF QueueRelease, Reopened
    <2>3. CASE ~InUse(c)
      BY <1>3, <2>1, <2>3 DEF Reopened
    <2> QED
      BY <2>2, <2>3
  <1>4. ASSUME NEW d \in Challenge, Ingest(d) PROVE Allowed
    <2>1. d = c
      BY <1>0, <1>4 DEF Ingest, Q!Ingested
    <2> QED
      BY <1>4, <2>1 DEF Reopened
  <1>5. CASE Sync
    BY <1>0, <1>5 DEF Sync, Q!UpsertPlatform, Q!SyncStatus, Q!KeptBySync
  <1>6. ASSUME NEW d \in Challenge, NEW p \in Priority, QueueAdd(d, p) PROVE FALSE
    BY <1>0, <1>6 DEF QueueAdd, Q!AddManual, Q!Known
  <1>7. ASSUME \/ \E p \in Process : Crash(p)
               \/ \E w \in Worker : Restart(w)
               \/ Arm \/ Disarm \/ UNCHANGED vars
               \/ \E d \in Challenge : LeaseExpires(d)
        PROVE  FALSE
    BY <1>7 DEF Crash, Restart, Arm, Disarm, LeaseExpires, Q!Expire, queueVars, vars
  <1> QED
    BY <1>1, <1>2, <1>3, <1>4, <1>5, <1>6, <1>7 DEF Next, Environment

(* A solved challenge stays solved but for an ingest, a release by the     *)
(* operator while nobody works on it, its own worker's exception in        *)
(* postsolve, and contention.                                              *)
THEOREM SolvedIsKept == Spec => SolvedSticks
  <1>1. Base /\ Claims /\ [Next]_vars =>
          \A c \in Challenge : status[c] = "solved" /\ status[c]' # "solved" => Reopened(c)
    BY SolvedStep
  <1> QED
    BY <1>1, ClaimsInvariant, PTL DEF Spec, SolvedSticks
-----------------------------------------------------------------------------
(* What the queue promises to any caller, it keeps under this one.         *)
LEMMA QueueStepQP ==
  ASSUME Base, [Next]_vars
  PROVE  QP!IInv /\ [QP!Next]_(QP!queueVars)
  BY QueueStep, SameQueueNext, SameQueueInv DEF Base, queueVars, QP!queueVars

(* The claims table is a lease (ClaimLease) for the workers of the loop.   *)
THEOREM LoopImplementsLease == Spec => Q!LeaseRefined
  <1>1. Init => Q!Lease!LeaseInit
    BY DEF Init, Q!Lease!LeaseInit
  <1>2. Base /\ [Next]_vars => [Q!Lease!LeaseNext]_(Q!Lease!leaseVars)
    <2> SUFFICES ASSUME Base, [Next]_vars PROVE [Q!Lease!LeaseNext]_(Q!Lease!leaseVars)
      OBVIOUS
    <2>1. [QP!Lease!LeaseNext]_(QP!Lease!leaseVars)
      BY QueueStepQP, QueueAssumption, QP!LeaseStep
    <2> QED
      BY <2>1 DEF Q!Lease!LeaseNext, QP!Lease!LeaseNext, Q!Lease!leaseVars, QP!Lease!leaseVars,
         Q!Lease!Revoke, QP!Lease!Revoke, Q!Lease!Grant, QP!Lease!Grant, Q!Lease!Return, QP!Lease!Return,
         Q!Lease!Renew, QP!Lease!Renew, Q!Lease!Lapse, QP!Lease!Lapse, Q!Lease!Free, QP!Lease!Free
  <1> QED
    BY <1>1, <1>2, ClaimsInvariant, PTL DEF Spec, Q!LeaseRefined, Q!Lease!LeaseSpec

(* HandoverOnlyWhenStale, of the loop: a claim passes from one worker to   *)
(* another only once its lease had expired, while its challenge was        *)
(* claimed or being solved.                                                *)
THEOREM LoopHandsOverWhenStale == Spec => Q!HandoverOnlyWhenStale
  <1>1. Base /\ [Next]_vars =>
          \A c \in Challenge :
            Q!Claimed(c) /\ owner[c]' # NoWorker /\ owner[c]' # owner[c]
              => expired[c] /\ status[c] \in Q!Leased
    <2> SUFFICES ASSUME Base, [Next]_vars, NEW c \in Challenge,
                        Q!Claimed(c), owner'[c] # NoWorker, owner'[c] # owner[c]
                 PROVE  expired[c] /\ status[c] \in Q!Leased
      OBVIOUS
    <2>1. QP!Claimed(c)
      BY DEF Q!Claimed, QP!Claimed
    <2>2. expired[c] /\ status[c] \in QP!Leased
      BY <2>1, QueueStepQP, QueueAssumption, QP!HandoverStep
    <2> QED
      BY <2>2 DEF Q!Leased, QP!Leased
  <1> QED
    BY <1>1, ClaimsInvariant, PTL DEF Spec, Q!HandoverOnlyWhenStale
-----------------------------------------------------------------------------
(* Laws of the two pure decisions every submission passes, run_mode.py's   *)
(* check_action_allowed and submit.py's should_submit, for every policy,   *)
(* every set of flags and every list of previous submissions.              *)

(* More flags and a more permissive profile never take a permission away,  *)
(* so a worker that adds the contest's flags to its own command line       *)
(* (run_worker_once) is never refused what either alone would permit.      *)
THEOREM PermissionsGrow ==
  ASSUME NEW mode \in RunModes, NEW action \in Actions, NEW target \in TargetKinds,
         NEW flags, NEW more, flags \subseteq more,
         NEW policy, NEW wider, policy \subseteq wider,
         ActionAllowed(mode, action, target, flags, policy)
  PROVE  ActionAllowed(mode, action, target, more, wider)
<1>1. /\ Confirmed(flags) => Confirmed(more)
      /\ ArmedAndConfirmed(flags) => ArmedAndConfirmed(more)
  BY DEF Confirmed, ArmedAndConfirmed
<1>2. SolveAllowed(mode, flags) => SolveAllowed(mode, more)
  BY <1>1 DEF SolveAllowed
<1>3. LiveSubmitAllowed(mode, flags, policy) => LiveSubmitAllowed(mode, more, wider)
  BY <1>1, {"confirm_submit", "confirm"} \cap flags \subseteq {"confirm_submit", "confirm"} \cap more
  DEF LiveSubmitAllowed
<1>4. InstanceStartAllowed(mode, target, flags, policy)
        => InstanceStartAllowed(mode, target, more, wider)
  BY <1>1 DEF InstanceStartAllowed
<1>5. BrowserLoginAllowed(mode, flags, policy) => BrowserLoginAllowed(mode, more, wider)
  BY <1>1, {"allow_browser_login", "allow_auth_capture"} \cap policy
             \subseteq {"allow_browser_login", "allow_auth_capture"} \cap wider
  DEF BrowserLoginAllowed
<1>6. PublicTunnelAllowed(mode, flags, policy) => PublicTunnelAllowed(mode, more, wider)
  BY <1>1, {"allow_public_tunnel", "allow_tunnel"} \cap policy
             \subseteq {"allow_public_tunnel", "allow_tunnel"} \cap wider
  DEF PublicTunnelAllowed
<1> QED
  BY <1>2, <1>3, <1>4, <1>5, <1>6 DEF ActionAllowed

(* Whatever a mode permits against a real platform it permits against a    *)
(* fake or local one, with the same flags and policy: a rehearsal on the   *)
(* fake server is never blocked where the contest would not be.  Logins    *)
(* and tunnels do not look at the target at all.                           *)
THEOREM RealImpliesRehearsable ==
  ASSUME NEW mode \in RunModes, NEW action \in Actions,
         NEW target \in {"fake", "local"}, NEW flags, NEW policy,
         ActionAllowed(mode, action, "real_platform", flags, policy)
  PROVE  ActionAllowed(mode, action, target, flags, policy)
<1>1. action \in TransferActions \cup {"real_challenge_solve", "live_submit"}
        => action \in TargetActions
  BY DEF TargetActions
<1> QED
  BY <1>1 DEF ActionAllowed, InstanceStartAllowed

(* Against a real platform, who may submit live may also solve, only a     *)
(* competition does, and only when armed and confirmed with a profile that *)
(* allows submissions: the worker's second check (before it posts) is      *)
(* stronger than its first (before it solves), so it never posts a flag    *)
(* for a challenge it was not allowed to solve.                            *)
THEOREM SubmitImpliesSolve ==
  ASSUME NEW mode \in RunModes, NEW flags, NEW policy, NEW none,
         ActionAllowed(mode, "live_submit", "real_platform", flags, policy)
  PROVE  /\ ActionAllowed(mode, "real_challenge_solve", "real_platform", flags, none)
         /\ mode = "competition"
         /\ {"contest_armed", "allow_live_submit", "confirm_competition"} \subseteq flags
         /\ "allow_submission" \in policy
<1>1. LiveSubmitAllowed(mode, flags, policy)
  BY DEF ActionAllowed, LocalTestActions, ReadOnlyActions, TransferActions
<1> QED
  BY <1>1 DEF ActionAllowed, LiveSubmitAllowed, SolveAllowed, ArmedAndConfirmed, Confirmed
-----------------------------------------------------------------------------
(* What is known only grows: a flag should_submit refuses, with a given    *)
(* list of previous submissions, it also refuses with a longer one and     *)
(* with "solved" set.  Every entry another process adds between the        *)
(* worker's read of the list and its post could only have made it stop.    *)
THEOREM RefusalsAreFinal ==
  ASSUME NEW policy \in PolicyType, NEW f, NEW class \in Classes,
         NEW previous, NEW later, IsFiniteSet(later), previous \subseteq later,
         NEW solved \in BOOLEAN, NEW laterSolved \in BOOLEAN, solved => laterSolved,
         NEW cooling \in BOOLEAN,
         ShouldSubmit(policy, f, class, later, laterSolved, cooling)
  PROVE  ShouldSubmit(policy, f, class, previous, solved, cooling)
<1>1. Wrong(previous) \subseteq Wrong(later) /\ IsFiniteSet(Wrong(later))
  BY FS_Subset DEF Wrong
<1>2. /\ IsFiniteSet(Wrong(previous))
      /\ Cardinality(Wrong(previous)) <= Cardinality(Wrong(later))
  BY <1>1, FS_Subset
<1>3. Cardinality(Wrong(previous)) \in Nat /\ Cardinality(Wrong(later)) \in Nat
  BY <1>1, <1>2, FS_CardinalityType
<1>4. WrongLimitReached(policy, previous) => WrongLimitReached(policy, later)
  BY <1>2, <1>3 DEF WrongLimitReached, PolicyType
<1>5. Duplicate(policy, f, previous) => Duplicate(policy, f, later)
  BY DEF Duplicate
<1>6. Wrong(previous) # {} => Wrong(later) # {}
  BY <1>1
<1> QED
  BY <1>4, <1>5, <1>6 DEF ShouldSubmit

(* The ledger never forgets a verdict: whatever attempts are recorded for  *)
(* a flag after a terminal one, its row stays terminal, and from then on   *)
(* should_submit refuses the flag when duplicates are detected.            *)
THEOREM VerdictRefusesFlag ==
  ASSUME NEW policy \in PolicyType, policy.dedupe,
         NEW S, NEW rows \in [S -> RowStatuses], NEW f \in S, rows[f] \in Terminal,
         NEW new \in RowStatuses \ {"none"}, NEW class, NEW solved, NEW cooling
  PROVE  LET after == [rows EXCEPT ![f] = Recorded(@, new)]
         IN /\ after[f] \in Terminal
            /\ ~ShouldSubmit(policy, f, class, Listed(after), solved, cooling)
<1> DEFINE after == [rows EXCEPT ![f] = Recorded(@, new)]
<1> HIDE DEF after
<1>1. after[f] = Recorded(rows[f], new) /\ f \in DOMAIN after
  BY DEF after
<1>2. after[f] \in Terminal
  BY <1>1 DEF Recorded, RowStatuses
<1>3. after[f] # "none"
  BY <1>2 DEF Terminal
<1>4. [flag |-> f, status |-> after[f], fresh |-> FALSE] \in Listed(after)
  BY <1>1, <1>3 DEF Listed
<1>5. Duplicate(policy, f, Listed(after))
  BY <1>2, <1>4 DEF Duplicate
<1>6. ~ShouldSubmit(policy, f, class, Listed(after), solved, cooling)
  BY <1>5 DEF ShouldSubmit
<1> QED
  BY <1>2, <1>6 DEF after
=============================================================================
