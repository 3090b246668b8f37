---------------------------- MODULE LedgerProofs ----------------------------
(***************************************************************************)
(* Proofs about the submissions table of WorkerLoop: it invents nothing,   *)
(* no verdict of an uncontended challenge is lost, no flag is posted twice *)
(* and no limit of rejections is passed, over any number of runs, crashes  *)
(* and restarts of any number of workers and operators.                    *)
(***************************************************************************)
EXTENDS MCLedger, WorkerLoopProofs

USE WorkerLoopAssumption

(* A step of one process leaves the locals of the others alone.            *)
Actor(p) == \A q \in Process : q # p => /\ pc'[q] = pc[q] /\ job'[q] = job[q]
                                        /\ mem'[q] = mem[q]

\* The history only grows, and the ledger is not written.
Quiet == /\ UNCHANGED <<submissions, posts>>
         /\ credited \subseteq credited' /\ contended \subseteq contended'
         /\ unanswered \subseteq unanswered'

(* Before a process has read the ledger, and from then until it is done.   *)
Early == {"idle", "off", "down", "claimed", "guard", "solving", "listing", "postsolve"}
Informed == {"reading", "permission", "planning", "posted", "recording"}

\* A process that has not looked at the ledger yet knows nothing of it.
Fresh(p) == /\ mem[p].previous = {} /\ mem[p].outcome = "stalled" /\ mem[p].reply = "none"
            /\ p \in Operator => \A f, g \in mem[p].todo : f = g

-----------------------------------------------------------------------------
(* The steps of the loop, as far as the ledger is concerned.               *)

(* What later steps decide by.                                             *)
SameLocals(p) == /\ mem'[p].todo = mem[p].todo /\ mem'[p].previous = mem[p].previous
                 /\ mem'[p].outcome = mem[p].outcome

\* On the way to the ledger, or out: no verdict is left in the locals.
Idles(p) == /\ Actor(p) /\ Quiet /\ pc'[p] \in Early
            /\ Fresh(p)'
            /\ AtRest(p)' => mem'[p] = Blank
            /\ pc[p] \in Posting /\ mem[p].reply \in Terminal
                 => <<job[p], mem[p].sent>> \in unanswered'

(* The ledger is read.                                                     *)
Lists(p) == /\ Actor(p) /\ Quiet /\ UNCHANGED job
            /\ pc[p] = "listing" /\ pc'[p] = "reading"
            /\ mem'[p].previous = Listed(submissions[job[p]])
            /\ mem'[p].todo = mem[p].todo /\ mem'[p].outcome = mem[p].outcome
            /\ mem'[p].reply = mem[p].reply /\ mem'[p].sent = mem[p].sent

(* The next label is reached and nothing learnt about the ledger.          *)
Proceeds(p) == /\ Actor(p) /\ Quiet /\ UNCHANGED job
               /\ \/ pc[p] = "reading" /\ pc'[p] \in {"planning", "permission"}
                  \/ pc[p] = "permission" /\ pc'[p] = "planning"
                  \/ pc[p] = "planning" /\ pc'[p] = "rerecord" /\ mem[p].outcome = "solved"
               /\ SameLocals(p) /\ mem'[p].reply = mem[p].reply /\ mem'[p].sent = mem[p].sent

(* A plan or a refusal is going to be recorded.                            *)
Plans(p) == /\ Actor(p) /\ Quiet /\ UNCHANGED job
            /\ pc[p] = "planning" /\ pc'[p] = "recording"
            /\ SameLocals(p) /\ mem'[p].reply \in NonTerminal
            /\ mem'[p].row = submissions[job[p]][mem'[p].sent]

(* A flag is posted, and the platform answers.                             *)
Posts(p) == /\ Actor(p) /\ UNCHANGED <<submissions, job, contended>>
            /\ pc[p] = "planning" /\ pc'[p] = "posted" /\ SameLocals(p)
            /\ \E f \in mem[p].todo, cooling \in BOOLEAN : \E r \in Replies(job[p], f) :
                 /\ Decision(p, f, cooling)
                 /\ mem'[p].sent = f /\ mem'[p].reply = r
                 /\ credited' = IF r = "accepted" THEN credited \cup {job[p]} ELSE credited
                 /\ unanswered' = IF r = "unknown" THEN unanswered \cup {<<job[p], f>>}
                                  ELSE unanswered
                 /\ posts' = [posts EXCEPT ![job[p]][f] = IF @ < 2 THEN @ + 1 ELSE 2]

(* The answer is going to be recorded.                                     *)
Hears(p) == /\ Actor(p) /\ Quiet /\ UNCHANGED job
            /\ pc[p] = "posted" /\ pc'[p] = "recording"
            /\ SameLocals(p) /\ mem'[p].sent = mem[p].sent
            /\ mem'[p].reply = IF mem[p].reply = "unknown" THEN "blocked" ELSE mem[p].reply
            /\ mem'[p].row = submissions[job[p]][mem[p].sent]

(* A row is written, unless it holds a verdict that stays.                 *)
Records(p) ==
  LET new == Recorded(mem[p].row, mem[p].reply) IN
  /\ Actor(p) /\ UNCHANGED <<job, posts, credited, contended, unanswered>>
  /\ pc[p] = "recording" /\ pc'[p] = "planning"
  /\ submissions' = IF new = mem[p].reply
                    THEN [submissions EXCEPT ![job[p]][mem[p].sent] = new] ELSE submissions
  /\ mem'[p].todo = mem[p].todo \ {mem[p].sent}
  /\ mem'[p].previous
       = mem[p].previous \cup {[flag |-> mem[p].sent, status |-> new, fresh |-> TRUE]}
  /\ mem'[p].outcome = Outcome(mem[p].outcome, mem[p].reply)
  /\ mem'[p].reply = "none"

\* The operator's submit writes the acceptance once more, and ends.
Confirms(o) ==
  /\ Actor(o) /\ UNCHANGED <<posts, credited, contended, unanswered>>
  /\ o \in Operator /\ pc[o] = "rerecord" /\ pc'[o] = "off" /\ mem'[o] = Blank
  /\ \E e \in mem[o].previous :
       e.fresh /\ submissions' = [submissions EXCEPT ![job[o]][e.flag] = "accepted"]

(* One of these.                                                           *)
Acts(p) == \/ Idles(p) \/ Lists(p) \/ Proceeds(p) \/ Plans(p) \/ Posts(p) \/ Hears(p)
           \/ Records(p) \/ Confirms(p)

(* Processes at rest start from blank locals, and those on the way to the  *)
(* ledger have not learnt anything.                                        *)
Unaware == \A p \in Process : /\ pc[p] \in Early => Fresh(p)
                              /\ AtRest(p) => mem[p] = Blank

(* What WorkerLoopProofs knows of a moving process ...                     *)
LEMMA MovesEffect ==
  ASSUME Base, NEW p \in Process, NEW l, NEW m, Moves(p, l, m)
  PROVE  /\ Actor(p) /\ pc'[p] = l /\ mem'[p] = m /\ UNCHANGED job
         /\ ~AtRest(p) /\ ~AtRest(p)'
  <1>1. /\ mem'[p] = m /\ \A q \in Process : q # p => mem'[q] = mem[q]
    BY SetsLocals DEF Moves, Base
  <1>2. /\ pc'[p] = l /\ \A q \in Process : q # p => pc'[q] = pc[q]
    BY DEF Moves, Goto, Base, Types
  <1> QED
    BY <1>1, <1>2 DEF Moves, Actor, AtRest

(* ... and of one that gives up.                                           *)
LEMMA ExitsEffect ==
  ASSUME Base, NEW p \in Process, Exits(p)
  PROVE  Actor(p) /\ AtRest(p)' /\ pc'[p] \in Early /\ mem'[p] = Blank /\ Fresh(p)'
  <1>1. Actor(p) /\ AtRest(p)' /\ pc'[p] \in Early /\ mem'[p] = Blank
    BY ExitsWorking DEF Base, Actor, AtRest, Early
  <1>2. Blank.previous = {} /\ Blank.outcome = "stalled" /\ Blank.reply = "none" /\ Blank.todo = {}
    BY DEF Blank
  <1> QED
    BY <1>1, <1>2 DEF Fresh

(* A worker's steps outside the submit are on the way there or out.        *)
LEMMA WorkerActs ==
  ASSUME Base, Unaware, NEW w \in Worker, WorkerStep(w) \/ Fail(w), ~SubmitStep(w)
  PROVE  Idles(w)
  <1>1. w \in Process /\ w \notin Operator /\ mem[w] \in Locals
    BY Owners DEF Base, Types
  <1>2. Blank.previous = {} /\ Blank.outcome = "stalled" /\ Blank.reply = "none" /\ Blank.todo = {}
    BY DEF Blank
  <1>3. ASSUME BlockByMode(w) \/ Park(w) \/ PostsolveDone(w) \/ Fail(w) PROVE Idles(w)
    <2>1. Exits(w)
      BY <1>1, <1>3, LeaveExits DEF BlockByMode, Park, PostsolveDone, Fail, Base
    <2>2. /\ Quiet
          /\ pc[w] \in Posting /\ mem[w].reply \in Terminal => <<job[w], mem[w].sent>> \in unanswered'
      BY <1>3 DEF BlockByMode, Park, Planned, PostsolveDone, Fail, PostLost, Quiet, ghosts, Posting
    <2> QED
      BY <1>1, <2>1, <2>2, ExitsEffect DEF Idles
  <1>4. ASSUME ClaimChallenge(w) PROVE Idles(w)
    <2>1. PICK k \in TargetKinds : Sets(w, [mem[w] EXCEPT !.kind = k])
      BY <1>4, ClaimSets DEF Base
    <2>2. /\ mem'[w] = [mem[w] EXCEPT !.kind = k]
          /\ \A q \in Process : q # w => mem'[q] = mem[q]
      BY <1>1, <2>1, SetsLocals DEF Base
    <2>3. /\ mem'[w].previous = mem[w].previous /\ mem'[w].outcome = mem[w].outcome
          /\ mem'[w].reply = mem[w].reply
      BY <1>1, <2>2 DEF Locals
    <2>4. /\ pc[w] = "idle" /\ pc'[w] = "claimed" /\ Actor(w) /\ Quiet
      BY <1>1, <1>4, <2>2 DEF ClaimChallenge, Goto, Actor, Quiet, Base, Types
    <2>5. Fresh(w)
      BY <1>1, <2>4 DEF Unaware, Early
    <2> QED
      BY <1>1, <2>3, <2>4, <2>5 DEF Idles, Fresh, Early, AtRest, Posting
  <1>5. ASSUME ClaimNothing(w) PROVE Idles(w)
    <2>1. /\ pc[w] = "idle" /\ pc'[w] \in {"idle", "down"} /\ Actor(w) /\ Quiet /\ mem' = mem
      BY <1>1, <1>5 DEF ClaimNothing, Goto, Actor, Quiet, ghosts, Base, Types
    <2> QED
      BY <1>1, <2>1 DEF Idles, Unaware, Fresh, Early, AtRest, Posting
  <1>6. ASSUME ReadFlags(w) PROVE Idles(w)
    <2>1. Moves(w, "guard", [mem[w] EXCEPT !.flags = Options \cup armed])
      BY <1>6, WorkerMoves DEF Base
    <2>2. /\ mem'[w] = [mem[w] EXCEPT !.flags = Options \cup armed]
          /\ Actor(w) /\ pc'[w] = "guard" /\ ~AtRest(w)'
      BY <1>1, <2>1, MovesEffect
    <2>3. /\ mem'[w].previous = mem[w].previous /\ mem'[w].outcome = mem[w].outcome
          /\ mem'[w].reply = mem[w].reply
      BY <1>1, <2>2 DEF Locals
    <2>4. Quiet /\ pc[w] = "claimed"
      BY <1>6 DEF ReadFlags, Quiet, ghosts
    <2>5. Fresh(w)
      BY <1>1, <2>4 DEF Unaware, Early
    <2> QED
      BY <1>1, <2>2, <2>3, <2>4, <2>5 DEF Idles, Fresh, Early, Posting
  <1>7. ASSUME StartSolving(w) PROVE Idles(w)
    <2>1. mem'[w] = mem[w] /\ Actor(w) /\ pc'[w] = "solving" /\ ~AtRest(w)'
      BY <1>1, <1>7, WorkerMoves, MovesEffect DEF Base
    <2>2. Quiet /\ pc[w] = "guard"
      BY <1>7 DEF StartSolving, Quiet, ghosts
    <2> QED
      BY <1>1, <2>1, <2>2 DEF Idles, Unaware, Fresh, Early, Posting
  <1>8. ASSUME SolverDone(w) PROVE Idles(w)
    <2>1. PICK b \in BOOLEAN : Sets(w, [Blank EXCEPT !.todo = Candidates[job[w]], !.live = b])
      BY <1>8, SolverSets DEF Base
    <2>2. mem'[w] = [Blank EXCEPT !.todo = Candidates[job[w]], !.live = b]
      BY <1>1, <2>1, SetsLocals DEF Base
    <2>3. mem'[w].previous = {} /\ mem'[w].outcome = "stalled" /\ mem'[w].reply = "none"
      BY <2>2 DEF Blank
    <2>4. Actor(w) /\ pc'[w] = "listing" /\ ~AtRest(w)'
      BY <1>1, <1>8, WorkerMoves, MovesEffect DEF Base
    <2>5. Quiet /\ pc[w] = "solving"
      BY <1>8 DEF SolverDone, Quiet, ghosts
    <2> QED
      BY <1>1, <2>3, <2>4, <2>5 DEF Idles, Fresh, Early, Posting
  <1>9. ASSUME ParkSolved(w) PROVE Idles(w)
    <2>1. mem'[w] = Blank /\ Actor(w) /\ pc'[w] = "postsolve" /\ ~AtRest(w)'
      BY <1>1, <1>9, WorkerMoves, MovesEffect DEF Base
    <2>2. Quiet /\ pc[w] = "planning"
      BY <1>9 DEF ParkSolved, Planned, Quiet, ghosts
    <2> QED
      BY <1>1, <1>2, <2>1, <2>2 DEF Idles, Fresh, Early, Posting
  <1> QED
    BY <1>3, <1>4, <1>5, <1>6, <1>7, <1>8, <1>9 DEF WorkerStep

(* The steps of a submit, one kind each.                                   *)
LEMMA SubmitActs ==
  ASSUME Base, Unaware, NEW p \in Process, SubmitStep(p)
  PROVE  Lists(p) \/ Proceeds(p) \/ Plans(p) \/ Posts(p) \/ Hears(p) \/ Records(p)
  <1>1. mem[p] \in Locals
    BY DEF Base, Types
  <1>2. ASSUME ListSubmissions(p) PROVE Lists(p)
    <2> DEFINE m == [mem[p] EXCEPT !.previous = Listed(submissions[job[p]])]
    <2>1. m.previous = Listed(submissions[job[p]]) /\ m.todo = mem[p].todo
          /\ m.outcome = mem[p].outcome /\ m.reply = mem[p].reply /\ m.sent = mem[p].sent
      BY <1>1 DEF Locals
    <2>2. Moves(p, "reading", m)
      BY <1>2, SubmitMoves DEF Base
    <2> HIDE DEF m
    <2>3. Actor(p) /\ pc'[p] = "reading" /\ mem'[p] = m /\ UNCHANGED job
      BY <2>2, MovesEffect
    <2> QED
      BY <1>2, <2>1, <2>3 DEF Lists, ListSubmissions, Quiet, ghosts
  <1>3. ASSUME ReadState(p) PROVE Proceeds(p)
    <2>1. PICK b \in BOOLEAN, l \in {"planning", "permission"} :
            Moves(p, l, [mem[p] EXCEPT !.solved = b])
      BY <1>3, SubmitMoves DEF Base
    <2> DEFINE m == [mem[p] EXCEPT !.solved = b]
    <2>2. m.previous = mem[p].previous /\ m.todo = mem[p].todo
          /\ m.outcome = mem[p].outcome /\ m.reply = mem[p].reply /\ m.sent = mem[p].sent
      BY <1>1 DEF Locals
    <2> HIDE DEF m
    <2>3. Actor(p) /\ pc'[p] = l /\ mem'[p] = m /\ UNCHANGED job
      BY <2>1, MovesEffect DEF m
    <2> QED
      BY <1>3, <2>2, <2>3 DEF Proceeds, SameLocals, ReadState, Quiet, ghosts
  <1>4. ASSUME PlanFlag(p) PROVE Plans(p)
    <2>1. PICK f \in mem[p].todo, s \in {"planned", "blocked"} :
            Moves(p, "recording", [mem[p] EXCEPT !.sent = f, !.reply = s,
                                                 !.row = submissions[job[p]][f]])
      BY <1>4, SubmitMoves DEF Base
    <2> DEFINE m == [mem[p] EXCEPT !.sent = f, !.reply = s, !.row = submissions[job[p]][f]]
    <2>2. m.previous = mem[p].previous /\ m.todo = mem[p].todo
          /\ m.outcome = mem[p].outcome /\ m.reply = s /\ m.sent = f
          /\ m.row = submissions[job[p]][f]
      BY <1>1 DEF Locals
    <2> HIDE DEF m
    <2>3. Actor(p) /\ pc'[p] = "recording" /\ mem'[p] = m /\ UNCHANGED job
      BY <2>1, MovesEffect DEF m
    <2>4. Quiet /\ pc[p] = "planning"
      BY <1>4 DEF PlanFlag, Quiet, ghosts
    <2> QED
      BY <2>2, <2>3, <2>4 DEF Plans, SameLocals, NonTerminal
  <1>5. ASSUME PostFlag(p) PROVE Posts(p)
    <2>1. PICK f \in mem[p].todo, cooling \in BOOLEAN : \E r \in Replies(job[p], f) :
           /\ Decision(p, f, cooling)
           /\ Sets(p, [mem[p] EXCEPT !.sent = f, !.reply = r])
           /\ credited' = IF r = "accepted" THEN credited \cup {job[p]} ELSE credited
           /\ unanswered' = IF r = "unknown" THEN unanswered \cup {<<job[p], f>>}
                            ELSE unanswered
           /\ posts' = [posts EXCEPT ![job[p]][f] = IF @ < 2 THEN @ + 1 ELSE 2]
      BY <1>5, PostSets DEF Base
    <2>2. PICK r \in Replies(job[p], f) :
           /\ Decision(p, f, cooling)
           /\ Sets(p, [mem[p] EXCEPT !.sent = f, !.reply = r])
           /\ credited' = IF r = "accepted" THEN credited \cup {job[p]} ELSE credited
           /\ unanswered' = IF r = "unknown" THEN unanswered \cup {<<job[p], f>>}
                            ELSE unanswered
           /\ posts' = [posts EXCEPT ![job[p]][f] = IF @ < 2 THEN @ + 1 ELSE 2]
      BY <2>1
    <2> DEFINE m == [mem[p] EXCEPT !.sent = f, !.reply = r]
    <2>3. m.previous = mem[p].previous /\ m.todo = mem[p].todo
          /\ m.outcome = mem[p].outcome /\ m.reply = r /\ m.sent = f
      BY <1>1 DEF Locals
    <2> HIDE DEF m
    <2>4. mem'[p] = m
      BY <2>2, SetsLocals DEF m, Base
    <2>5. \E l \in {"posted"} : \E n : Moves(p, l, n)
      BY <1>5, SubmitMoves DEF Base
    <2>6. Actor(p) /\ pc'[p] = "posted" /\ UNCHANGED job
      BY <2>5, MovesEffect
    <2>7. UNCHANGED <<submissions, contended>> /\ pc[p] = "planning"
      BY <1>5 DEF PostFlag
    <2> QED
      BY <2>2, <2>3, <2>4, <2>6, <2>7 DEF Posts, SameLocals
  <1>6. ASSUME RecordReply(p) PROVE Hears(p)
    <2> DEFINE s == IF mem[p].reply = "unknown" THEN "blocked" ELSE mem[p].reply
               m == [mem[p] EXCEPT !.sent = mem[p].sent, !.reply = s,
                                   !.row = submissions[job[p]][mem[p].sent]]
    <2>1. Moves(p, "recording", m)
      BY <1>6, SubmitMoves DEF Base
    <2>2. m.previous = mem[p].previous /\ m.todo = mem[p].todo
          /\ m.outcome = mem[p].outcome /\ m.reply = s /\ m.sent = mem[p].sent
          /\ m.row = submissions[job[p]][mem[p].sent]
      BY <1>1 DEF Locals
    <2> HIDE DEF m
    <2>3. Actor(p) /\ pc'[p] = "recording" /\ mem'[p] = m /\ UNCHANGED job
      BY <2>1, MovesEffect
    <2>4. Quiet /\ pc[p] = "posted"
      BY <1>6 DEF RecordReply, Quiet, ghosts
    <2> QED
      BY <2>2, <2>3, <2>4 DEF Hears, SameLocals
  <1>7. ASSUME Record(p) PROVE Records(p)
    <2>1. Moves(p, "planning", After(p))
      BY <1>7, SubmitMoves DEF Base
    <2>2. Actor(p) /\ pc'[p] = "planning" /\ mem'[p] = After(p) /\ UNCHANGED job
      BY <2>1, MovesEffect
    <2> DEFINE new == Recorded(mem[p].row, mem[p].reply)
    <2>3. /\ After(p).todo = mem[p].todo \ {mem[p].sent}
          /\ After(p).previous
               = mem[p].previous \cup {[flag |-> mem[p].sent, status |-> new, fresh |-> TRUE]}
          /\ After(p).outcome = Outcome(mem[p].outcome, mem[p].reply)
          /\ After(p).reply = "none"
      <3> HIDE DEF new
      <3> QED
        BY <1>1 DEF After, Locals, new
    <2>4. /\ UNCHANGED <<posts, credited, contended, unanswered>> /\ pc[p] = "recording"
          /\ submissions' = IF new = mem[p].reply
                            THEN [submissions EXCEPT ![job[p]][mem[p].sent] = new]
                            ELSE submissions
      BY <1>7 DEF Record, ghosts
    <2> QED
      BY <2>2, <2>3, <2>4 DEF Records
  <1> QED
    BY <1>2, <1>3, <1>4, <1>5, <1>6, <1>7 DEF SubmitStep

(* The operator's other steps.                                             *)
LEMMA OperatorActs ==
  ASSUME Base, Unaware, NEW o \in Operator, OperatorStep(o), ~SubmitStep(o)
  PROVE  Idles(o) \/ Proceeds(o) \/ Confirms(o)
  <1>1. o \in Process /\ mem[o] \in Locals
    BY DEF Base, Types, Process
  <1>2. ASSUME SubmitFlag(o) PROVE Idles(o)
    <2>1. PICK f \in Flag : Sets(o, [mem[o] EXCEPT !.todo = {f}, !.kind = PlatformKind])
      BY <1>2, SubmitSets DEF Base
    <2>2. mem'[o] = [mem[o] EXCEPT !.todo = {f}, !.kind = PlatformKind]
          /\ \A q \in Process : q # o => mem'[q] = mem[q]
      BY <1>1, <2>1, SetsLocals DEF Base
    <2>3. /\ mem'[o].previous = mem[o].previous /\ mem'[o].outcome = mem[o].outcome
          /\ mem'[o].reply = mem[o].reply /\ mem'[o].todo = {f}
      BY <1>1, <2>2 DEF Locals
    <2>4. /\ pc[o] = "off" /\ pc'[o] = "listing" /\ Actor(o) /\ Quiet
      BY <1>1, <1>2, <2>2 DEF SubmitFlag, Goto, Actor, Quiet, Base, Types
    <2>5. Fresh(o)
      BY <1>1, <2>4 DEF Unaware, Early
    <2> QED
      BY <1>1, <2>3, <2>4, <2>5 DEF Idles, Fresh, Early, AtRest, Posting
  <1>3. ASSUME CheckPermission(o) PROVE Proceeds(o)
    <2>1. PICK b \in BOOLEAN : Moves(o, "planning", [mem[o] EXCEPT !.live = b])
      BY <1>3, OperatorMoves DEF Base
    <2> DEFINE m == [mem[o] EXCEPT !.live = b]
    <2>2. m.previous = mem[o].previous /\ m.todo = mem[o].todo
          /\ m.outcome = mem[o].outcome /\ m.reply = mem[o].reply /\ m.sent = mem[o].sent
      BY <1>1 DEF Locals
    <2> HIDE DEF m
    <2>3. Actor(o) /\ pc'[o] = "planning" /\ mem'[o] = m /\ UNCHANGED job
      BY <1>1, <2>1, MovesEffect DEF m
    <2> QED
      BY <1>3, <2>2, <2>3 DEF Proceeds, SameLocals, CheckPermission, Quiet, ghosts
  <1>4. ASSUME SubmitAccepted(o) PROVE Proceeds(o)
    <2>1. Actor(o) /\ pc'[o] = "rerecord" /\ mem'[o] = mem[o] /\ UNCHANGED job
      BY <1>1, <1>4, OperatorMoves, MovesEffect DEF Base
    <2> QED
      BY <1>4, <2>1 DEF Proceeds, SameLocals, SubmitAccepted, Planned, Quiet, ghosts
  <1>5. ASSUME RecordAccepted(o) PROVE Confirms(o)
    <2>1. Exits(o)
      BY <1>1, <1>5, LeaveExits DEF RecordAccepted, Base
    <2>2. Actor(o) /\ mem'[o] = Blank
      BY <1>1, <2>1, ExitsEffect
    <2>3. o \notin Worker
      OBVIOUS
    <2>4. pc' = [pc EXCEPT ![o] = "off"] /\ pc[o] = "rerecord"
      BY <1>5, <2>3 DEF RecordAccepted, Leave, Rest
    <2>5. pc'[o] = "off"
      BY <1>1, <2>4 DEF Base, Types
    <2> QED
      BY <1>5, <2>2, <2>4, <2>5 DEF RecordAccepted, Confirms, ghosts
  <1>6. ASSUME SubmitEnds(o) PROVE Idles(o)
    <2>1. Exits(o)
      BY <1>1, <1>6, LeaveExits DEF SubmitEnds, Base
    <2>2. Quiet /\ pc[o] = "planning"
      BY <1>6 DEF SubmitEnds, Planned, Quiet, ghosts
    <2> QED
      BY <1>1, <2>1, <2>2, ExitsEffect DEF Idles, Posting
  <1> QED
    BY <1>2, <1>3, <1>4, <1>5, <1>6 DEF OperatorStep

(* Every step is the act of one process or leaves them all alone.          *)
LEMMA StepActs ==
  ASSUME Base, Unaware, [Next]_vars
  PROVE  (\E p \in Process : Acts(p)) \/ (UNCHANGED <<pc, job, mem>> /\ Quiet)
  <1> USE DEF Acts
  <1>1. ASSUME NEW w \in Worker, WorkerStep(w) \/ Fail(w) PROVE \E p \in Process : Acts(p)
    BY <1>1, Owners, SubmitActs, WorkerActs
  <1>2. ASSUME NEW o \in Operator, OperatorStep(o) PROVE \E p \in Process : Acts(p)
    BY <1>2, SubmitActs, OperatorActs DEF Process
  <1>3. ASSUME NEW p \in Process, Crash(p) PROVE Idles(p)
    <2>1. Exits(p)
      BY <1>3, CrashExits DEF Base
    <2>2. /\ Quiet
          /\ pc[p] \in Posting /\ mem[p].reply \in Terminal => <<job[p], mem[p].sent>> \in unanswered'
      BY <1>3 DEF Crash, PostLost, Quiet, Posting
    <2> QED
      BY <2>1, <2>2, ExitsEffect DEF Idles
  <1>4. ASSUME NEW w \in Worker, Restart(w) PROVE w \in Process /\ Idles(w)
    <2>1. w \in Process
      BY Owners
    <2>2. /\ pc[w] = "down" /\ pc'[w] = "idle" /\ Actor(w) /\ Quiet /\ mem' = mem
      BY <2>1, <1>4 DEF Restart, Goto, Actor, Quiet, ghosts, Base, Types
    <2> QED
      BY <2>1, <2>2 DEF Idles, Unaware, Fresh, Early, AtRest, Posting
  <1>5. ASSUME \/ Sync \/ Arm \/ Disarm \/ UNCHANGED vars
               \/ \E c \in Challenge : LeaseExpires(c) \/ Ingest(c)
               \/ \E c \in Challenge, p \in Priority : QueueAdd(c, p)
               \/ \E w \in Worker, c \in Challenge, s \in Q!Statuses : QueueRelease(w, c, s)
        PROVE  UNCHANGED <<pc, job, mem>> /\ Quiet
    BY <1>5 DEF Sync, Arm, Disarm, LeaseExpires, Ingest, QueueAdd, QueueRelease, Disturb, vars,
                ghosts, Quiet
  <1> QED
    BY <1>1, <1>2, <1>3, <1>4, <1>5 DEF Next, Environment

(* Unaware is inductive.                                                   *)
LEMMA UnawareKept ==
  ASSUME Base, Unaware, [Next]_vars
  PROVE  Unaware'
  <1>1. CASE UNCHANGED <<pc, job, mem>>
    BY <1>1 DEF Unaware, Fresh, AtRest
  <1>2. ASSUME NEW p \in Process, Acts(p) PROVE Unaware'
    <2>1. Actor(p)
      BY <1>2 DEF Acts, Idles, Lists, Proceeds, Plans, Posts, Hears, Records, Confirms
    <2>2. pc'[p] \in Early => Fresh(p)'
      <3>1. CASE Confirms(p)
        BY <3>1 DEF Confirms, Fresh, Blank
      <3> QED
        BY <1>2, <3>1 DEF Acts, Idles, Lists, Proceeds, Plans, Posts, Hears, Records, Early
    <2>3. AtRest(p)' => mem'[p] = Blank
      BY <1>2 DEF Acts, Idles, Lists, Proceeds, Plans, Posts, Hears, Records, Confirms, AtRest
    <2>4. \A q \in Process : q # p => (pc'[q] \in Early => Fresh(q)') /\ (AtRest(q)' => mem'[q] = Blank)
      BY <2>1 DEF Actor, Unaware, Fresh, AtRest
    <2> QED
      BY <2>2, <2>3, <2>4 DEF Unaware
  <1> QED
    BY <1>1, <1>2, StepActs
-----------------------------------------------------------------------------
(* The ledger is true.                                                     *)

(* The flags that were posted, each with its challenge.                    *)
Tried == {x \in Challenge \X Flag : posts[x[1]][x[2]] > 0}

(* What a process believes of its posts is what the platform said.         *)
Honest(p) ==
  /\ mem[p].reply \in {"accepted", "rejected"} => <<job[p], mem[p].sent>> \in Tried
  /\ mem[p].reply = "accepted" => job[p] \in credited
  /\ mem[p].reply = "rejected" => mem[p].sent # Correct[job[p]]
  /\ mem[p].outcome = "solved" => job[p] \in credited

(* The operator's submit tries one flag: what it records an acceptance of  *)
(* a second time is the flag that was posted.                              *)
OneFlag(o) ==
  /\ \A f, g \in mem[o].todo : f = g
  /\ mem[o].outcome = "solved" => mem[o].todo = {}
  /\ \A e \in mem[o].previous :
       e.fresh => mem[o].todo = {} /\ (mem[o].outcome = "solved" => <<job[o], e.flag>> \in Tried)
  /\ pc[o] = "rerecord" => mem[o].outcome = "solved"

(* All of them are.                                                        *)
Truthful == /\ \A p \in Process : Honest(p)
            /\ \A o \in Operator : OneFlag(o)

(* A post leaves its trace, and takes none away.                           *)
LEMMA PostTried ==
  ASSUME Base, Unaware, NEW p \in Process, Posts(p)
  PROVE  Tried \subseteq Tried' /\ <<job[p], mem'[p].sent>> \in Tried'
  <1>1. PICK f \in mem[p].todo :
          /\ mem'[p].sent = f
          /\ posts' = [posts EXCEPT ![job[p]][f] = IF @ < 2 THEN @ + 1 ELSE 2]
    BY DEF Posts
  <1>2. job[p] \in Challenge /\ f \in Flag /\ posts \in [Challenge -> [Flag -> 0..2]]
    BY AtWork DEF Posts, AtRest, Base, Types, Locals
  <1>3. \A c \in Challenge, g \in Flag :
          posts'[c][g] = IF c = job[p] /\ g = f
                         THEN IF posts[c][g] < 2 THEN posts[c][g] + 1 ELSE 2 ELSE posts[c][g]
    BY <1>1, <1>2
  <1>4. \A c \in Challenge, g \in Flag : posts[c][g] \in 0..2
    BY <1>2
  <1>5. ASSUME NEW x \in Tried PROVE x \in Tried'
    <2>1. /\ x \in Challenge \X Flag /\ posts[x[1]][x[2]] > 0
          /\ x[1] \in Challenge /\ x[2] \in Flag
      BY DEF Tried
    <2>2. posts'[x[1]][x[2]] > 0
      BY <1>3, <1>4, <2>1
    <2> QED
      BY <2>1, <2>2 DEF Tried
  <1>6. <<job[p], f>> \in Tried'
    <2>1. posts'[job[p]][f] > 0
      BY <1>2, <1>3, <1>4
    <2> QED
      BY <1>2, <2>1 DEF Tried
  <1> QED
    BY <1>1, <1>5, <1>6

(* The platform takes no credit back, and no post is undone.               *)
LEMMA HistoryGrows ==
  ASSUME Base, Unaware, [Next]_vars
  PROVE  credited \subseteq credited' /\ Tried \subseteq Tried'
  <1>1. credited \subseteq credited'
    BY StepActs DEF Acts, Idles, Lists, Proceeds, Plans, Posts, Hears, Records, Confirms, Quiet
  <1>2. ASSUME UNCHANGED posts PROVE Tried \subseteq Tried'
    BY <1>2 DEF Tried
  <1>3. ASSUME NEW p \in Process, Acts(p) PROVE Tried \subseteq Tried'
    BY <1>2, <1>3, PostTried
    DEF Acts, Idles, Lists, Proceeds, Plans, Hears, Records, Confirms, Quiet
  <1> QED
    BY <1>1, <1>2, <1>3, StepActs DEF Quiet

(* The actor stays honest: it learns only from a reply.                    *)
LEMMA HonestKept ==
  ASSUME Base, Unaware, Truthful, NEW p \in Process, Acts(p), Tried \subseteq Tried'
  PROVE  Honest(p)'
  <1>1. Honest(p)
    BY DEF Truthful
  <1>2. CASE Idles(p) \/ Confirms(p)
    <2>1. mem'[p].reply = "none" /\ mem'[p].outcome = "stalled"
      BY <1>2 DEF Idles, Confirms, Fresh, Blank
    <2> QED
      BY <2>1 DEF Honest
  <1>3. CASE Lists(p) \/ Proceeds(p)
    BY <1>1, <1>3 DEF Lists, Proceeds, SameLocals, Honest, Quiet
  <1>4. CASE Plans(p)
    BY <1>1, <1>4 DEF Plans, SameLocals, Honest, Quiet, NonTerminal
  <1>5. CASE Posts(p)
    <2>1. PICK f \in mem[p].todo : \E r \in Replies(job[p], f) :
            /\ mem'[p].sent = f /\ mem'[p].reply = r
            /\ credited' = IF r = "accepted" THEN credited \cup {job[p]} ELSE credited
      BY <1>5 DEF Posts
    <2>2. mem'[p].reply = "rejected" => f # Correct[job[p]]
      BY <2>1 DEF Replies
    <2>3. <<job[p], mem'[p].sent>> \in Tried'
      BY <1>5, PostTried
    <2> QED
      BY <1>1, <1>5, <2>1, <2>2, <2>3 DEF Posts, SameLocals, Honest
  <1>6. CASE Hears(p)
    BY <1>1, <1>6 DEF Hears, SameLocals, Honest, Quiet
  <1>7. CASE Records(p)
    <2>1. mem'[p].reply = "none" /\ UNCHANGED <<job, credited>>
          /\ mem'[p].outcome = Outcome(mem[p].outcome, mem[p].reply)
      BY <1>7 DEF Records
    <2>2. mem'[p].outcome = "solved" => mem[p].outcome = "solved" \/ mem[p].reply = "accepted"
      BY <2>1 DEF Outcome
    <2> QED
      BY <1>1, <2>1, <2>2 DEF Honest
  <1> QED
    BY <1>2, <1>3, <1>4, <1>5, <1>6, <1>7 DEF Acts

(* The operator's one flag is recorded once.                               *)
LEMMA OneFlagKept ==
  ASSUME Base, Unaware, Truthful, NEW o \in Operator, Acts(o), Tried \subseteq Tried'
  PROVE  OneFlag(o)'
  <1>1. OneFlag(o) /\ Honest(o) /\ o \in Process
    BY DEF Truthful, Process
  <1>2. CASE Idles(o) \/ Confirms(o)
    <2>1. /\ mem'[o].previous = {} /\ mem'[o].outcome = "stalled"
          /\ \A f, g \in mem'[o].todo : f = g
          /\ pc'[o] # "rerecord"
      BY <1>2 DEF Idles, Confirms, Fresh, Blank, Early
    <2> QED
      BY <2>1 DEF OneFlag
  <1>3. CASE Lists(o)
    <2>1. \A e \in mem'[o].previous : ~e.fresh
      BY <1>3 DEF Lists, Listed
    <2> QED
      BY <1>1, <1>3, <2>1 DEF Lists, OneFlag
  <1>4. CASE Proceeds(o) \/ Plans(o) \/ Posts(o) \/ Hears(o)
    BY <1>1, <1>4 DEF Proceeds, Plans, Posts, Hears, SameLocals, OneFlag
  <1>5. CASE Records(o)
    <2> DEFINE f == mem[o].sent
               entry == [flag |-> f, status |-> Recorded(mem[o].row, mem[o].reply), fresh |-> TRUE]
    <2>1. f \in mem[o].todo
      BY <1>1, <1>5 DEF Records, Base, Working, Posting
    <2>2. /\ mem'[o].todo = mem[o].todo \ {f} /\ mem'[o].previous = mem[o].previous \cup {entry}
          /\ mem'[o].outcome = Outcome(mem[o].outcome, mem[o].reply)
          /\ UNCHANGED job /\ pc'[o] = "planning"
      BY <1>5 DEF Records
    <2>3. mem'[o].todo = {}
      BY <1>1, <2>1, <2>2 DEF OneFlag
    <2>4. ~\E e \in mem[o].previous : e.fresh
      BY <1>1, <2>1 DEF OneFlag
    <2>5. mem'[o].outcome = "solved" => <<job[o], f>> \in Tried'
      <3>1. mem[o].outcome # "solved"
        BY <1>1, <2>1 DEF OneFlag
      <3> QED
        BY <1>1, <2>2, <3>1 DEF Outcome, Honest
    <2>6. entry.flag = f
      OBVIOUS
    <2> HIDE DEF entry
    <2> QED
      BY <2>2, <2>3, <2>4, <2>5, <2>6 DEF OneFlag
  <1> QED
    BY <1>2, <1>3, <1>4, <1>5 DEF Acts

(* So Truthful is inductive.                                               *)
LEMMA TruthKept ==
  ASSUME Base, Unaware, Truthful, [Next]_vars
  PROVE  Truthful'
  <1>1. CASE UNCHANGED <<pc, job, mem>>
    BY <1>1, HistoryGrows DEF Truthful, Honest, OneFlag
  <1>2. ASSUME NEW p \in Process, Acts(p) PROVE Truthful'
    <2>1. Actor(p)
      BY <1>2 DEF Acts, Idles, Lists, Proceeds, Plans, Posts, Hears, Records, Confirms
    <2>2. \A q \in Process : q # p => Honest(q)' /\ (q \in Operator => OneFlag(q)')
      BY <2>1, HistoryGrows DEF Actor, Truthful, Honest, OneFlag
    <2> QED
      BY <1>2, <2>2, HistoryGrows, HonestKept, OneFlagKept DEF Truthful, Process
  <1> QED
    BY <1>1, <1>2, StepActs

(* Only what a process was told is written down as solved.                 *)
LEMMA SolvedByOutcome ==
  ASSUME Base, [Next]_vars, NEW c \in Challenge, status'[c] = "solved", status[c] # "solved"
  PROVE  \E p \in Process : job[p] = c /\ mem[p].outcome = "solved"
  <1> DEFINE Told == \E p \in Process : job[p] = c /\ mem[p].outcome = "solved"
  <1>0. status \in [Challenge -> Q!Statuses \cup {"absent"}]
    BY DEF Base, QueueInv, Q!TypeOK
  <1>1. ASSUME NEW w \in Worker, WorkerStep(w) \/ Fail(w) PROVE Told
    <2>1. w \in Process /\ w # NoWorker
      BY Owners
    <2>2. ASSUME ClaimChallenge(w) PROVE FALSE
      BY <1>0, <2>2, ClaimEffect DEF ClaimChallenge
    <2>3. ASSUME ParkSolved(w) PROVE Told
      BY <1>0, <2>1, <2>3 DEF ParkSolved, Q!MarkSolved, Q!SetRow
    <2>4. ASSUME BlockByMode(w) \/ StartSolving(w) \/ Park(w) \/ Fail(w) PROVE FALSE
      <3>1. \E s : s # "solved" /\ Q!SetRow(job[w], s)
        BY <2>4 DEF BlockByMode, StartSolving, Park, Fail, Q!SetStatus
      <3> QED
        BY <1>0, <3>1 DEF Q!SetRow
    <2>5. ASSUME ClaimNothing(w) \/ ReadFlags(w) \/ SolverDone(w) \/ SubmitStep(w) \/ PostsolveDone(w)
          PROVE  FALSE
      BY <2>5 DEF ClaimNothing, Q!ClaimNone, ReadFlags, SolverDone, Q!HeartbeatClaim, PostsolveDone,
                  SubmitStep, ListSubmissions, ReadState, PlanFlag, PostFlag, RecordReply, Record, queueVars
    <2> QED
      BY <1>1, <2>2, <2>3, <2>4, <2>5 DEF WorkerStep
  <1>2. ASSUME NEW o \in Operator, OperatorStep(o) PROVE Told
    <2>1. ASSUME SubmitAccepted(o) PROVE Told
      BY <1>0, <2>1 DEF SubmitAccepted, Q!MarkSolved, Q!SetRow, Process
    <2> QED
      BY <1>2, <2>1 DEF OperatorStep, SubmitFlag, CheckPermission, RecordAccepted, SubmitEnds,
         SubmitStep, ListSubmissions, ReadState, PlanFlag, PostFlag, RecordReply, Record, queueVars
  <1>3. ASSUME NEW d \in Challenge, NEW w \in Worker, NEW s \in Q!Statuses, QueueRelease(w, d, s)
        PROVE  FALSE
    BY <1>0, <1>3 DEF QueueRelease, Q!ReleaseClaim, Q!SetRow
  <1>4. ASSUME NEW d \in Challenge, Ingest(d) PROVE FALSE
    BY <1>0, <1>4 DEF Ingest, Q!Ingested
  <1>5. ASSUME Sync PROVE FALSE
    BY <1>0, <1>5 DEF Sync, Q!UpsertPlatform, Q!SyncStatus
  <1>6. ASSUME NEW d \in Challenge, NEW p \in Priority, QueueAdd(d, p) PROVE FALSE
    BY <1>0, <1>6 DEF QueueAdd, Q!AddManual
  <1>7. ASSUME \/ \E p \in Process : Crash(p)
               \/ \E w \in Worker : Restart(w)
               \/ Arm \/ Disarm \/ UNCHANGED vars
               \/ \E d \in Challenge : LeaseExpires(d)
        PROVE  FALSE
    BY <1>7 DEF Crash, Restart, Arm, Disarm, LeaseExpires, Q!Expire, queueVars, vars
  <1> QED
    BY <1>1, <1>2, <1>3, <1>4, <1>5, <1>6, <1>7 DEF Next, Environment

(* What one step does to the rows of the ledger.                           *)
Wrote(p, f, s) == /\ job[p] \in Challenge /\ f \in Flag
                  /\ submissions' = [submissions EXCEPT ![job[p]][f] = s]

(* A step writes no row, the reply just recorded, or the acceptance again. *)
LEMMA LedgerWrites ==
  ASSUME Base, Unaware, [Next]_vars
  PROVE  \/ UNCHANGED submissions
         \/ \E p \in Process :
              /\ Records(p) /\ pc[p] = "recording"
              /\ Recorded(mem[p].row, mem[p].reply) = mem[p].reply
              /\ Wrote(p, mem[p].sent, mem[p].reply)
         \/ \E o \in Operator, f \in Flag :
              /\ Confirms(o) /\ Wrote(o, f, "accepted")
              /\ \E e \in mem[o].previous : e.fresh /\ e.flag = f
  <1>1. ASSUME NEW p \in Process, Acts(p), ~UNCHANGED submissions PROVE Records(p) \/ Confirms(p)
    BY <1>1 DEF Acts, Idles, Lists, Proceeds, Plans, Posts, Hears, Quiet
  <1>2. ASSUME NEW p \in Process, Records(p), ~UNCHANGED submissions
        PROVE  /\ pc[p] = "recording"
               /\ Recorded(mem[p].row, mem[p].reply) = mem[p].reply
               /\ Wrote(p, mem[p].sent, mem[p].reply)
    <2>1. pc[p] = "recording" /\ mem[p] \in Locals
      BY <1>2 DEF Records, Base, Types
    <2>2. job[p] \in Challenge /\ mem[p].sent \in mem[p].todo /\ mem[p].todo \subseteq Flag
      BY <2>1, AtWork DEF AtRest, Base, Working, Posting, Locals
    <2> QED
      BY <1>2, <2>1, <2>2 DEF Records, Wrote
  <1>3. ASSUME NEW o \in Process, Confirms(o)
        PROVE  o \in Operator /\ \E f \in Flag : /\ Wrote(o, f, "accepted")
                                                 /\ \E e \in mem[o].previous : e.fresh /\ e.flag = f
    <2>1. PICK e \in mem[o].previous :
            e.fresh /\ submissions' = [submissions EXCEPT ![job[o]][e.flag] = "accepted"]
      BY <1>3 DEF Confirms
    <2>2. mem[o].previous \subseteq Entries
      BY DEF Base, Types, Locals
    <2>3. e.flag \in Flag
      BY <2>1, <2>2 DEF Entries
    <2>4. job[o] \in Challenge
      BY <1>3, AtWork DEF Confirms, AtRest, Base
    <2> QED
      BY <1>3, <2>1, <2>3, <2>4 DEF Confirms, Wrote
  <1> QED
    BY <1>1, <1>2, <1>3, StepActs DEF Quiet

(* One row changes.                                                        *)
LEMMA WriteEffect ==
  ASSUME Base, NEW p \in Process, NEW f \in Flag, NEW s, Wrote(p, f, s)
  PROVE  /\ submissions'[job[p]][f] = s
         /\ \A d \in Challenge, g \in Flag :
              d # job[p] \/ g # f => submissions'[d][g] = submissions[d][g]
  BY DEF Base, Types, Wrote

(* What is written was told.                                               *)
LEMMA NothingInventedKept ==
  ASSUME Base, Unaware, Truthful, NothingInvented, [Next]_vars
  PROVE  NothingInvented'
  <1>1. credited \subseteq credited' /\ Tried \subseteq Tried'
    BY HistoryGrows
  <1>2. ASSUME NEW c \in Challenge, status'[c] = "solved" PROVE c \in credited'
    <2>1. CASE status[c] = "solved"
      BY <1>1, <2>1 DEF NothingInvented
    <2>2. CASE status[c] # "solved"
      <3>1. PICK p \in Process : job[p] = c /\ mem[p].outcome = "solved"
        BY <1>2, <2>2, SolvedByOutcome
      <3> QED
        BY <1>1, <3>1 DEF Truthful, Honest
    <2> QED
      BY <2>1, <2>2
  <1> DEFINE True(c, f, s) == /\ s \in {"accepted", "rejected"} => <<c, f>> \in Tried'
                              /\ s = "accepted" => c \in credited'
                              /\ s = "rejected" => f # Correct[c]
  <1>3. ASSUME NEW c \in Challenge, NEW f \in Flag PROVE True(c, f, submissions'[c][f])
    <2>1. CASE submissions'[c][f] = submissions[c][f]
      <3>1. True(c, f, submissions[c][f])
        BY <1>1 DEF NothingInvented, Tried
      <3> QED
        BY <2>1, <3>1
    <2>2. ASSUME submissions'[c][f] # submissions[c][f],
                 NEW p \in Process, Wrote(p, mem[p].sent, mem[p].reply)
          PROVE  True(c, f, submissions'[c][f])
      <3>1. mem[p].sent \in Flag
        BY <2>2 DEF Wrote
      <3>2. c = job[p] /\ f = mem[p].sent /\ submissions'[c][f] = mem[p].reply
        BY <2>2, <3>1, WriteEffect
      <3> QED
        BY <1>1, <3>2 DEF Truthful, Honest
    <2>3. ASSUME submissions'[c][f] # submissions[c][f], NEW o \in Operator, NEW g \in Flag,
                 Confirms(o), Wrote(o, g, "accepted"),
                 \E e \in mem[o].previous : e.fresh /\ e.flag = g
          PROVE  True(c, f, submissions'[c][f])
      <3>1. o \in Process
        BY DEF Process
      <3>2. c = job[o] /\ f = g /\ submissions'[c][f] = "accepted"
        BY <2>3, <3>1, WriteEffect
      <3>3. mem[o].outcome = "solved"
        BY <2>3 DEF Truthful, OneFlag, Confirms
      <3> QED
        BY <1>1, <2>3, <3>1, <3>2, <3>3 DEF Truthful, OneFlag, Honest
    <2> QED
      BY <2>1, <2>2, <2>3, LedgerWrites
  <1>4. \A c \in Challenge, f \in Flag : <<c, f>> \in Tried' => posts'[c][f] > 0
    BY DEF Tried
  <1> HIDE DEF True
  <1>5. ASSUME NEW c \in Challenge, NEW f \in Flag
        PROVE  /\ submissions'[c][f] = "accepted" => c \in credited' /\ posts'[c][f] > 0
               /\ submissions'[c][f] = "rejected" => f # Correct[c] /\ posts'[c][f] > 0
    BY <1>3, <1>4 DEF True
  <1> QED
    BY <1>2, <1>5 DEF NothingInvented
-----------------------------------------------------------------------------
(* No verdict of an uncontended challenge is lost.                         *)

(* A process that nobody contends with knows every verdict there is ...    *)
KnowsVerdicts(p) ==
  pc[p] \in Informed /\ job[p] \notin contended =>
    \A f \in Flag : submissions[job[p]][f] \in Terminal =>
      \E e \in mem[p].previous : e.flag = f /\ e.status = submissions[job[p]][f]

(* ... and the row it is about to write.                                   *)
KnowsRow(p) ==
  pc[p] = "recording" /\ job[p] \notin contended =>
    mem[p].row = submissions[job[p]][mem[p].sent]

(* A verdict that is not in the ledger is on its way there or lost.        *)
Underway(c, f) == \E p \in Process : /\ pc[p] \in Posting /\ job[p] = c
                                     /\ mem[p].sent = f /\ mem[p].reply \in Terminal

(* VerdictsKept in terms of Underway, and inductive with Knowing.          *)
VerdictsUnderway ==
  \A c \in Challenge \ contended, f \in Flag :
    posts[c][f] > 0 /\ submissions[c][f] \notin Terminal
      => <<c, f>> \in unanswered \/ Underway(c, f)

(* All of them do.                                                         *)
Knowing == \A p \in Process : KnowsVerdicts(p) /\ KnowsRow(p)

(* What is excepted stays excepted.                                        *)
LEMMA ContendedGrows ==
  ASSUME Base, Unaware, [Next]_vars
  PROVE  contended \subseteq contended' /\ unanswered \subseteq unanswered'
  BY StepActs DEF Acts, Idles, Lists, Proceeds, Plans, Posts, Hears, Records, Confirms, Quiet

(* Only the one process on an uncontended challenge writes its rows.       *)
LEMMA OnlyWriter ==
  ASSUME Base, Claims, Unaware, [Next]_vars, NEW p \in Process, NEW f \in Flag, NEW s,
         Wrote(p, f, s), NEW q \in Process, q # p, job[q] \notin contended, job[q] # NoJob
  PROVE  \A g \in Flag : submissions'[job[q]][g] = submissions[job[q]][g]
  <1>1. job[q] # job[p] /\ job[q] \in Challenge
    BY Owners DEF Claims, Apart
  <1> QED
    BY <1>1, WriteEffect

(* A process writes only rows of its own challenge.                        *)
LEMMA ActorWrites ==
  ASSUME Base, NEW p \in Process, Acts(p)
  PROVE  \/ UNCHANGED submissions
         \/ \E f \in Flag, s \in RowStatuses : Wrote(p, f, s)
  <1>1. CASE Records(p)
    <2>1. pc[p] = "recording"
      BY <1>1 DEF Records
    <2>2. job[p] \in Challenge /\ mem[p] \in Locals /\ mem[p].sent \in Flag
      BY <2>1, AtWork DEF AtRest, Base, Working, Posting, Types, Locals
    <2>3. mem[p].reply \in RowStatuses
      BY <2>1, <2>2 DEF Base, Working, Locals
    <2> QED
      BY <1>1, <2>2, <2>3 DEF Records, Wrote
  <1>2. CASE Confirms(p)
    <2>1. PICK e \in mem[p].previous :
            e.fresh /\ submissions' = [submissions EXCEPT ![job[p]][e.flag] = "accepted"]
      BY <1>2 DEF Confirms
    <2>2. mem[p].previous \subseteq Entries
      BY DEF Base, Types, Locals
    <2>3. e.flag \in Flag /\ "accepted" \in RowStatuses
      BY <2>1, <2>2 DEF Entries, RowStatuses, Terminal
    <2>4. job[p] \in Challenge
      BY <1>2, AtWork DEF Confirms, AtRest, Base
    <2> QED
      BY <2>1, <2>3, <2>4 DEF Wrote
  <1> QED
    BY <1>1, <1>2 DEF Acts, Idles, Lists, Proceeds, Plans, Posts, Hears, Quiet

(* So the rows of an uncontended challenge change only under its process.  *)
LEMMA OthersRows ==
  ASSUME Base, Claims, Unaware, [Next]_vars, NEW p \in Process, Acts(p),
         NEW q \in Process, q # p, ~AtRest(q), job[q] \notin contended
  PROVE  \A g \in Flag : submissions'[job[q]][g] = submissions[job[q]][g]
  <1>1. job[q] # NoJob
    BY Owners
  <1>2. CASE UNCHANGED submissions
    BY <1>2
  <1>3. ASSUME NEW f \in Flag, NEW s \in RowStatuses, Wrote(p, f, s)
        PROVE  \A g \in Flag : submissions'[job[q]][g] = submissions[job[q]][g]
    BY <1>1, <1>3, OnlyWriter
  <1> QED
    BY <1>2, <1>3, ActorWrites

(* record_submission_attempt: a verdict replaces anything, a plan no       *)
(* verdict.                                                                *)
LEMMA TerminalWins ==
  ASSUME NEW old \in RowStatuses, NEW new \in RowStatuses
  PROVE  /\ new \in Terminal => Recorded(old, new) = new
         /\ Recorded(old, new) = new \/ (Recorded(old, new) = old /\ old \in Terminal)
         /\ Recorded(old, new) = new /\ new \notin Terminal /\ new # "none" => old \notin Terminal
  BY DEF Recorded, RowStatuses, Terminal, NonTerminal

(* The actor still knows every verdict: it read the ledger or wrote the    *)
(* row.                                                                    *)
LEMMA KnowsVerdictsKept ==
  ASSUME Base, Unaware, Knowing, NEW p \in Process, Acts(p)
  PROVE  KnowsVerdicts(p)'
  <1> USE DEF Informed
  <1>1. KnowsVerdicts(p) /\ KnowsRow(p)
    BY DEF Knowing
  <1>2. CASE Idles(p) \/ Confirms(p)
    BY <1>2 DEF Idles, Confirms, KnowsVerdicts, Early
  <1>3. CASE Lists(p)
    <2>1. /\ UNCHANGED <<job, submissions>> /\ mem'[p].previous = Listed(submissions[job[p]])
          /\ pc[p] = "listing"
      BY <1>3 DEF Lists, Quiet
    <2>2. job[p] \in Challenge
      BY <2>1, AtWork DEF AtRest, Base
    <2>3. submissions[job[p]] \in [Flag -> RowStatuses]
      BY <2>2 DEF Base, Types
    <2>4. ASSUME NEW f \in Flag, submissions[job[p]][f] \in Terminal
          PROVE  \E e \in Listed(submissions[job[p]]) : e.flag = f /\ e.status = submissions[job[p]][f]
      <3>1. submissions[job[p]][f] # "none"
        BY <2>4 DEF Terminal
      <3>2. [flag |-> f, status |-> submissions[job[p]][f], fresh |-> FALSE] \in Listed(submissions[job[p]])
        BY <2>3, <2>4, <3>1 DEF Listed
      <3> QED
        BY <3>2
    <2> QED
      BY <2>1, <2>4 DEF KnowsVerdicts
  <1>4. CASE Proceeds(p) \/ Plans(p) \/ Hears(p) \/ Posts(p)
    <2>1. /\ UNCHANGED <<job, submissions>> /\ contended \subseteq contended'
          /\ mem'[p].previous = mem[p].previous
          /\ pc[p] \in Informed
      BY <1>4 DEF Proceeds, Plans, Hears, Posts, SameLocals, Quiet
    <2> QED
      BY <1>1, <2>1 DEF KnowsVerdicts
  <1>5. CASE Records(p)
    <2> DEFINE new == Recorded(mem[p].row, mem[p].reply)
               f == mem[p].sent
               entry == [flag |-> f, status |-> new, fresh |-> TRUE]
    <2>1. /\ UNCHANGED <<job, contended>> /\ pc[p] = "recording"
          /\ submissions' = IF new = mem[p].reply THEN [submissions EXCEPT ![job[p]][f] = new]
                            ELSE submissions
          /\ mem'[p].previous = mem[p].previous \cup {entry}
      BY <1>5 DEF Records
    <2>2. job[p] \in Challenge /\ f \in Flag
      BY <2>1, AtWork DEF AtRest, Base, Working, Posting, Types, Locals
    <2>3. entry.flag = f /\ entry.status = new /\ entry \in mem'[p].previous
      BY <2>1
    <2> HIDE DEF new, f, entry
    <2>4. ASSUME NEW g \in Flag, job[p] \notin contended, submissions'[job[p]][g] \in Terminal
          PROVE  \E e \in mem'[p].previous : e.flag = g /\ e.status = submissions'[job[p]][g]
      <3>1. CASE new = mem[p].reply /\ g = f
        <4>1. submissions'[job[p]][g] = new
          BY <2>1, <2>2, <3>1 DEF Base, Types
        <4> QED
          BY <2>3, <3>1, <4>1
      <3>2. CASE new # mem[p].reply \/ g # f
        <4>1. submissions'[job[p]][g] = submissions[job[p]][g]
          BY <2>1, <2>2, <3>2 DEF Base, Types
        <4>2. PICK e \in mem[p].previous : e.flag = g /\ e.status = submissions[job[p]][g]
          BY <1>1, <2>1, <2>4, <4>1 DEF KnowsVerdicts
        <4> QED
          BY <2>1, <4>1, <4>2
      <3> QED
        BY <3>1, <3>2
    <2> QED
      BY <2>1, <2>4 DEF KnowsVerdicts
  <1> QED
    BY <1>2, <1>3, <1>4, <1>5 DEF Acts

(* It reads the row right before it writes it.                             *)
LEMMA KnowsRowKept ==
  ASSUME Base, Unaware, Knowing, NEW p \in Process, Acts(p)
  PROVE  KnowsRow(p)'
  <1>1. CASE Plans(p)
    BY <1>1 DEF Plans, Quiet, KnowsRow
  <1>2. CASE Hears(p)
    BY <1>2 DEF Hears, Quiet, KnowsRow
  <1> QED
    BY <1>1, <1>2 DEF Acts, Idles, Lists, Proceeds, Posts, Records, Confirms, Early, KnowsRow

(* Knowing is inductive.                                                   *)
LEMMA KnowingKept ==
  ASSUME Base, Claims, Unaware, Knowing, [Next]_vars
  PROVE  Knowing'
  \* Those that do not act keep what they know: nobody else writes their rows.
  <1>1. ASSUME NEW q \in Process, pc'[q] = pc[q], job'[q] = job[q], mem'[q] = mem[q],
               job[q] \notin contended /\ ~AtRest(q) =>
                 \A g \in Flag : submissions'[job[q]][g] = submissions[job[q]][g]
        PROVE  KnowsVerdicts(q)' /\ KnowsRow(q)'
    <2>1. contended \subseteq contended'
      BY ContendedGrows
    <2>2. pc[q] \in Informed => ~AtRest(q)
      BY DEF Informed, AtRest
    <2>3. pc[q] = "recording" => mem[q].sent \in Flag
      BY DEF Base, Working, Posting, Types, Locals
    <2>4. KnowsVerdicts(q)'
      BY <1>1, <2>1, <2>2 DEF Knowing, KnowsVerdicts
    <2>5. KnowsRow(q)'
      BY <1>1, <2>1, <2>2, <2>3 DEF Knowing, KnowsRow, Informed
    <2> QED
      BY <2>4, <2>5
  <1>2. CASE UNCHANGED <<pc, job, mem>> /\ Quiet
    BY <1>1, <1>2 DEF Knowing, Quiet
  <1>3. ASSUME NEW p \in Process, Acts(p) PROVE Knowing'
    <2>1. Actor(p)
      BY <1>3 DEF Acts, Idles, Lists, Proceeds, Plans, Posts, Hears, Records, Confirms
    <2>3. ASSUME NEW q \in Process, q # p PROVE KnowsVerdicts(q)' /\ KnowsRow(q)'
      <3>1. job[q] \notin contended /\ ~AtRest(q) =>
              \A g \in Flag : submissions'[job[q]][g] = submissions[job[q]][g]
        BY <1>3, <2>3, OthersRows
      <3> QED
        BY <1>1, <2>1, <2>3, <3>1 DEF Actor
    <2> QED
      BY <1>3, <2>3, KnowsVerdictsKept, KnowsRowKept DEF Knowing
  <1> QED
    BY <1>2, <1>3, StepActs

(* A verdict leaves its process only for the ledger or for unanswered, and *)
(* the ledger of an uncontended challenge gives none up.                   *)
LEMMA UnderwayKept ==
  ASSUME Base, Claims, Unaware, Knowing, VerdictsUnderway, [Next]_vars
  PROVE  VerdictsUnderway'
  <1> SUFFICES ASSUME NEW c \in Challenge, c \notin contended', NEW f \in Flag,
                      posts'[c][f] > 0, submissions'[c][f] \notin Terminal,
                      <<c, f>> \notin unanswered'
               PROVE  Underway(c, f)'
    BY DEF VerdictsUnderway
  <1>1. c \notin contended /\ <<c, f>> \notin unanswered
    BY ContendedGrows
  <1>2. CASE UNCHANGED <<pc, job, mem>> /\ Quiet
    BY <1>1, <1>2 DEF Quiet, VerdictsUnderway, Underway
  <1>3. ASSUME NEW p \in Process, Acts(p) PROVE Underway(c, f)'
    <2>1. Actor(p)
      BY <1>3 DEF Acts, Idles, Lists, Proceeds, Plans, Posts, Hears, Records, Confirms
    \* A witness other than the actor stays one.
    <2>2. ASSUME NEW q \in Process, q # p, pc[q] \in Posting, job[q] = c, mem[q].sent = f,
                 mem[q].reply \in Terminal
          PROVE  Underway(c, f)'
      BY <2>1, <2>2 DEF Actor, Underway
    <2>3. CASE Idles(p) \/ Lists(p) \/ Proceeds(p) \/ Plans(p) \/ Hears(p)
      <3>0. Quiet
        BY <2>3 DEF Idles, Lists, Proceeds, Plans, Hears
      <3>1. Underway(c, f)
        BY <1>1, <3>0 DEF Quiet, VerdictsUnderway
      <3>2. PICK q \in Process : /\ pc[q] \in Posting /\ job[q] = c /\ mem[q].sent = f
                                 /\ mem[q].reply \in Terminal
        BY <3>1 DEF Underway
      <3>3. CASE q = p
        <4>1. ~Idles(p)
          BY <3>2, <3>3 DEF Idles
        <4>2. Hears(p)
          BY <2>3, <3>2, <3>3, <4>1 DEF Lists, Proceeds, Plans, Posting
        <4>3. /\ pc'[p] = "recording" /\ job'[p] = c /\ mem'[p].sent = f
              /\ mem'[p].reply \in Terminal
          BY <3>2, <3>3, <4>2 DEF Hears, Terminal
        <4> QED
          BY <4>3 DEF Underway, Posting
      <3> QED
        BY <2>2, <3>2, <3>3
    <2>4. CASE Posts(p)
      <3>1. PICK g \in mem[p].todo : \E r \in Replies(job[p], g) :
               /\ mem'[p].sent = g /\ mem'[p].reply = r
               /\ unanswered' = IF r = "unknown" THEN unanswered \cup {<<job[p], g>>}
                                  ELSE unanswered
               /\ posts' = [posts EXCEPT ![job[p]][g] = IF @ < 2 THEN @ + 1 ELSE 2]
        BY <2>4 DEF Posts
      <3>2. pc'[p] = "posted" /\ UNCHANGED <<submissions, job>> /\ pc[p] = "planning"
        BY <2>4 DEF Posts
      <3>3. CASE job[p] = c /\ g = f
        <4>1. mem'[p].reply \in Terminal
          BY <3>1, <3>3 DEF Replies, Terminal
        <4> QED
          BY <3>1, <3>2, <3>3, <4>1 DEF Underway, Posting
      <3>4. CASE job[p] # c \/ g # f
        <4>1. posts'[c][f] = posts[c][f]
          BY <3>1, <3>4 DEF Base, Types
        <4>2. Underway(c, f)
          BY <1>1, <3>2, <4>1 DEF VerdictsUnderway
        <4>3. PICK q \in Process : /\ pc[q] \in Posting /\ job[q] = c /\ mem[q].sent = f
                                   /\ mem[q].reply \in Terminal
          BY <4>2 DEF Underway
        <4> QED
          BY <2>2, <3>2, <4>3 DEF Posting
      <3> QED
        BY <3>3, <3>4
    <2>5. CASE Records(p)
      <3>1. pc[p] = "recording" /\ UNCHANGED posts
        BY <2>5 DEF Records
      <3>2. job[p] \in Challenge /\ mem[p] \in Locals /\ mem[p].sent \in Flag
        BY <3>1, AtWork DEF AtRest, Base, Working, Posting, Types, Locals
      <3>3. mem[p].reply \in RowStatuses \ {"none"} /\ mem[p].row \in RowStatuses
        BY <3>1, <3>2 DEF Base, Working, Posting, Locals
      <3> DEFINE new == Recorded(mem[p].row, mem[p].reply)
      <3>4. submissions' = IF new = mem[p].reply
                           THEN [submissions EXCEPT ![job[p]][mem[p].sent] = new] ELSE submissions
        BY <2>5 DEF Records
      <3>5. submissions[c][f] \notin Terminal
        <4>1. CASE job[p] = c /\ mem[p].sent = f /\ new = mem[p].reply
          <5>1. submissions'[c][f] = mem[p].reply
            BY <3>2, <3>4, <4>1 DEF Base, Types
          <5>2. mem[p].row \notin Terminal
            BY <3>3, <4>1, <5>1, TerminalWins
          <5> QED
            BY <1>1, <3>1, <4>1, <5>2 DEF Knowing, KnowsRow
        <4>2. CASE job[p] # c \/ mem[p].sent # f \/ new # mem[p].reply
          BY <3>2, <3>4, <4>2 DEF Base, Types
        <4> QED
          BY <4>1, <4>2
      <3>6. PICK q \in Process : /\ pc[q] \in Posting /\ job[q] = c /\ mem[q].sent = f
                                 /\ mem[q].reply \in Terminal
        BY <1>1, <3>1, <3>5 DEF VerdictsUnderway, Underway
      <3>7. CASE q = p
        <4>1. new = mem[p].reply
          BY <3>3, <3>6, <3>7, TerminalWins
        <4>2. submissions'[c][f] = mem[p].reply
          BY <3>2, <3>4, <3>6, <3>7, <4>1 DEF Base, Types
        <4> QED
          BY <3>6, <3>7, <4>2
      <3> QED
        BY <2>2, <3>6, <3>7
    <2>6. CASE Confirms(p)
      <3>1. PICK e \in mem[p].previous :
              e.fresh /\ submissions' = [submissions EXCEPT ![job[p]][e.flag] = "accepted"]
        BY <2>6 DEF Confirms
      <3>2. submissions[c][f] \notin Terminal
        <4>1. mem[p].previous \subseteq Entries
          BY DEF Base, Types, Locals
        <4>2. e.flag \in Flag
          BY <3>1, <4>1 DEF Entries
        <4>3. job[p] \in Challenge
          BY <2>6, AtWork DEF Confirms, AtRest, Base
        <4>4. CASE job[p] = c /\ e.flag = f
          <5>1. submissions'[c][f] = "accepted"
            BY <3>1, <4>2, <4>3, <4>4 DEF Base, Types
          <5> QED
            BY <5>1 DEF Terminal
        <4>5. CASE job[p] # c \/ e.flag # f
          <5>1. submissions'[c][f] = submissions[c][f]
            BY <3>1, <4>2, <4>3, <4>5 DEF Base, Types
          <5> QED
            BY <5>1
        <4> QED
          BY <4>4, <4>5
      <3>3. PICK q \in Process : /\ pc[q] \in Posting /\ job[q] = c /\ mem[q].sent = f
                                 /\ mem[q].reply \in Terminal
        BY <1>1, <2>6, <3>2 DEF VerdictsUnderway, Underway, Confirms
      <3> QED
        BY <2>2, <2>6, <3>3 DEF Confirms, Posting
    <2> QED
      BY <1>3, <2>3, <2>4, <2>5, <2>6 DEF Acts
  <1> QED
    BY <1>2, <1>3, StepActs

(* A flag whose verdict is known, on its way or lost is not posted again.  *)
LEMMA NoDuplicateKept ==
  ASSUME Base, Claims, Unaware, Knowing, VerdictsUnderway, NoDuplicatePost, [Next]_vars
  PROVE  NoDuplicatePost'
  <1> SUFFICES ASSUME NEW c \in Challenge, NEW f \in Flag, Policy.dedupe, posts'[c][f] > 1,
                      c \notin contended'
               PROVE  <<c, f>> \in unanswered'
    BY DEF NoDuplicatePost
  <1>1. c \notin contended /\ unanswered \subseteq unanswered'
    BY ContendedGrows
  <1>2. CASE posts'[c][f] = posts[c][f]
    BY <1>1, <1>2 DEF NoDuplicatePost
  <1>3. CASE posts'[c][f] # posts[c][f]
    <2>1. PICK p \in Process : Posts(p)
      BY <1>3, StepActs DEF Acts, Idles, Lists, Proceeds, Plans, Hears, Records, Confirms, Quiet
    <2>2. PICK g \in mem[p].todo, cooling \in BOOLEAN :
             /\ Decision(p, g, cooling)
             /\ posts' = [posts EXCEPT ![job[p]][g] = IF @ < 2 THEN @ + 1 ELSE 2]
      BY <2>1 DEF Posts
    <2>3. pc[p] = "planning"
      BY <2>1 DEF Posts
    <2>4. job[p] = c /\ g = f
      BY <1>3, <2>2 DEF Base, Types
    <2>5. posts[c][f] \in 0..2
      BY DEF Base, Types
    <2>6. posts[c][f] > 0
      <3>1. posts'[c][f] = IF posts[c][f] < 2 THEN posts[c][f] + 1 ELSE 2
        BY <2>2, <2>4 DEF Base, Types
      <3> QED
        BY <2>5, <3>1
    <2>7. submissions[c][f] \notin Terminal
      <3>1. ~Duplicate(Policy, f, mem[p].previous)
        BY <2>2, <2>4 DEF Decision, ShouldSubmit
      <3>2. KnowsVerdicts(p)
        BY DEF Knowing
      <3> QED
        BY <1>1, <2>3, <2>4, <3>1, <3>2 DEF KnowsVerdicts, Informed, Duplicate
    <2>8. ~Underway(c, f)
      <3>1. ASSUME NEW q \in Process, pc[q] \in Posting, job[q] = c PROVE FALSE
        <4>1. q # p
          BY <2>3, <3>1 DEF Posting
        <4> QED
          BY <1>1, <2>4, <3>1, <4>1, Owners DEF Claims, Apart
      <3> QED
        BY <3>1 DEF Underway
    <2> QED
      BY <1>1, <2>6, <2>7, <2>8 DEF VerdictsUnderway
  <1> QED
    BY <1>2, <1>3
-----------------------------------------------------------------------------
(* Never more rejected flags than the policy's limit.                      *)
Rejected(c) == {f \in Flag : submissions[c][f] = "rejected"}

(* Cardinalities are of finite sets.                                       *)
FiniteLists == \A p \in Process : IsFiniteSet(mem[p].previous)

(* There is room for the rejection a process is about to write.            *)
RoomLeft(p) ==
  /\ Policy.maxWrong >= 0 /\ pc[p] \in Posting
  /\ mem[p].reply = "rejected" /\ job[p] \notin contended
  => Cardinality(Rejected(job[p])) < Policy.maxWrong

(* Together they are inductive, given Knowing.                             *)
Limited == WrongLimitKept /\ FiniteLists /\ \A p \in Process : RoomLeft(p)

(* The ledger of one challenge is finite, and so is the list made of it.   *)
LEMMA ListedFinite ==
  ASSUME NEW rows \in [Flag -> RowStatuses]
  PROVE  IsFiniteSet(Listed(rows))
  <1> DEFINE S == {g \in Flag : rows[g] # "none"}
             entry == [g \in S |-> [flag |-> g, status |-> rows[g], fresh |-> FALSE]]
  <1>1. IsFiniteSet(S)
    BY FS_Subset
  <1>2. entry \in [S -> Listed(rows)]
    BY DEF Listed
  <1>3. \A t \in Listed(rows) : \E g \in S : entry[g] = t
    BY DEF Listed
  <1>4. entry \in Surjection(S, Listed(rows))
    BY <1>2, <1>3 DEF Surjection
  <1> QED
    BY <1>1, <1>4, FS_Surjection

(* The rejections of a challenge and its subsets can be counted.           *)
LEMMA RejectedFinite ==
  ASSUME NEW c
  PROVE  /\ IsFiniteSet(Rejected(c)) /\ Cardinality(Rejected(c)) \in Nat
         /\ \A T : T \subseteq Rejected(c) =>
              IsFiniteSet(T) /\ Cardinality(T) \in Nat /\ Cardinality(T) <= Cardinality(Rejected(c))
  <1>1. IsFiniteSet(Rejected(c))
    BY FS_Subset DEF Rejected
  <1> QED
    BY <1>1, FS_Subset, FS_CardinalityType

(* A list that knows every verdict counts every rejection.                 *)
LEMMA ListCountsRejected ==
  ASSUME NEW c, NEW previous, IsFiniteSet(previous),
         \A f \in Flag : submissions[c][f] \in Terminal =>
           \E e \in previous : e.flag = f /\ e.status = submissions[c][f]
  PROVE  /\ Cardinality(Wrong(previous)) \in Nat
         /\ Cardinality(Rejected(c)) <= Cardinality(Wrong(previous))
  <1>1. IsFiniteSet(Wrong(previous))
    BY FS_Subset DEF Wrong
  <1> DEFINE entry == [f \in Rejected(c) |-> CHOOSE e \in Wrong(previous) : e.flag = f]
  <1>2. \A f \in Rejected(c) : \E e \in Wrong(previous) : e.flag = f
    BY DEF Rejected, Wrong, Terminal
  <1>3. \A f \in Rejected(c) : entry[f] \in Wrong(previous) /\ entry[f].flag = f
    BY <1>2
  <1>4. entry \in [Rejected(c) -> Wrong(previous)]
    BY <1>3
  <1> HIDE DEF entry
  <1>5. entry \in Injection(Rejected(c), Wrong(previous))
    BY <1>3, <1>4 DEF Injection, IsInjective
  <1> QED
    BY <1>1, <1>5, FS_Injection, FS_CardinalityType

(* Lists grow one entry at a time.                                         *)
LEMMA FiniteListsKept ==
  ASSUME Base, Unaware, FiniteLists, [Next]_vars
  PROVE  FiniteLists'
  <1>1. CASE UNCHANGED <<pc, job, mem>>
    BY <1>1 DEF FiniteLists
  <1>2. ASSUME NEW p \in Process, Acts(p) PROVE FiniteLists'
    <2>1. Actor(p)
      BY <1>2 DEF Acts, Idles, Lists, Proceeds, Plans, Posts, Hears, Records, Confirms
    <2>2. IsFiniteSet(mem[p].previous)
      BY DEF FiniteLists
    <2>3. CASE Idles(p) \/ Confirms(p)
      <3>1. mem'[p].previous = {}
        BY <2>3 DEF Idles, Confirms, Fresh, Blank
      <3> QED
        BY <2>1, <3>1, FS_EmptySet DEF FiniteLists, Actor
    <2>4. CASE Lists(p)
      <3>1. job[p] \in Challenge
        BY <2>4, AtWork DEF Lists, AtRest, Base
      <3>2. submissions[job[p]] \in [Flag -> RowStatuses]
        BY <3>1 DEF Base, Types
      <3>3. IsFiniteSet(mem'[p].previous)
        BY <2>4, <3>2, ListedFinite DEF Lists
      <3> QED
        BY <2>1, <3>3 DEF FiniteLists, Actor
    <2>5. CASE Records(p)
      <3>1. PICK e : mem'[p].previous = mem[p].previous \cup {e}
        BY <2>5 DEF Records
      <3>2. IsFiniteSet(mem[p].previous \cup {e})
        BY <2>2, FS_AddElement
      <3>3. IsFiniteSet(mem'[p].previous)
        BY <3>1, <3>2, Zenon
      <3> QED
        BY <2>1, <3>3 DEF FiniteLists, Actor
    <2>6. CASE Proceeds(p) \/ Plans(p) \/ Posts(p) \/ Hears(p)
      <3>1. mem'[p].previous = mem[p].previous
        BY <2>6 DEF Proceeds, Plans, Posts, Hears, SameLocals
      <3> QED
        BY <2>1, <2>2, <3>1 DEF FiniteLists, Actor
    <2> QED
      BY <1>2, <2>3, <2>4, <2>5, <2>6 DEF Acts
  <1> QED
    BY <1>1, <1>2, StepActs

(* should_submit lets a post pass only below the limit, and nobody else    *)
(* writes a rejection before it is recorded.                               *)
LEMMA RoomKept ==
  ASSUME Base, Claims, Unaware, Knowing, Limited, [Next]_vars
  PROVE  \A p \in Process : RoomLeft(p)'
  <1>0. contended \subseteq contended'
    BY ContendedGrows
  <1>1. CASE UNCHANGED <<pc, job, mem>> /\ Quiet
    BY <1>0, <1>1 DEF Limited, RoomLeft, Rejected, Quiet
  <1>2. ASSUME NEW p \in Process, Acts(p), NEW q \in Process, q # p PROVE RoomLeft(q)'
    <2>1. pc'[q] = pc[q] /\ job'[q] = job[q] /\ mem'[q] = mem[q]
      BY <1>2 DEF Acts, Idles, Lists, Proceeds, Plans, Posts, Hears, Records, Confirms, Actor
    <2>2. SUFFICES ASSUME pc[q] \in Posting, job[q] \notin contended
                   PROVE  RoomLeft(q)'
      BY <1>0, <2>1 DEF RoomLeft
    <2>3. ~AtRest(q)
      BY <2>2 DEF Posting, AtRest
    <2>4. \A g \in Flag : submissions'[job[q]][g] = submissions[job[q]][g]
      BY <1>2, <2>2, <2>3, OthersRows
    <2>5. {g \in Flag : submissions'[job[q]][g] = "rejected"} = Rejected(job[q])
      BY <2>4 DEF Rejected
    <2>6. Rejected(job[q])' = Rejected(job[q])
      BY <2>1, <2>5 DEF Rejected
    <2>7. RoomLeft(q)
      BY DEF Limited
    <2> QED
      BY <1>0, <2>1, <2>2, <2>6, <2>7 DEF RoomLeft
  <1>3. ASSUME NEW p \in Process, Acts(p) PROVE RoomLeft(p)'
    <2>1. RoomLeft(p) /\ KnowsVerdicts(p) /\ IsFiniteSet(mem[p].previous)
      BY DEF Limited, FiniteLists, Knowing
    <2>2. CASE Posts(p)
      <3>1. PICK f \in mem[p].todo, cooling \in BOOLEAN : Decision(p, f, cooling)
        BY <2>2 DEF Posts
      <3>2. ~WrongLimitReached(Policy, mem[p].previous)
        BY <3>1 DEF Decision, ShouldSubmit
      <3>3. SUFFICES ASSUME Policy.maxWrong >= 0, job[p] \notin contended
                     PROVE  Cardinality(Rejected(job[p])) < Policy.maxWrong
        BY <2>2 DEF Posts, RoomLeft, Rejected
      <3>4. pc[p] \in Informed
        BY <2>2 DEF Posts, Informed
      <3>5. /\ Cardinality(Wrong(mem[p].previous)) \in Nat
            /\ Cardinality(Rejected(job[p])) <= Cardinality(Wrong(mem[p].previous))
        BY <2>1, <3>3, <3>4, ListCountsRejected DEF KnowsVerdicts
      <3>6. Cardinality(Wrong(mem[p].previous)) < Policy.maxWrong
        BY <3>2, <3>3, <3>5 DEF WrongLimitReached, PolicyType
      <3> QED
        BY <3>5, <3>6, RejectedFinite DEF PolicyType
    <2>3. CASE Hears(p)
      BY <1>0, <2>1, <2>3 DEF Hears, Quiet, RoomLeft, Rejected, Posting
    <2>4. CASE Plans(p)
      BY <2>4 DEF Plans, RoomLeft, NonTerminal
    <2> QED
      BY <1>3, <2>2, <2>3, <2>4
      DEF Acts, Idles, Lists, Proceeds, Records, Confirms, Early, Posting, RoomLeft
  <1> QED
    BY <1>1, <1>2, <1>3, StepActs

(* A rejection is recorded only into room that was left.                   *)
LEMMA LimitKept ==
  ASSUME Base, Claims, Unaware, Knowing, Limited, [Next]_vars
  PROVE  WrongLimitKept'
  <1> SUFFICES ASSUME NEW c \in Challenge, Policy.maxWrong >= 0, c \notin contended'
               PROVE  Cardinality(Rejected(c)') <= Policy.maxWrong
    BY DEF WrongLimitKept, Rejected
  <1>1. c \notin contended
    BY ContendedGrows
  <1>2. Cardinality(Rejected(c)) <= Policy.maxWrong /\ Policy.maxWrong \in Int
    BY <1>1 DEF Limited, WrongLimitKept, Rejected, PolicyType
  <1>3. CASE Rejected(c)' \subseteq Rejected(c)
    BY <1>2, <1>3, RejectedFinite
  <1>4. ASSUME NEW p \in Process, pc[p] = "recording", Wrote(p, mem[p].sent, mem[p].reply)
        PROVE  Cardinality(Rejected(c)') <= Policy.maxWrong
    <2>1. mem[p].sent \in Flag /\ job[p] \in Challenge
      BY <1>4 DEF Wrote
    <2>2. CASE job[p] # c \/ mem[p].reply # "rejected"
      <3>1. Rejected(c)' \subseteq Rejected(c)
        BY <1>4, <2>1, <2>2, WriteEffect DEF Rejected
      <3> QED
        BY <1>3, <3>1
    <2>3. CASE job[p] = c /\ mem[p].reply = "rejected"
      <3>1. Cardinality(Rejected(c)) < Policy.maxWrong
        BY <1>1, <1>4, <2>3 DEF Limited, RoomLeft, Posting
      <3>2. Rejected(c)' = Rejected(c) \cup {mem[p].sent}
        BY <1>4, <2>1, <2>3, WriteEffect DEF Rejected
      <3>3. /\ IsFiniteSet(Rejected(c)) /\ Cardinality(Rejected(c)) \in Nat
            /\ Cardinality(Rejected(c)') <= Cardinality(Rejected(c)) + 1
            /\ Cardinality(Rejected(c)') \in Nat
        <4>1. IsFiniteSet(Rejected(c)) /\ Cardinality(Rejected(c)) \in Nat
          BY RejectedFinite
        <4>2. /\ IsFiniteSet(Rejected(c) \cup {mem[p].sent})
              /\ Cardinality(Rejected(c) \cup {mem[p].sent})
                   = IF mem[p].sent \in Rejected(c) THEN Cardinality(Rejected(c))
                     ELSE Cardinality(Rejected(c)) + 1
          BY <4>1, FS_AddElement
        <4> QED
          BY <3>2, <4>1, <4>2
      <3> QED
        BY <1>2, <3>1, <3>3
    <2> QED
      BY <2>2, <2>3
  <1>5. ASSUME NEW o \in Process, NEW f \in Flag, Wrote(o, f, "accepted")
        PROVE  Rejected(c)' \subseteq Rejected(c)
    BY <1>5, WriteEffect DEF Rejected, Wrote
  <1>6. CASE UNCHANGED submissions
    BY <1>3, <1>6 DEF Rejected
  <1> QED
    BY <1>3, <1>4, <1>5, <1>6, LedgerWrites DEF Process

(* The three parts together.                                               *)
LEMMA LimitedKept ==
  ASSUME Base, Claims, Unaware, Knowing, Limited, [Next]_vars
  PROVE  Limited'
  BY FiniteListsKept, RoomKept, LimitKept DEF Limited
-----------------------------------------------------------------------------
(* The inductive invariant of the ledger, on top of that of the claims.    *)
Ledger == /\ Unaware /\ Truthful /\ NothingInvented
          /\ Knowing /\ VerdictsUnderway /\ NoDuplicatePost /\ Limited

(* Nothing is known, posted or recorded to start with.                     *)
LEMMA InitialLedger == Init => Ledger
  <1> SUFFICES ASSUME Init PROVE Ledger
    OBVIOUS
  <1>1. \A p \in Process : mem[p] = Blank /\ job[p] = NoJob /\ pc[p] \in {"idle", "off"}
    BY DEF Init, Rest
  <1>2. /\ Blank.previous = {} /\ Blank.outcome = "stalled" /\ Blank.reply = "none"
        /\ Blank.todo = {}
    BY DEF Blank
  <1>3. \A c \in Challenge, f \in Flag : posts[c][f] = 0 /\ submissions[c][f] = "none"
    BY DEF Init
  <1>4. \A c \in Challenge : status[c] # "solved"
    BY DEF Init
  <1>5. Unaware /\ Truthful
    BY <1>1, <1>2 DEF Unaware, Fresh, Truthful, Honest, OneFlag, Process
  <1>6. NothingInvented
    BY <1>3, <1>4 DEF NothingInvented
  <1>7. Knowing /\ VerdictsUnderway /\ NoDuplicatePost
    BY <1>1, <1>3 DEF Knowing, KnowsVerdicts, KnowsRow, Informed, VerdictsUnderway, NoDuplicatePost
  <1>8. WrongLimitKept
    <2>1. \A c \in Challenge : {f \in Flag : submissions[c][f] = "rejected"} = {}
      BY <1>3
    <2> QED
      BY <2>1, FS_EmptySet DEF WrongLimitKept, PolicyType
  <1>9. FiniteLists /\ \A p \in Process : RoomLeft(p)
    BY <1>1, <1>2, FS_EmptySet DEF FiniteLists, RoomLeft, Posting
  <1> QED
    BY <1>5, <1>6, <1>7, <1>8, <1>9 DEF Ledger, Limited

(* Every conjunct rests on the ones before it: what a process did not look *)
(* up it does not know, what it knows it does not post again, and what is  *)
(* under way is not lost.                                                  *)
THEOREM LedgerInvariant == Spec => [](Base /\ Claims /\ Ledger)
  <1>1. Base /\ Claims /\ Ledger /\ [Next]_vars => (Base /\ Claims /\ Ledger)'
    BY BaseKept, ClaimsKept, UnawareKept, TruthKept, NothingInventedKept, KnowingKept, UnderwayKept,
       NoDuplicateKept, LimitedKept DEF Ledger
  <1> QED
    BY <1>1, InitialClaims, InitialLedger, PTL DEF Spec

(* NothingInvented: the database claims no more than the platform granted. *)
THEOREM LedgerIsTrue == Spec => []NothingInvented
  <1>1. Ledger => NothingInvented
    BY DEF Ledger
  <1> QED
    BY <1>1, LedgerInvariant, PTL

(* VerdictsKept: a judged flag keeps its verdict unless processes contend. *)
THEOREM LedgerKeepsVerdicts == Spec => []VerdictsKept
  <1>1. Ledger => VerdictsKept
    BY DEF Ledger, VerdictsUnderway, Underway, VerdictsKept, Posting
  <1> QED
    BY <1>1, LedgerInvariant, PTL

(* NoDuplicatePost: over all runs, crashes and ingests no flag goes to the *)
(* platform twice where the policy detects duplicates.                     *)
THEOREM NothingPostedTwice == Spec => []NoDuplicatePost
  <1>1. Ledger => NoDuplicatePost
    BY DEF Ledger
  <1> QED
    BY <1>1, LedgerInvariant, PTL

(* WrongLimitKept: the ledger of an uncontended challenge never holds more *)
(* rejected flags than max_wrong_per_challenge.                            *)
THEOREM LimitHolds == Spec => []WrongLimitKept
  <1>1. Ledger => WrongLimitKept
    BY DEF Ledger, Limited
  <1> QED
    BY <1>1, LedgerInvariant, PTL
-----------------------------------------------------------------------------
(* The model of MCLedger runs the workers and the papers beside them; it   *)
(* looks no further once a challenge is contended.                         *)
LEMMA LedgerRunsTheParts == LedgerSpec => Spec /\ FinishSpec
  <1>1. LedgerInit => Init /\ FinishInit
    BY DEF LedgerInit
  <1>2. [LedgerNext]_<<part, vars, finishVars>> => [Next]_vars /\ [FinishNext]_finishVars
    BY DEF LedgerNext
  <1> QED
    BY <1>1, <1>2, PTL DEF LedgerSpec, Spec, FinishSpec

(* What is written down while contests are worked is right, whoever writes *)
(* papers meanwhile: the ledger keeps verdicts, no flag is posted twice,   *)
(* and the limit of wrong flags holds.                                     *)
THEOREM LedgerHolds == LedgerSpec => [](VerdictsKept /\ NoDuplicatePost /\ WrongLimitKept)
  BY LedgerRunsTheParts, LedgerKeepsVerdicts, NothingPostedTwice, LimitHolds, PTL
=============================================================================
