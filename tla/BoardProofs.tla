---------------------------- MODULE BoardProofs ----------------------------
(***************************************************************************)
(* Proofs about OperatorBoard for every set of sessions, challenges, flags *)
(* and commands, and any number of them.  IInv is inductive: it gives type *)
(* correctness, the agreement of lock files and sessions, and that no open *)
(* challenge has two workers.  Memory, on top of it, follows what a        *)
(* command knew when it began to what it writes back and whom it lets      *)
(* claim; Posted, on top of both, the posts to the verdicts on file.       *)
(* RInv, at the end, is the invariant of the rehearsals (Rehearsal), which *)
(* share no variable with the board.                                       *)
(***************************************************************************)
EXTENDS OperatorBoard, Rehearsal, TLAPS

(* What a command is doing follows from where it is; the release of every  *)
(* lock of a challenge comes after the ledger entry that justifies it.     *)
Control ==
  \A a \in Agent :
    /\ mem[a].cmd \in {"stall", "external", "submit"} => mem[a].target \in Challenge
    /\ pc[a] = "payload" => mem[a].target \in Challenge
    /\ pc[a] = "read" => mem[a].cmd \in CommandNames
    /\ pc[a] \in {"ledgers", "locks"} => mem[a].cmd \in Claiming \cup {"status", "sync"}
    /\ pc[a] \in {"ask", "ledgers again", "locks again"} => mem[a].cmd = "sync"
    /\ pc[a] = "append" => mem[a].cmd \in {"stall", "external"}
    /\ pc[a] \in {"decide", "post", "accepted", "rejected", "credit"} => mem[a].cmd = "submit"
    /\ pc[a] = "unlock" =>
         /\ mem[a].cmd \in {"release", "stall", "external", "submit", "sync"}
         /\ mem[a].cmd = "external" => mem[a].target \in external
         /\ mem[a].cmd = "submit" => mem[a].target \in solved

(* A row that shows a verdict from elsewhere shows a true one, of E (the   *)
(* external ledger) or C (the platform's credit).                          *)
JustifiedBy(b, E, C) == \A c \in Challenge : /\ b[c].st = "external_solved" => c \in E
                                             /\ b[c].plat => c \in C
RowsJustified == /\ JustifiedBy(board, external, credited)
                 /\ \A a \in Agent : JustifiedBy(mem[a].board, external, credited)

(* O_EXCL: one lock file per challenge, besides those of duplicates.       *)
OneLock == \A k, l \in locks : ~k.dup /\ ~l.dup /\ k.ch = l.ch => k.by = l.by

(* An empty lock file is one whose creator is about to write its payload,  *)
(* or died before it could.                                                *)
Unwritten(a) == [ch |-> mem[a].target, by |-> a, dup |-> mem[a].cmd = "race", full |-> FALSE]
Opened ==
  /\ \A a \in Agent : pc[a] = "payload" => Unwritten(a) \in locks
  /\ \A l \in locks : ~l.full => \/ <<l.by, l.ch>> \in orphaned
                                 \/ pc[l.by] = "payload" /\ l = Unwritten(l.by)

IInv == TypeOK /\ Control /\ RowsJustified /\ OneLock /\ Opened /\ LocksMatchWork

USE OperatorBoardAssumption
-----------------------------------------------------------------------------
(* Operators on rows and boards.                                           *)

LEMMA BlankType ==
  /\ Blank \in Locals
  /\ \A E, C : JustifiedBy(Blank.board, E, C)
  BY DEF Blank, Locals, DefaultBoard, Missing, Boards, Row, Statuses, JustifiedBy

LEMMA RestampType ==
  ASSUME NEW b \in Boards, NEW st \in [Challenge -> Statuses]
  PROVE  /\ Restamped(b, st) \in Boards
         /\ \A c \in Challenge : /\ Restamped(b, st)[c].plat = b[c].plat
                                 /\ Restamped(b, st)[c].st \in {b[c].st, st[c]}
  BY DEF Restamped, Boards, Row

LEMMA VerdictStamp ==
  ASSUME NEW b \in Boards, JustifiedBy(b, external, credited)
  PROVE  LET n == Restamped(b, [c \in Challenge |-> VerdictOn(b[c], c)])
         IN n \in Boards /\ JustifiedBy(n, external, credited)
  <1> DEFINE st == [c \in Challenge |-> VerdictOn(b[c], c)]
  <1>1. st \in [Challenge -> Statuses]
    BY DEF VerdictOn, Statuses, Boards, Row
  <1>2. \A c \in Challenge : st[c] = "external_solved" => c \in external
    BY DEF VerdictOn, JustifiedBy
  <1> HIDE DEF st
  <1> QED
    BY <1>1, <1>2, RestampType DEF JustifiedBy, st

LEMMA LockStamp ==
  ASSUME NEW b \in Boards, JustifiedBy(b, external, credited), NEW m
  PROVE  LET n == Restamped(b, [c \in Challenge |-> MarkOn(b[c], c, m)])
         IN n \in Boards /\ JustifiedBy(n, external, credited)
  <1> DEFINE st == [c \in Challenge |-> MarkOn(b[c], c, m)]
  <1>1. st \in [Challenge -> Statuses]
    BY DEF MarkOn, Statuses, Boards, Row
  <1>2. \A c \in Challenge : st[c] = "external_solved" => c \in external
    BY DEF MarkOn, JustifiedBy
  <1> HIDE DEF st
  <1> QED
    BY <1>1, <1>2, RestampType DEF JustifiedBy, st

LEMMA ReopenType ==
  ASSUME NEW b \in Boards, JustifiedBy(b, external, credited), NEW m, NEW a
  PROVE  Reopen(b, m, a) \in Boards /\ JustifiedBy(Reopen(b, m, a), external, credited)
  BY DEF Reopen, Boards, Row, Statuses, JustifiedBy

LEMMA SetRowType ==
  ASSUME TypeOK, RowsJustified, NEW a \in Agent, mem[a].target \in Challenge,
         NEW st \in Statuses
  PROVE  /\ SetRow(a, st) \in Boards
         /\ \A c \in Challenge :
              /\ SetRow(a, st)[c].plat = mem[a].board[c].plat
              /\ \/ SetRow(a, st)[c].st = mem[a].board[c].st
                 \/ c = mem[a].target /\ SetRow(a, st)[c].st = st
  <1>1. mem[a].board \in Boards
    BY DEF TypeOK, Locals
  <1> QED
    BY <1>1 DEF SetRow, Boards, Row

LEMMA MergedType ==
  ASSUME NEW b \in Boards, JustifiedBy(b, external, credited), NEW L \in SUBSET Challenge,
         NEW S \in SUBSET Challenge, S = {} \/ credited \subseteq S
  PROVE  LET n == [c \in Challenge |-> Merged(b[c], c, L, S)]
         IN /\ n \in Boards
            /\ JustifiedBy(n, external, credited \cup S)
  <1>1. ASSUME NEW c \in Challenge
        PROVE  /\ Merged(b[c], c, L, S) \in Row
               /\ Merged(b[c], c, L, S).st = "external_solved" => c \in external
               /\ Merged(b[c], c, L, S).plat => c \in credited \cup S
    <2>1. b[c] \in Row
      BY DEF Boards
    <2>2. CASE c \in L
      BY <2>1, <2>2 DEF Merged, Row, Statuses, JustifiedBy
    <2>3. CASE c \notin L /\ b[c].st # "absent" /\ c \in S
      BY <2>1, <2>3 DEF Merged, Row, Statuses, JustifiedBy
    <2>4. CASE c \notin L /\ ~(b[c].st # "absent" /\ c \in S)
      BY <2>1, <2>4 DEF Merged, JustifiedBy
    <2> QED
      BY <2>2, <2>3, <2>4
  <1> QED
    BY <1>1 DEF Boards, JustifiedBy
-----------------------------------------------------------------------------
(* Facts shared by the steps that leave some of the state alone.           *)

LEMMA LocksKept ==
  ASSUME OneLock, LocksMatchWork, UNCHANGED <<locks, holding>>,
         orphaned \subseteq orphaned', solved \subseteq solved',
         external \subseteq external', credited \subseteq credited'
  PROVE  OneLock' /\ LocksMatchWork'
  BY DEF OneLock, LocksMatchWork, Decided

LEMMA OpenedKept ==
  ASSUME TypeOK, Opened, locks' = locks, orphaned \subseteq orphaned', NEW a \in Agent,
         pc[a] # "payload", pc'[a] # "payload",
         \A o \in Agent \ {a} : pc'[o] = pc[o] /\ mem'[o] = mem[o]
  PROVE  Opened'
  BY DEF TypeOK, Lock, Opened, Unwritten

LEMMA RowsKept ==
  ASSUME RowsJustified, NEW a \in Agent, board' = board,
         external \subseteq external', credited \subseteq credited',
         \A o \in Agent \ {a} : mem'[o] = mem[o],
         JustifiedBy(mem'[a].board, external', credited')
  PROVE  RowsJustified'
  BY DEF RowsJustified, JustifiedBy

LEMMA ControlKept ==
  ASSUME Control, NEW a \in Agent, TypeOK, external \subseteq external', solved \subseteq solved',
         \A o \in Agent \ {a} : pc'[o] = pc[o] /\ mem'[o] = mem[o],
         /\ mem'[a].cmd \in {"stall", "external", "submit"} => mem'[a].target \in Challenge
         /\ pc'[a] = "payload" => mem'[a].target \in Challenge
         /\ pc'[a] = "read" => mem'[a].cmd \in CommandNames
         /\ pc'[a] \in {"ledgers", "locks"} => mem'[a].cmd \in Claiming \cup {"status", "sync"}
         /\ pc'[a] \in {"ask", "ledgers again", "locks again"} => mem'[a].cmd = "sync"
         /\ pc'[a] = "append" => mem'[a].cmd \in {"stall", "external"}
         /\ pc'[a] \in {"decide", "post", "accepted", "rejected", "credit"} => mem'[a].cmd = "submit"
         /\ pc'[a] = "unlock" =>
              /\ mem'[a].cmd \in {"release", "stall", "external", "submit", "sync"}
              /\ mem'[a].cmd = "external" => mem'[a].target \in external'
              /\ mem'[a].cmd = "submit" => mem'[a].target \in solved'
  PROVE  Control'
  BY DEF Control

(* A command that ends leaves blank locals.                                *)
LEMMA Leaving ==
  ASSUME TypeOK, Control, RowsJustified, NEW a \in Agent, Leave(a), board' = board,
         external \subseteq external', credited \subseteq credited', solved \subseteq solved'
  PROVE  /\ pc' \in [Agent -> Labels] /\ mem' \in [Agent -> Locals]
         /\ Control' /\ RowsJustified'
  <1>1. mem \in [Agent -> Locals] /\ pc \in [Agent -> Labels]
    BY DEF TypeOK
  <1>2. mem' = [mem EXCEPT ![a] = Blank] /\ pc' = [pc EXCEPT ![a] = "idle"]
    BY DEF Leave, Goto
  <1>3. pc' \in [Agent -> Labels] /\ mem' \in [Agent -> Locals]
    BY <1>1, <1>2, BlankType DEF Labels
  <1>4. Blank.cmd = "none"
    BY DEF Blank
  <1>5. Control'
    BY <1>1, <1>2, <1>4, ControlKept
  <1>6. RowsJustified'
    BY <1>1, <1>2, BlankType, RowsKept
  <1> QED
    BY <1>3, <1>5, <1>6
-----------------------------------------------------------------------------
LEMMA InitEstablishesInv == Init => IInv
  <1> SUFFICES ASSUME Init PROVE IInv
    OBVIOUS
  <1>1. TypeOK
    BY BlankType DEF Init, TypeOK, Boards, Row, Statuses, Fresh, Labels
  <1>2. Control
    BY DEF Init, Control, Blank
  <1>3. RowsJustified
    BY BlankType DEF Init, RowsJustified, JustifiedBy, Fresh
  <1>4. OneLock /\ Opened /\ LocksMatchWork
    BY DEF Init, OneLock, Opened, LocksMatchWork
  <1> QED
    BY <1>1, <1>2, <1>3, <1>4 DEF IInv

(* Each action of a session keeps the invariant.                           *)

LEMMA BeginKeepsInv ==
  ASSUME IInv, NEW a \in Agent, NEW cmd \in CommandNames, NEW c \in Challenge \cup {Nobody},
         NEW f \in Flag, Begin(a, cmd, c, f)
  PROVE  IInv'
  <1> DEFINE m == [Blank EXCEPT !.cmd = cmd, !.target = c, !.flag = f,
                                !.known = solved \cup external]
  <1>1. mem \in [Agent -> Locals] /\ pc \in [Agent -> Labels]
    BY DEF IInv, TypeOK
  <1>2. m \in Locals /\ m.cmd = cmd /\ m.target = c /\ m.board = Blank.board
    <2>1. solved \cup external \subseteq Challenge
      BY DEF IInv, TypeOK
    <2> QED
      BY <2>1, BlankType DEF Locals, Blank
  <1>3. mem' = [mem EXCEPT ![a] = m]
    BY DEF Begin
  <1> HIDE DEF m
  <1>4. pc' = [pc EXCEPT ![a] = IF cmd = "release" THEN "unlock" ELSE "read"]
    BY DEF Begin, Goto
  <1>5. TypeOK'
    <2>1. mem' \in [Agent -> Locals] /\ pc' \in [Agent -> Labels]
      BY <1>1, <1>2, <1>3, <1>4 DEF Labels
    <2>2. UNCHANGED <<board, blank, locks, solved, external, stalled, judged, holding>>
      BY DEF Begin, file, ledgers
    <2> QED
      BY <2>1, <2>2 DEF IInv, TypeOK, Boards
  <1>6. Control'
    <2>1. cmd \in {"stall", "external", "submit"} => c \in Challenge
      BY DEF Begin, Unnamed
    <2> QED
      BY <1>1, <1>2, <1>3, <1>4, <2>1, ControlKept DEF Begin, IInv, file, ledgers
  <1>7. RowsJustified'
    <2>1. external' = external /\ credited' = credited /\ board' = board
      BY DEF Begin, file, ledgers
    <2>2. JustifiedBy(mem'[a].board, external', credited')
      BY <1>1, <1>2, <1>3, BlankType
    <2> QED
      BY <1>1, <1>3, <2>1, <2>2, RowsKept DEF IInv
  <1>8. OneLock' /\ LocksMatchWork'
    BY LocksKept DEF Begin, IInv, file, ledgers
  <1>9. Opened'
    BY <1>1, <1>3, <1>4, OpenedKept DEF Begin, IInv
  <1> QED
    BY <1>5, <1>6, <1>7, <1>8, <1>9 DEF IInv

(* Most steps change only the session's locals and let the ledgers grow.   *)
LEMMA LocalStep ==
  ASSUME IInv, NEW a \in Agent, UNCHANGED <<board, blank, locks, holding, orphaned>>,
         solved \subseteq solved', solved' \subseteq Challenge,
         external \subseteq external', external' \subseteq Challenge,
         stalled' \subseteq Challenge, judged' \subseteq Challenge \X Flag,
         credited \subseteq credited',
         NEW l \in Labels \ {"payload"}, pc[a] # "payload", pc' = [pc EXCEPT ![a] = l],
         mem' \in [Agent -> Locals], \A o \in Agent \ {a} : mem'[o] = mem[o],
         JustifiedBy(mem'[a].board, external', credited'),
         /\ mem'[a].cmd \in {"stall", "external", "submit"} => mem'[a].target \in Challenge
         /\ l = "read" => mem'[a].cmd \in CommandNames
         /\ l \in {"ledgers", "locks"} => mem'[a].cmd \in Claiming \cup {"status", "sync"}
         /\ l \in {"ask", "ledgers again", "locks again"} => mem'[a].cmd = "sync"
         /\ l = "append" => mem'[a].cmd \in {"stall", "external"}
         /\ l \in {"decide", "post", "accepted", "rejected", "credit"} => mem'[a].cmd = "submit"
         /\ l = "unlock" =>
              /\ mem'[a].cmd \in {"release", "stall", "external", "submit", "sync"}
              /\ mem'[a].cmd = "external" => mem'[a].target \in external'
              /\ mem'[a].cmd = "submit" => mem'[a].target \in solved'
  PROVE  IInv'
  <1>1. pc \in [Agent -> Labels]
    BY DEF IInv, TypeOK
  <1>2. TypeOK'
    BY <1>1 DEF IInv, TypeOK, Boards
  <1>3. Control'
    <2>1. pc'[a] = l /\ \A o \in Agent \ {a} : pc'[o] = pc[o]
      BY <1>1
    <2> QED
      BY <2>1, ControlKept DEF IInv
  <1>4. RowsJustified'
    BY RowsKept DEF IInv
  <1>5. OneLock' /\ LocksMatchWork'
    BY LocksKept DEF IInv
  <1>6. Opened'
    BY <1>1, OpenedKept DEF IInv
  <1> QED
    BY <1>2, <1>3, <1>4, <1>5, <1>6 DEF IInv

(* So does the end of a command.                                           *)
LEMMA LocalEnd ==
  ASSUME IInv, NEW a \in Agent, pc[a] # "payload", Leave(a), UNCHANGED <<file, locks, holding, orphaned>>,
         UNCHANGED <<solved, external, stalled>>, judged' \subseteq Challenge \X Flag,
         credited \subseteq credited'
  PROVE  IInv'
  <1>1. /\ pc' \in [Agent -> Labels] /\ mem' \in [Agent -> Locals]
        /\ Control' /\ RowsJustified'
    BY Leaving DEF IInv, file
  <1>2. OneLock' /\ LocksMatchWork'
    BY LocksKept DEF IInv
  <1>3. pc \in [Agent -> Labels] /\ mem \in [Agent -> Locals]
    BY DEF IInv, TypeOK
  <1>4. Opened'
    BY <1>3, OpenedKept DEF IInv, Leave, Goto
  <1> QED
    BY <1>1, <1>2, <1>4 DEF IInv, TypeOK, file, Boards

LEMMA ReadBoardKeepsInv ==
  ASSUME IInv, NEW a \in Agent, ReadBoard(a)
  PROVE  IInv'
  <1>1. /\ mem \in [Agent -> Locals] /\ board \in Boards
        /\ judged \subseteq Challenge \X Flag /\ solved \subseteq Challenge
        /\ external \subseteq Challenge /\ stalled \subseteq Challenge
    BY DEF IInv, TypeOK
  <1>2. UNCHANGED <<file, locks, ledgers, holding, ghosts, orphaned, begun>> /\ pc[a] = "read"
    BY DEF ReadBoard
  <1>3. CASE Leave(a)
    BY <1>1, <1>2, <1>3, LocalEnd DEF ledgers, ghosts
  <1>4. CASE /\ Goto(a, AfterRead(mem[a].cmd))
             /\ mem' = [mem EXCEPT ![a].board =
                          IF mem[a].cmd = "release" THEN Reopen(board, mem[a], a) ELSE board]
    <2> DEFINE b == IF mem[a].cmd = "release" THEN Reopen(board, mem[a], a) ELSE board
               l == AfterRead(mem[a].cmd)
    <2>1. b \in Boards /\ JustifiedBy(b, external, credited)
      BY <1>1, ReopenType DEF IInv, RowsJustified
    <2>2. /\ mem[a].cmd \in CommandNames
          /\ mem[a].cmd \in {"stall", "external", "submit"} => mem[a].target \in Challenge
      BY <1>2 DEF IInv, Control
    <2>3. /\ l \in {"ledgers", "truncate", "append", "decide"}
          /\ l = "ledgers" => mem[a].cmd \in Claiming \cup {"status", "sync"}
          /\ l = "append" => mem[a].cmd \in {"stall", "external"}
          /\ l = "decide" => mem[a].cmd = "submit"
      BY <2>2 DEF AfterRead, CommandNames, Claiming
    <2>4. pc' = [pc EXCEPT ![a] = l]
      BY <1>4 DEF Goto
    <2> HIDE DEF b, l
    <2>5. mem' = [mem EXCEPT ![a].board = b]
      BY <1>4 DEF b
    <2>6. /\ mem' \in [Agent -> Locals] /\ \A o \in Agent \ {a} : mem'[o] = mem[o]
          /\ mem'[a].board = b /\ mem'[a].cmd = mem[a].cmd /\ mem'[a].target = mem[a].target
      BY <1>1, <2>1, <2>5 DEF Locals
    <2>7. l \in Labels \ {"payload"} /\ pc[a] # "payload"
      BY <1>2, <2>3 DEF Labels
    <2>8. UNCHANGED <<board, blank, locks, holding, orphaned, solved, external, stalled,
                      judged, credited>>
      BY <1>2 DEF file, ledgers, ghosts
    <2> QED
      BY <1>1, <2>1, <2>2, <2>3, <2>4, <2>6, <2>7, <2>8, LocalStep
  <1> QED
    BY <1>3, <1>4 DEF ReadBoard

LEMMA ReadLedgersKeepsInv ==
  ASSUME IInv, NEW a \in Agent, ReadLedgers(a)
  PROVE  IInv'
  <1> DEFINE b == Restamped(mem[a].board, [c \in Challenge |-> VerdictOn(mem[a].board[c], c)])
             s == Settled(mem[a].board)
             l == IF pc[a] = "ledgers" THEN "locks" ELSE "locks again"
  <1>1. /\ mem \in [Agent -> Locals] /\ judged \subseteq Challenge \X Flag
        /\ solved \subseteq Challenge /\ external \subseteq Challenge
        /\ stalled \subseteq Challenge
    BY DEF IInv, TypeOK
  <1>2. b \in Boards /\ JustifiedBy(b, external, credited)
    BY <1>1, VerdictStamp DEF IInv, RowsJustified, Locals
  <1>3. s \in SUBSET Challenge /\ stalled \in SUBSET Challenge
    BY <1>1 DEF Settled
  <1>4. UNCHANGED <<board, blank, locks, holding, orphaned, solved, external, stalled,
                    judged, credited>>
    BY DEF ReadLedgers, file, ledgers, ghosts
  <1>5. /\ pc[a] \in {"ledgers", "ledgers again"} /\ pc' = [pc EXCEPT ![a] = l]
        /\ mem' = [mem EXCEPT ![a].board = b, ![a].settled = s, ![a].stalls = stalled]
    BY DEF ReadLedgers, Goto
  <1>6. /\ l \in {"locks", "locks again"}
        /\ l = "locks" => mem[a].cmd \in Claiming \cup {"status", "sync"}
        /\ l = "locks again" => mem[a].cmd = "sync"
        /\ mem[a].cmd \in {"stall", "external", "submit"} => mem[a].target \in Challenge
    BY <1>5 DEF IInv, Control
  <1> HIDE DEF b, s, l
  <1>7. /\ mem' \in [Agent -> Locals] /\ \A o \in Agent \ {a} : mem'[o] = mem[o]
        /\ mem'[a].board = b /\ mem'[a].cmd = mem[a].cmd /\ mem'[a].target = mem[a].target
    <2> DEFINE m == [mem[a] EXCEPT !.board = b, !.settled = s, !.stalls = stalled]
    <2>1. /\ m \in Locals /\ m.board = b
          /\ m.cmd = mem[a].cmd /\ m.target = mem[a].target
      <3>1. mem[a] \in Locals
        BY <1>1
      <3>2. b \in Boards
        BY <1>2
      <3> QED
        BY <3>1, <3>2, <1>3 DEF Locals
    <2>2. mem' = [mem EXCEPT ![a] = m]
      BY <1>1, <1>5
    <2> QED
      BY <1>1, <2>1, <2>2
  <1>8. l \in Labels \ {"payload"} /\ pc[a] # "payload"
    BY <1>5, <1>6 DEF Labels
  <1> QED
    BY <1>1, <1>2, <1>4, <1>5, <1>6, <1>7, <1>8, LocalStep

LEMMA ReadLocksKeepsInv ==
  ASSUME IInv, NEW a \in Agent, ReadLocks(a)
  PROVE  IInv'
  <1> DEFINE b == Restamped(mem[a].board, [c \in Challenge |-> MarkOn(mem[a].board[c], c, mem[a])])
             l == AfterLocks(a)
  <1>1. /\ mem \in [Agent -> Locals] /\ judged \subseteq Challenge \X Flag
        /\ solved \subseteq Challenge /\ external \subseteq Challenge
        /\ stalled \subseteq Challenge
    BY DEF IInv, TypeOK
  <1>2. b \in Boards /\ JustifiedBy(b, external, credited)
    BY <1>1, LockStamp DEF IInv, RowsJustified, Locals
  <1>3. UNCHANGED <<board, blank, locks, holding, orphaned, solved, external, stalled,
                    judged, credited>>
    BY DEF ReadLocks, file, ledgers, ghosts
  <1>4. /\ pc[a] \in {"locks", "locks again"} /\ pc' = [pc EXCEPT ![a] = l]
        /\ mem' = [mem EXCEPT ![a].board = b, ![a].settled = {}, ![a].stalls = {}]
    BY DEF ReadLocks, Goto
  <1>5. /\ pc[a] = "locks" => mem[a].cmd \in Claiming \cup {"status", "sync"}
        /\ pc[a] = "locks again" => mem[a].cmd = "sync"
        /\ mem[a].cmd \in {"stall", "external", "submit"} => mem[a].target \in Challenge
    BY DEF IInv, Control
  <1>6. /\ l \in {"unlock", "ask", "truncate", "choose"}
        /\ l \in {"unlock", "ask"} => mem[a].cmd = "sync"
    BY <1>4, <1>5 DEF AfterLocks, Claiming
  <1> HIDE DEF b, l
  <1>7. /\ mem' \in [Agent -> Locals] /\ \A o \in Agent \ {a} : mem'[o] = mem[o]
        /\ mem'[a].board = b /\ mem'[a].cmd = mem[a].cmd /\ mem'[a].target = mem[a].target
    <2> DEFINE m == [mem[a] EXCEPT !.board = b, !.settled = {}, !.stalls = {}]
    <2>1. /\ m \in Locals /\ m.board = b
          /\ m.cmd = mem[a].cmd /\ m.target = mem[a].target
      BY <1>1, <1>2 DEF Locals
    <2>2. mem' = [mem EXCEPT ![a] = m]
      BY <1>1, <1>4
    <2> QED
      BY <1>1, <2>1, <2>2
  <1>8. l \in Labels \ {"payload"} /\ pc[a] # "payload"
    BY <1>4, <1>6 DEF Labels
  <1> QED
    BY <1>1, <1>2, <1>3, <1>4, <1>5, <1>6, <1>7, <1>8, LocalStep

LEMMA RefusalsKeepInv ==
  ASSUME IInv, NEW a \in Agent, ClaimRefused(a) \/ SubmitRefused(a)
  PROVE  IInv'
  <1>1. /\ pc[a] # "payload" /\ Leave(a)
        /\ UNCHANGED <<file, locks, holding, orphaned, solved, external, stalled, judged, credited>>
    BY DEF ClaimRefused, SubmitRefused, ledgers, ghosts
  <1>2. judged' \subseteq Challenge \X Flag
    BY <1>1 DEF IInv, TypeOK
  <1> QED
    BY <1>1, <1>2, LocalEnd DEF file

(* After a post there is a verdict, or the session was left without one.   *)
LEMMA PostAnswers ==
  ASSUME NEW a \in Agent, Post(a)
  PROVE  \/ /\ UNCHANGED <<mem, unanswered>>
            /\ \E l \in {"accepted", "rejected"} : Goto(a, l)
         \/ Leave(a) /\ unanswered' = unanswered \cup {<<mem[a].target, mem[a].flag>>}
  <1>1. \A c, f : SaysOf(c, f) \subseteq {"accepted", "rejected"}
    BY DEF SaysOf
  <1> QED
    BY <1>1, Zenon DEF Post

LEMMA SubmitStepsKeepInv ==
  ASSUME IInv, NEW a \in Agent, Decide(a) \/ Post(a) \/ RecordVerdict(a)
  PROVE  IInv'
  <1>1. /\ mem \in [Agent -> Locals] /\ judged \subseteq Challenge \X Flag
        /\ solved \subseteq Challenge /\ external \subseteq Challenge
        /\ stalled \subseteq Challenge
    BY DEF IInv, TypeOK
  <1>2. /\ UNCHANGED <<board, blank, locks, holding, orphaned, solved, external, stalled>>
        /\ credited \subseteq credited'
        /\ pc[a] \in {"decide", "post", "accepted", "rejected"}
    BY DEF Decide, Post, RecordVerdict, file, ledgers, ghosts
  <1>3. mem[a].cmd = "submit" /\ mem[a].target \in Challenge
    BY <1>2 DEF IInv, Control
  <1>4. judged' \subseteq Challenge \X Flag
    BY <1>1, <1>3 DEF Decide, Post, RecordVerdict, ledgers, Locals
  <1>5. CASE Leave(a)
    BY <1>2, <1>4, <1>5, LocalEnd DEF file
  <1>6. CASE mem' = mem /\ \E l \in {"post", "accepted", "rejected", "credit"} : Goto(a, l)
    <2> PICK l \in {"post", "accepted", "rejected", "credit"} : Goto(a, l)
      BY <1>6
    <2>1. JustifiedBy(mem'[a].board, external', credited')
      BY <1>2, <1>6 DEF IInv, RowsJustified, JustifiedBy
    <2>2. l \in Labels \ {"payload"} /\ pc' = [pc EXCEPT ![a] = l]
      BY DEF Labels, Goto
    <2> QED
      BY <1>1, <1>2, <1>3, <1>4, <1>6, <2>1, <2>2, LocalStep
  <1>7. Post(a) => Leave(a) \/ (mem' = mem /\ \E l \in {"accepted", "rejected"} : Goto(a, l))
    BY PostAnswers
  <1> QED
    BY <1>5, <1>6, <1>7 DEF Decide, RecordVerdict

(* The ledger entry that justifies the release that follows it.            *)
LEMMA LedgerStepsKeepInv ==
  ASSUME IInv, NEW a \in Agent, AppendLedger(a) \/ RecordSolved(a)
  PROVE  IInv'
  <1> DEFINE t == mem[a].target
             st == CASE mem[a].cmd = "stall" -> "stalled"
                     [] mem[a].cmd = "external" -> "external_solved"
                     [] mem[a].cmd = "submit" -> "solved"
             b == SetRow(a, st)
  <1>1. /\ mem \in [Agent -> Locals] /\ judged \subseteq Challenge \X Flag
        /\ solved \subseteq Challenge /\ external \subseteq Challenge
        /\ stalled \subseteq Challenge
    BY DEF IInv, TypeOK
  <1>2. /\ UNCHANGED <<board, blank, locks, holding, orphaned, judged, credited>>
        /\ pc' = [pc EXCEPT ![a] = "unlock"]
        /\ pc[a] \in {"append", "credit"}
    BY DEF AppendLedger, RecordSolved, file, ghosts, Goto
  <1>3. /\ mem[a].cmd \in {"stall", "external", "submit"} /\ t \in Challenge
        /\ pc[a] = "append" => mem[a].cmd # "submit"
        /\ pc[a] = "credit" => mem[a].cmd = "submit"
    BY <1>2 DEF IInv, Control
  <1>4. mem' = [mem EXCEPT ![a].board = b]
    BY <1>3 DEF AppendLedger, RecordSolved
  <1>5. /\ solved \subseteq solved' /\ solved' \subseteq Challenge
        /\ external \subseteq external' /\ external' \subseteq Challenge
        /\ stalled' \subseteq Challenge
        /\ mem[a].cmd = "external" => t \in external'
        /\ mem[a].cmd = "submit" => t \in solved'
    BY <1>1, <1>3 DEF AppendLedger, RecordSolved
  <1>6. st \in Statuses /\ (st = "external_solved" => mem[a].cmd = "external")
    BY <1>3 DEF Statuses
  <1> HIDE DEF st
  <1>7. b \in Boards /\ JustifiedBy(b, external', credited')
    <2>1. /\ b \in Boards
          /\ \A c \in Challenge : /\ b[c].plat = mem[a].board[c].plat
                                  /\ b[c].st = mem[a].board[c].st \/ (c = t /\ b[c].st = st)
      BY <1>3, <1>6, SetRowType DEF IInv
    <2>2. JustifiedBy(mem[a].board, external, credited)
      BY DEF IInv, RowsJustified
    <2> QED
      BY <1>2, <1>5, <1>6, <2>1, <2>2 DEF JustifiedBy
  <1> HIDE DEF t, b
  <1>8. /\ mem' \in [Agent -> Locals] /\ \A o \in Agent \ {a} : mem'[o] = mem[o]
        /\ mem'[a].board = b /\ mem'[a].cmd = mem[a].cmd /\ mem'[a].target = t
    BY <1>1, <1>4, <1>7 DEF Locals, t
  <1>9. "unlock" \in Labels \ {"payload"}
    BY DEF Labels
  <1> QED
    BY <1>1, <1>2, <1>3, <1>5, <1>7, <1>8, <1>9, LocalStep

LEMMA AskPlatformKeepsInv ==
  ASSUME IInv, NEW a \in Agent, AskPlatform(a)
  PROVE  IInv'
  <1>1. /\ mem \in [Agent -> Locals] /\ judged \subseteq Challenge \X Flag
        /\ solved \subseteq Challenge /\ external \subseteq Challenge
        /\ stalled \subseteq Challenge
    BY DEF IInv, TypeOK
  <1>2. PICK L \in SUBSET Challenge, S \in SUBSET Challenge :
          /\ S = {} \/ credited \subseteq S
          /\ credited' = credited \cup S
          /\ mem' = [mem EXCEPT ![a].board =
                       [c \in Challenge |-> Merged(mem[a].board[c], c, L, S)]]
    BY DEF AskPlatform
  <1> DEFINE b == [c \in Challenge |-> Merged(mem[a].board[c], c, L, S)]
  <1>3. /\ UNCHANGED <<board, blank, locks, holding, orphaned, solved, external, stalled, judged>>
        /\ pc' = [pc EXCEPT ![a] = "ledgers again"] /\ pc[a] = "ask"
    BY DEF AskPlatform, file, ledgers, Goto
  <1>4. mem[a].cmd = "sync"
    BY <1>3 DEF IInv, Control
  <1>5. b \in Boards /\ JustifiedBy(b, external', credited')
    <2>1. mem[a].board \in Boards /\ JustifiedBy(mem[a].board, external, credited)
      BY <1>1 DEF IInv, RowsJustified, Locals
    <2> QED
      BY <1>2, <1>3, <2>1, MergedType
  <1> HIDE DEF b
  <1>6. mem' = [mem EXCEPT ![a].board = b]
    BY <1>2 DEF b
  <1>7. /\ mem' \in [Agent -> Locals] /\ \A o \in Agent \ {a} : mem'[o] = mem[o]
        /\ mem'[a].board = b /\ mem'[a].cmd = mem[a].cmd
    BY <1>1, <1>5, <1>6 DEF Locals
  <1>8. "ledgers again" \in Labels \ {"payload"}
    BY DEF Labels
  <1> QED
    BY <1>1, <1>2, <1>3, <1>4, <1>5, <1>7, <1>8, LocalStep
-----------------------------------------------------------------------------
(* Steps on the lock files.                                                *)

LEMMA TakeLockKeepsInv ==
  ASSUME IInv, NEW a \in Agent, TakeLock(a)
  PROVE  IInv'
  <1> DEFINE dup == mem[a].cmd = "race"
  <1>1. /\ mem \in [Agent -> Locals] /\ pc \in [Agent -> Labels] /\ locks \subseteq Lock
        /\ holding \in [Agent -> SUBSET Challenge]
    BY DEF IInv, TypeOK
  <1>2. PICK c \in Candidates(a) :
          /\ dup \/ ~Taken(c)
          /\ locks' = locks \cup {[ch |-> c, by |-> a, dup |-> dup, full |-> FALSE]}
          /\ holding' = [holding EXCEPT ![a] = IF dup THEN @ ELSE @ \cup {c}]
          /\ mem' = [mem EXCEPT ![a].target = c]
    BY DEF TakeLock
  <1> DEFINE n == [ch |-> c, by |-> a, dup |-> dup, full |-> FALSE]
  <1>3. c \in Challenge
    BY DEF Candidates
  <1>4. /\ UNCHANGED <<board, blank, solved, external, stalled, judged, credited, orphaned>>
        /\ pc' = [pc EXCEPT ![a] = "payload"] /\ pc[a] = "choose"
    BY DEF TakeLock, file, ledgers, ghosts, Goto
  <1>5. /\ mem' \in [Agent -> Locals] /\ \A o \in Agent \ {a} : mem'[o] = mem[o]
        /\ mem'[a].board = mem[a].board /\ mem'[a].cmd = mem[a].cmd /\ mem'[a].target = c
    BY <1>1, <1>2, <1>3 DEF Locals
  <1>6. n \in Lock /\ n.ch = c /\ n.by = a /\ n.dup = dup /\ n.full = FALSE
    BY <1>3 DEF Lock
  <1>7. TypeOK'
    <2>1. pc' \in [Agent -> Labels]
      BY <1>1, <1>4 DEF Labels
    <2>2. holding' \in [Agent -> SUBSET Challenge]
      BY <1>1, <1>2, <1>3
    <2> QED
      BY <1>1, <1>2, <1>4, <1>5, <1>6, <2>1, <2>2 DEF IInv, TypeOK, Boards
  <1>8. Control'
    BY <1>1, <1>3, <1>4, <1>5, ControlKept DEF IInv
  <1>9. RowsJustified'
    <2>1. JustifiedBy(mem'[a].board, external', credited')
      BY <1>4, <1>5 DEF IInv, RowsJustified
    <2> QED
      BY <1>4, <1>5, <2>1, RowsKept DEF IInv
  <1>10. OneLock'
    <2>1. ~n.dup => \A l \in locks : ~l.dup => l.ch # c
      BY <1>2, <1>6 DEF Taken
    <2> HIDE DEF n
    <2> QED
      BY <1>2, <1>6, <2>1 DEF IInv, OneLock, n
  <1>11. Opened'
    <2>1. Unwritten(a)' = n
      BY <1>5 DEF Unwritten
    <2>2. \A o \in Agent \ {a} : Unwritten(o)' = Unwritten(o) /\ pc'[o] = pc[o]
      BY <1>1, <1>4, <1>5 DEF Unwritten
    <2>3. \A l \in locks : l.by \in Agent
      BY <1>1 DEF Lock
    <2>4. \A l \in locks : ~l.full => \/ <<l.by, l.ch>> \in orphaned
                                      \/ l.by # a /\ pc[l.by] = "payload" /\ l = Unwritten(l.by)
      BY <1>4 DEF IInv, Opened
    <2>5. pc'[a] = "payload"
      BY <1>1, <1>4
    <2> HIDE DEF n
    <2>6. \A o \in Agent : pc'[o] = "payload" => Unwritten(o)' \in locks'
      BY <1>2, <2>1, <2>2 DEF IInv, Opened, n
    <2>7. \A l \in locks' : ~l.full => \/ <<l.by, l.ch>> \in orphaned'
                                       \/ pc'[l.by] = "payload" /\ l = Unwritten(l.by)'
      BY <1>2, <1>4, <1>6, <2>1, <2>2, <2>3, <2>4, <2>5 DEF n
    <2> QED
      BY <2>6, <2>7 DEF Opened
  <1>12. LocksMatchWork'
    <2>1. ASSUME NEW o \in Agent, NEW d \in holding'[o]
          PROVE  Decided(d)' \/ \E l \in locks' : l.ch = d /\ l.by = o /\ ~l.dup
      <3>1. CASE d \in holding[o]
        BY <1>2, <1>4, <3>1 DEF IInv, LocksMatchWork, Decided
      <3>2. CASE d \notin holding[o]
        BY <1>1, <1>2, <1>6, <3>2
      <3> QED
        BY <3>1, <3>2
    <2>2. ASSUME NEW l \in locks'
          PROVE  l.dup \/ l.ch \in holding'[l.by] \/ <<l.by, l.ch>> \in orphaned'
      <3>1. CASE l \in locks
        BY <1>1, <1>2, <1>4, <3>1 DEF IInv, LocksMatchWork, Lock
      <3>2. CASE l = n
        BY <1>1, <1>2, <1>6, <3>2
      <3> QED
        BY <1>2, <3>1, <3>2
    <2> QED
      BY <2>1, <2>2 DEF LocksMatchWork
  <1> QED
    BY <1>7, <1>8, <1>9, <1>10, <1>11, <1>12 DEF IInv

LEMMA WritePayloadKeepsInv ==
  ASSUME IInv, NEW a \in Agent, WritePayload(a)
  PROVE  IInv'
  <1> DEFINE c == mem[a].target
             u == Unwritten(a)
             n == [u EXCEPT !.full = TRUE]
             b == [mem[a].board EXCEPT ![c].st = "claimed", ![c].by = a]
  <1>1. /\ mem \in [Agent -> Locals] /\ pc \in [Agent -> Labels] /\ locks \subseteq Lock
        /\ holding \in [Agent -> SUBSET Challenge]
    BY DEF IInv, TypeOK
  <1>2. /\ UNCHANGED <<board, blank, solved, external, stalled, judged, credited, orphaned, holding>>
        /\ pc' = [pc EXCEPT ![a] = "truncate"] /\ pc[a] = "payload"
        /\ locks' = (locks \ {u}) \cup {n}
        /\ mem' = [mem EXCEPT ![a].board = b]
    <2>1. mem' = [mem EXCEPT ![a].board = b]
      BY <1>1 DEF WritePayload
    <2> QED
      BY <2>1 DEF WritePayload, file, ledgers, ghosts, Goto, Unwritten
  <1>3. c \in Challenge /\ u \in locks
    BY <1>2 DEF IInv, Control, Opened
  <1>4. /\ n \in Lock /\ n.ch = c /\ n.by = a /\ n.dup = u.dup /\ n.full = TRUE
        /\ u.ch = c /\ u.by = a
    BY <1>3 DEF Lock, Unwritten
  <1>5. b \in Boards /\ JustifiedBy(b, external, credited)
    <2>1. mem[a].board \in Boards /\ JustifiedBy(mem[a].board, external, credited)
      BY <1>1 DEF IInv, RowsJustified, Locals
    <2> QED
      BY <1>3, <2>1 DEF Boards, Row, Statuses, JustifiedBy
  <1> HIDE DEF b, n, u
  <1>6. /\ mem' \in [Agent -> Locals] /\ \A o \in Agent \ {a} : mem'[o] = mem[o]
        /\ mem'[a].board = b /\ mem'[a].cmd = mem[a].cmd /\ mem'[a].target = c
    BY <1>1, <1>2, <1>5 DEF Locals
  <1>7. TypeOK'
    <2>1. pc' \in [Agent -> Labels]
      BY <1>1, <1>2 DEF Labels
    <2> QED
      BY <1>1, <1>2, <1>4, <1>6, <2>1 DEF IInv, TypeOK, Boards
  <1>8. Control'
    <2>1. mem[a].cmd \in {"stall", "external", "submit"} => c \in Challenge
      BY <1>3
    <2> QED
      BY <1>1, <1>2, <1>6, <2>1, ControlKept DEF IInv
  <1>9. RowsJustified'
    BY <1>2, <1>5, <1>6, RowsKept DEF IInv
  <1>10. OneLock'
    <2>1. \A l \in locks' : \E k \in locks : k.ch = l.ch /\ k.by = l.by /\ k.dup = l.dup
      BY <1>2, <1>3, <1>4
    <2> QED
      BY <2>1 DEF IInv, OneLock
  <1>11. Opened'
    <2>1. \A o \in Agent \ {a} : Unwritten(o)' = Unwritten(o) /\ pc'[o] = pc[o] /\ Unwritten(o).by = o
      BY <1>1, <1>2, <1>6 DEF Unwritten
    <2>2. pc'[a] # "payload"
      BY <1>1, <1>2
    <2>3. \A o \in Agent : pc'[o] = "payload" => Unwritten(o)' \in locks'
      BY <1>2, <1>4, <2>1, <2>2 DEF IInv, Opened
    <2>4. ASSUME NEW l \in locks', ~l.full
          PROVE  \/ <<l.by, l.ch>> \in orphaned'
                 \/ pc'[l.by] = "payload" /\ l = Unwritten(l.by)'
      <3>1. l \in locks /\ l # u /\ l.by \in Agent
        BY <1>1, <1>2, <1>4, <2>4 DEF Lock
      <3>2. \/ <<l.by, l.ch>> \in orphaned
            \/ l.by # a /\ pc[l.by] = "payload" /\ l = Unwritten(l.by)
        BY <2>4, <3>1 DEF IInv, Opened, u
      <3> QED
        BY <1>2, <2>1, <3>1, <3>2
    <2> QED
      BY <2>3, <2>4 DEF Opened
  <1>12. LocksMatchWork'
    <2>1. ASSUME NEW o \in Agent, NEW d \in holding'[o]
          PROVE  Decided(d)' \/ \E l \in locks' : l.ch = d /\ l.by = o /\ ~l.dup
      <3>1. Decided(d) \/ \E l \in locks : l.ch = d /\ l.by = o /\ ~l.dup
        BY <1>2 DEF IInv, LocksMatchWork
      <3> QED
        BY <1>2, <1>4, <3>1 DEF Decided
    <2>2. ASSUME NEW l \in locks'
          PROVE  l.dup \/ l.ch \in holding'[l.by] \/ <<l.by, l.ch>> \in orphaned'
      BY <1>2, <1>3, <1>4 DEF IInv, LocksMatchWork
    <2> QED
      BY <2>1, <2>2 DEF LocksMatchWork
  <1> QED
    BY <1>7, <1>8, <1>9, <1>10, <1>11, <1>12 DEF IInv

(* The files a command deletes are the session's own, or those of a        *)
(* challenge with a verdict.                                               *)
LEMMA WhoseLocks ==
  ASSUME IInv, NEW a \in Agent, pc[a] = "unlock"
  PROVE  /\ mem[a].cmd \in {"release", "stall", "external", "submit", "sync"}
         /\ \A k \in Released(a) : k.full
         /\ mem[a].cmd \in {"release", "stall"} =>
              \A k \in Released(a) : k.by = a /\ k.ch \in Wanted(a)
         /\ mem[a].cmd \in {"external", "submit", "sync"} =>
              \A k \in Released(a) : Decided(k.ch)
  <1>1. /\ mem[a].cmd \in {"release", "stall", "external", "submit", "sync"}
        /\ mem[a].cmd = "external" => mem[a].target \in external
        /\ mem[a].cmd = "submit" => mem[a].target \in solved
    BY DEF IInv, Control
  <1>2. CASE mem[a].cmd \in {"release", "stall"}
    BY <1>2 DEF Released, LocksOf
  <1>3. CASE mem[a].cmd \in {"external", "submit"}
    BY <1>1, <1>3 DEF Released, LocksOn, Decided
  <1>4. CASE mem[a].cmd = "sync"
    <2>1. \A k \in Released(a) : /\ k.full /\ k.ch \in Challenge
                                 /\ SolvedElsewhere(mem[a].board[k.ch])
      BY <1>4 DEF Released, LocksOn
    <2>2. JustifiedBy(mem[a].board, external, credited)
      BY DEF IInv, RowsJustified
    <2> QED
      BY <1>4, <2>1, <2>2 DEF JustifiedBy, SolvedElsewhere, Decided
  <1> QED
    BY <1>1, <1>2, <1>3, <1>4

LEMMA UnlockKeepsInv ==
  ASSUME IInv, NEW a \in Agent, Unlock(a)
  PROVE  IInv'
  <1> DEFINE l == IF mem[a].cmd = "release" THEN "read" ELSE "truncate"
             R == Released(a)
             W == Wanted(a)
             m == [mem[a] EXCEPT !.freed = R # {}]
  <1>1. /\ mem \in [Agent -> Locals] /\ pc \in [Agent -> Labels] /\ locks \subseteq Lock
        /\ holding \in [Agent -> SUBSET Challenge]
    BY DEF IInv, TypeOK
  <1>2. /\ UNCHANGED <<board, blank, solved, external, stalled, judged, credited, orphaned>>
        /\ pc' = [pc EXCEPT ![a] = l] /\ pc[a] = "unlock"
        /\ locks' = locks \ R
        /\ mem' = [mem EXCEPT ![a] = m]
        /\ holding' = IF mem[a].cmd \in {"release", "stall"}
                      THEN [holding EXCEPT ![a] = @ \ W] ELSE holding
    <2>1. mem' = [mem EXCEPT ![a].freed = R # {}]
      BY DEF Unlock
    <2>2. mem' = [mem EXCEPT ![a] = m]
      BY <1>1, <2>1
    <2>3. UNCHANGED <<board, blank, solved, external, stalled, judged, credited, orphaned>>
      BY DEF Unlock, file, ledgers, ghosts
    <2> QED
      BY <2>2, <2>3 DEF Unlock, Goto
  <1>3. /\ mem[a].cmd \in {"release", "stall", "external", "submit", "sync"}
        /\ mem[a].cmd = "external" => mem[a].target \in external
        /\ mem[a].cmd = "submit" => mem[a].target \in solved
        /\ mem[a].cmd \in {"stall", "external", "submit"} => mem[a].target \in Challenge
    BY <1>2 DEF IInv, Control
  <1>4. /\ m \in Locals /\ m.board = mem[a].board
        /\ m.cmd = mem[a].cmd /\ m.target = mem[a].target
    <2> DEFINE f == R # {}
    <2>1. f \in BOOLEAN /\ mem[a] \in Locals
      BY <1>1
    <2> HIDE DEF f
    <2>2. LET x == [mem[a] EXCEPT !.freed = f]
          IN /\ x \in Locals /\ x.board = mem[a].board
             /\ x.cmd = mem[a].cmd /\ x.target = mem[a].target
      BY <2>1 DEF Locals
    <2> QED
      BY <2>2 DEF f
  (* Whose locks are deleted, or why nobody needs them.                    *)
  <1>5. /\ \A k \in R : k.full
        /\ mem[a].cmd \in {"release", "stall"} => \A k \in R : k.by = a /\ k.ch \in W
        /\ mem[a].cmd \in {"external", "submit", "sync"} => \A k \in R : Decided(k.ch)
    BY <1>2, WhoseLocks
  <1>6. l \in Labels \ {"payload"} /\ (l = "read" => mem[a].cmd \in CommandNames)
        /\ l \in {"read", "truncate"}
    BY DEF Labels, CommandNames
  <1> HIDE DEF l, R, W, m
  <1>7. mem' \in [Agent -> Locals] /\ mem'[a] = m /\ \A o \in Agent \ {a} : mem'[o] = mem[o]
    BY <1>1, <1>2, <1>4
  <1>8. TypeOK'
    <2>1. pc' \in [Agent -> Labels]
      BY <1>1, <1>2, <1>6
    <2>2. holding' \in [Agent -> SUBSET Challenge]
      BY <1>1, <1>2
    <2> QED
      BY <1>1, <1>2, <1>7, <2>1, <2>2 DEF IInv, TypeOK, Boards
  <1>9. Control'
    BY <1>1, <1>2, <1>3, <1>4, <1>6, <1>7, ControlKept DEF IInv
  <1>10. RowsJustified'
    <2>1. JustifiedBy(mem'[a].board, external', credited')
      BY <1>2, <1>4, <1>7 DEF IInv, RowsJustified
    <2> QED
      BY <1>2, <1>7, <2>1, RowsKept DEF IInv
  <1>11. OneLock'
    BY <1>2 DEF IInv, OneLock
  <1>12. Opened'
    <2>1. \A o \in Agent \ {a} : Unwritten(o)' = Unwritten(o) /\ pc'[o] = pc[o]
      BY <1>1, <1>2, <1>7 DEF Unwritten
    <2>2. pc'[a] # "payload"
      BY <1>1, <1>2, <1>6
    <2>3. \A o \in Agent : Unwritten(o) \notin R
      BY <1>5 DEF Unwritten
    <2>4. \A k \in locks : k.by \in Agent
      BY <1>1 DEF Lock
    <2> QED
      BY <1>2, <2>1, <2>2, <2>3, <2>4 DEF IInv, Opened
  <1>13. LocksMatchWork'
    <2>1. ASSUME NEW o \in Agent, NEW d \in holding'[o]
          PROVE  Decided(d)' \/ \E k \in locks' : k.ch = d /\ k.by = o /\ ~k.dup
      <3>1. d \in holding[o]
        BY <1>1, <1>2
      <3>2. CASE Decided(d)
        BY <1>2, <3>2 DEF Decided
      <3>3. CASE ~Decided(d)
        <4>1. PICK k \in locks : k.ch = d /\ k.by = o /\ ~k.dup
          BY <3>1, <3>3 DEF IInv, LocksMatchWork
        <4>2. k \notin R
          <5>1. CASE mem[a].cmd \in {"release", "stall"}
            BY <1>1, <1>2, <1>5, <4>1, <5>1
          <5>2. CASE mem[a].cmd \in {"external", "submit", "sync"}
            BY <1>5, <3>3, <4>1, <5>2
          <5> QED
            BY <1>3, <5>1, <5>2
        <4> QED
          BY <1>2, <4>1, <4>2
      <3> QED
        BY <3>2, <3>3
    <2>2. ASSUME NEW k \in locks'
          PROVE  k.dup \/ k.ch \in holding'[k.by] \/ <<k.by, k.ch>> \in orphaned'
      <3>1. k \in locks /\ k \notin R /\ k \in Lock
        BY <1>1, <1>2
      <3>2. k.dup \/ k.ch \in holding[k.by] \/ <<k.by, k.ch>> \in orphaned
        BY <3>1 DEF IInv, LocksMatchWork
      <3>3. CASE mem[a].cmd \in {"release", "stall"} /\ k.by = a /\ k.ch \in W
        <4>1. ~k.full
          BY <3>1, <3>3 DEF Released, LocksOf, R, W
        <4>2. <<k.by, k.ch>> \in orphaned
          BY <1>2, <3>1, <3>3, <4>1 DEF IInv, Opened
        <4> QED
          BY <1>2, <4>2
      <3>4. CASE ~(mem[a].cmd \in {"release", "stall"} /\ k.by = a /\ k.ch \in W)
        <4>1. k.ch \in holding[k.by] => k.ch \in holding'[k.by]
          BY <1>1, <1>2, <3>1, <3>4 DEF Lock
        <4> QED
          BY <1>2, <3>2, <4>1
      <3> QED
        BY <3>3, <3>4
    <2> QED
      BY <2>1, <2>2 DEF LocksMatchWork
  <1> QED
    BY <1>8, <1>9, <1>10, <1>11, <1>12, <1>13 DEF IInv

(* The two halves of a rewrite change the board and no lock.               *)
LEMMA RewriteKeepsInv ==
  ASSUME IInv, NEW a \in Agent, Truncate(a) \/ Fill(a)
  PROVE  IInv'
  <1>1. /\ mem \in [Agent -> Locals] /\ pc \in [Agent -> Labels]
    BY DEF IInv, TypeOK
  <1>2. /\ UNCHANGED <<locks, solved, external, stalled, judged, credited, orphaned, holding>>
        /\ board' \in {mem[a].board, DefaultBoard} /\ blank' \in BOOLEAN
        /\ pc[a] # "payload"
    <2>1. CASE Truncate(a)
      BY <2>1 DEF Truncate, ledgers, ghosts
    <2>2. CASE Fill(a)
      BY <2>2 DEF Fill, ledgers, ghosts
    <2> QED
      BY <2>1, <2>2
  <1>3. board' \in Boards /\ JustifiedBy(board', external, credited)
    <2>1. mem[a].board \in Boards /\ JustifiedBy(mem[a].board, external, credited)
      BY <1>1 DEF IInv, RowsJustified, Locals
    <2>2. DefaultBoard \in Boards /\ JustifiedBy(DefaultBoard, external, credited)
      BY DEF DefaultBoard, Missing, Boards, Row, Statuses, JustifiedBy
    <2> QED
      BY <1>2, <2>1, <2>2
  <1>4. /\ mem' \in [Agent -> Locals] /\ \A o \in Agent \ {a} : mem'[o] = mem[o]
        /\ mem'[a] \in {mem[a], Blank}
    BY <1>1, BlankType DEF Truncate, Fill, Leave
  <1>5. PICK l \in {"fill", "idle"} : pc' = [pc EXCEPT ![a] = l]
    BY DEF Truncate, Fill, Leave, Goto
  <1>6. TypeOK'
    <2>1. pc' \in [Agent -> Labels]
      BY <1>1, <1>5 DEF Labels
    <2> QED
      BY <1>2, <1>3, <1>4, <2>1 DEF IInv, TypeOK, Boards
  <1>7. Control'
    <2>1. mem'[a].cmd \in {"stall", "external", "submit"} => mem'[a].target \in Challenge
      <3>1. mem[a].cmd \in {"stall", "external", "submit"} => mem[a].target \in Challenge
        BY DEF IInv, Control
      <3>2. Blank.cmd = "none"
        BY DEF Blank
      <3> QED
        BY <1>4, <3>1, <3>2
    <2>2. pc'[a] \in {"fill", "idle"} /\ \A o \in Agent \ {a} : pc'[o] = pc[o]
      BY <1>1, <1>5
    <2> QED
      BY <1>2, <1>4, <2>1, <2>2, ControlKept DEF IInv
  <1>8. RowsJustified'
    <2>1. JustifiedBy(mem'[a].board, external, credited)
      BY <1>4, BlankType DEF IInv, RowsJustified
    <2> QED
      BY <1>2, <1>3, <1>4, <2>1 DEF IInv, RowsJustified
  <1>9. OneLock' /\ LocksMatchWork'
    BY <1>2, LocksKept DEF IInv
  <1>10. Opened'
    <2>1. pc'[a] # "payload" /\ \A o \in Agent \ {a} : pc'[o] = pc[o]
      BY <1>1, <1>5
    <2> QED
      BY <1>2, <1>4, <2>1, OpenedKept DEF IInv
  <1> QED
    BY <1>6, <1>7, <1>8, <1>9, <1>10 DEF IInv

LEMMA DieKeepsInv ==
  ASSUME IInv, NEW a \in Agent, Die(a)
  PROVE  IInv'
  <1>1. /\ mem \in [Agent -> Locals] /\ pc \in [Agent -> Labels] /\ locks \subseteq Lock
        /\ holding \in [Agent -> SUBSET Challenge]
    BY DEF IInv, TypeOK
  <1>2. /\ UNCHANGED <<board, blank, locks, solved, external, stalled, judged, credited>>
        /\ Leave(a) /\ holding' = [holding EXCEPT ![a] = {}]
        /\ orphaned' = orphaned \cup {<<l.by, l.ch>> : l \in {k \in locks : k.by = a}}
    BY DEF Die, file, ledgers
  <1>3. /\ pc' \in [Agent -> Labels] /\ mem' \in [Agent -> Locals]
        /\ Control' /\ RowsJustified'
    BY <1>2, Leaving DEF IInv
  <1>4. TypeOK'
    <2>1. holding' \in [Agent -> SUBSET Challenge]
      BY <1>1, <1>2
    <2> QED
      BY <1>2, <1>3, <2>1 DEF IInv, TypeOK, Boards
  <1>5. OneLock'
    BY <1>2 DEF IInv, OneLock
  <1>6. \A l \in locks : l.by \in Agent /\ (l.by = a => <<l.by, l.ch>> \in orphaned')
    BY <1>1, <1>2 DEF Lock
  <1>7. Opened'
    <2>1. /\ pc'[a] # "payload"
          /\ \A o \in Agent \ {a} : Unwritten(o)' = Unwritten(o) /\ pc'[o] = pc[o]
      BY <1>1, <1>2 DEF Leave, Goto, Unwritten
    <2> QED
      BY <1>2, <1>6, <2>1 DEF IInv, Opened
  <1>8. LocksMatchWork'
    <2>1. \A o \in Agent : holding'[o] \subseteq holding[o] /\ (o # a => holding'[o] = holding[o])
      BY <1>1, <1>2
    <2> QED
      BY <1>2, <1>6, <2>1 DEF IInv, LocksMatchWork, Decided
  <1> QED
    BY <1>3, <1>4, <1>5, <1>7, <1>8 DEF IInv
-----------------------------------------------------------------------------
LEMMA StepKeepsInv == IInv /\ [Next]_vars => IInv'
  <1> SUFFICES ASSUME IInv, [Next]_vars PROVE IInv'
    OBVIOUS
  <1>1. CASE UNCHANGED vars
    <2>1. UNCHANGED <<board, blank, locks, solved, external, stalled, judged, pc, mem, holding,
                      credited, orphaned>>
      BY <1>1 DEF vars, file, ledgers, ghosts
    <2>2. TypeOK'
      BY <2>1 DEF IInv, TypeOK, Boards
    <2>3. Control'
      BY <2>1 DEF IInv, Control
    <2>4. RowsJustified'
      BY <2>1 DEF IInv, RowsJustified, JustifiedBy
    <2>5. OneLock' /\ Opened' /\ LocksMatchWork'
      BY <2>1 DEF IInv, OneLock, Opened, Unwritten, LocksMatchWork, Decided
    <2> QED
      BY <2>2, <2>3, <2>4, <2>5 DEF IInv
  <1>2. ASSUME NEW a \in Agent, NEW cmd \in CommandNames, NEW c \in Challenge \cup {Nobody},
               NEW f \in Flag, Begin(a, cmd, c, f)
        PROVE  IInv'
    BY <1>2, BeginKeepsInv
  <1>3. ASSUME NEW a \in Agent, Step(a)
        PROVE  IInv'
    <2>1. CASE ReadBoard(a)
      BY <2>1, ReadBoardKeepsInv
    <2>2. CASE ReadLedgers(a)
      BY <2>2, ReadLedgersKeepsInv
    <2>3. CASE ReadLocks(a)
      BY <2>3, ReadLocksKeepsInv
    <2>4. CASE TakeLock(a)
      BY <2>4, TakeLockKeepsInv
    <2>5. CASE ClaimRefused(a) \/ SubmitRefused(a)
      BY <2>5, RefusalsKeepInv
    <2>6. CASE WritePayload(a)
      BY <2>6, WritePayloadKeepsInv
    <2>7. CASE AppendLedger(a) \/ RecordSolved(a)
      BY <2>7, LedgerStepsKeepInv
    <2>8. CASE Decide(a) \/ Post(a) \/ RecordVerdict(a)
      BY <2>8, SubmitStepsKeepInv
    <2>9. CASE Unlock(a)
      BY <2>9, UnlockKeepsInv
    <2>10. CASE Truncate(a) \/ Fill(a)
      BY <2>10, RewriteKeepsInv
    <2>11. CASE AskPlatform(a)
      BY <2>11, AskPlatformKeepsInv
    <2> QED
      BY <1>3, <2>1, <2>2, <2>3, <2>4, <2>5, <2>6, <2>7, <2>8, <2>9, <2>10, <2>11 DEF Step
  <1>4. ASSUME NEW a \in Agent, Die(a)
        PROVE  IInv'
    BY <1>4, DieKeepsInv
  <1> QED
    BY <1>1, <1>2, <1>3, <1>4 DEF Next

LEMMA Invariance == Spec => []IInv
  BY InitEstablishesInv, StepKeepsInv, PTL DEF Spec

(* The board, the ledgers, the lock files and the sessions' locals stay    *)
(* well-typed whatever the sessions do.                                    *)
THEOREM BoardTypeCorrect == Spec => []TypeOK
  <1>1. IInv => TypeOK
    BY DEF IInv
  <1> QED
    BY <1>1, Invariance, PTL

(* Lock files under claims/ and what the sessions believe agree: nothing   *)
(* but a verdict, or the session itself, takes a lock away.                *)
THEOREM LocksAreRight == Spec => []LocksMatchWork
  <1>1. IInv => LocksMatchWork
    BY DEF IInv
  <1> QED
    BY <1>1, Invariance, PTL

(* claim_challenge never gives an open challenge to two sessions, unless   *)
(* --allow-duplicate asked for it.                                         *)
THEOREM ChallengeHasSoleWorker == Spec => []SoleWorker
  <1>1. IInv => SoleWorker
    <2> SUFFICES ASSUME IInv, NEW a \in Agent, NEW b \in Agent,
                        NEW c \in holding[a] \cap holding[b], ~Decided(c)
                 PROVE  a = b
      BY DEF SoleWorker
    <2>1. PICK k \in locks : k.ch = c /\ k.by = a /\ ~k.dup
      BY DEF IInv, LocksMatchWork
    <2>2. PICK l \in locks : l.ch = c /\ l.by = b /\ ~l.dup
      BY DEF IInv, LocksMatchWork
    <2> QED
      BY <2>1, <2>2 DEF IInv, OneLock
  <1> QED
    BY <1>1, Invariance, PTL
-----------------------------------------------------------------------------
(* The lock files implement ChallengeLock.  Owners and Verdicts are what   *)
(* its variables stand for.                                                *)

Owners   == [c \in Challenge |-> OwnersOf(c)]
Verdicts == solved \cup external \cup credited

(* One lock file, one owner.                                               *)
LEMMA OwnerIsUnique ==
  ASSUME IInv, NEW k \in locks, ~k.dup
  PROVE  k.ch \in Challenge /\ k.by \in Agent /\ Owners[k.ch] = {k.by}
  <1>1. k.ch \in Challenge /\ k.by \in Agent
    BY DEF IInv, TypeOK, Lock
  <1>2. \A l \in locks : l.ch = k.ch /\ ~l.dup => l.by = k.by
    BY DEF IInv, OneLock
  <1> QED
    BY <1>1, <1>2 DEF Owners, OwnersOf

(* What the ledgers and the platform add are verdicts on challenges.       *)
LEMMA VerdictsFall ==
  ASSUME IInv', solved \subseteq solved', external \subseteq external',
         credited \subseteq credited', credited' \ credited \subseteq Challenge
  PROVE  Verdicts' \in {Verdicts \cup S : S \in SUBSET Challenge}
  <1> DEFINE S == Verdicts' \ Verdicts
  <1>1. S \in SUBSET Challenge /\ Verdicts' = Verdicts \cup S
    BY DEF IInv, TypeOK, Verdicts
  <1> QED
    BY <1>1

(* A claim grants a free challenge, or adds a lock that counts for nobody. *)
LEMMA TakeLockGrants ==
  ASSUME IInv, NEW a \in Agent, TakeLock(a)
  PROVE  [ClaimLock!LockNext]_<<Owners, holding, Verdicts>>
  <1> DEFINE dup == mem[a].cmd = "race"
  <1>1. PICK c \in Candidates(a) :
          /\ dup \/ ~Taken(c)
          /\ locks' = locks \cup {[ch |-> c, by |-> a, dup |-> dup, full |-> FALSE]}
          /\ holding' = [holding EXCEPT ![a] = IF dup THEN @ ELSE @ \cup {c}]
          /\ UNCHANGED <<ledgers, ghosts>>
    BY DEF TakeLock
  <1> DEFINE n == [ch |-> c, by |-> a, dup |-> dup, full |-> FALSE]
  <1>2. c \in Challenge /\ n.ch = c /\ n.by = a /\ n.dup = dup /\ locks' = locks \cup {n}
    BY <1>1 DEF Candidates
  <1>3. UNCHANGED Verdicts /\ holding' = [holding EXCEPT ![a] = IF dup THEN @ ELSE @ \cup {c}]
    BY <1>1 DEF ledgers, ghosts, Verdicts
  <1> HIDE DEF n, dup
  <1>4. CASE dup
    <2>1. \A d \in Challenge : OwnersOf(d)' = OwnersOf(d)
      BY <1>2, <1>4 DEF OwnersOf
    <2>2. holding' = holding
      BY <1>3, <1>4 DEF IInv, TypeOK
    <2> QED
      BY <1>3, <2>1, <2>2 DEF Owners
  <1>5. CASE ~dup
    <2>1. OwnersOf(c) = {}
      BY <1>1, <1>5 DEF OwnersOf, Taken
    <2>2. OwnersOf(c)' = {a}
      BY <1>2, <1>5, <2>1 DEF OwnersOf
    <2>3. \A d \in Challenge \ {c} : OwnersOf(d)' = OwnersOf(d)
      BY <1>2 DEF OwnersOf
    <2>4. /\ Owners[c] = {} /\ Owners' = [Owners EXCEPT ![c] = {a}]
          /\ holding' = [holding EXCEPT ![a] = @ \cup {c}]
      BY <1>2, <1>3, <1>5, <2>1, <2>2, <2>3 DEF Owners
    <2>5. ClaimLock!Grant(a, c)
      BY <1>3, <2>4 DEF ClaimLock!Grant, Owners, Verdicts
    <2> QED
      BY <1>2, <2>5 DEF ClaimLock!LockNext
  <1> QED
    BY <1>4, <1>5

(* The payload changes the contents of a lock file and not whose it is.    *)
LEMMA WritePayloadGrantsNothing ==
  ASSUME IInv, NEW a \in Agent, WritePayload(a)
  PROVE  UNCHANGED <<Owners, holding, Verdicts>>
  <1> DEFINE u == Unwritten(a)
             n == [u EXCEPT !.full = TRUE]
  <1>1. /\ pc[a] = "payload" /\ locks' = (locks \ {u}) \cup {n}
        /\ UNCHANGED <<solved, external, credited, holding>>
    BY DEF WritePayload, Unwritten, ledgers, ghosts
  <1>2. u \in locks
    BY <1>1 DEF IInv, Opened
  <1>3. n.ch = u.ch /\ n.by = u.by /\ n.dup = u.dup
    BY DEF Unwritten
  <1> HIDE DEF u, n
  <1>4. \A c \in Challenge : OwnersOf(c)' = OwnersOf(c)
    BY <1>1, <1>2, <1>3 DEF OwnersOf
  <1> QED
    BY <1>1, <1>4 DEF Owners, Verdicts

(* Deleting lock files gives back one's own, or closes what was settled.   *)
LEMMA UnlockLetsGo ==
  ASSUME IInv, IInv', NEW a \in Agent, Unlock(a)
  PROVE  ClaimLock!LockNext
  <1> DEFINE R == Released(a)
             D == {c \in Challenge : OwnersOf(c) # {} /\ OwnersOf(c)' = {}}
  <1>1. /\ pc[a] = "unlock" /\ locks' = locks \ R
        /\ UNCHANGED <<solved, external, credited>>
        /\ holding' = IF mem[a].cmd \in {"release", "stall"}
                      THEN [holding EXCEPT ![a] = @ \ Wanted(a)] ELSE holding
    BY DEF Unlock, ledgers, ghosts
  <1>2. /\ mem[a].cmd \in {"release", "stall", "external", "submit", "sync"}
        /\ mem[a].cmd \in {"release", "stall"} => \A k \in R : k.by = a /\ k.ch \in Wanted(a)
        /\ mem[a].cmd \in {"external", "submit", "sync"} => \A k \in R : Decided(k.ch)
    BY <1>1, WhoseLocks
  <1>3. D \in SUBSET Challenge /\ UNCHANGED Verdicts
    BY <1>1 DEF Verdicts
  <1>4. ASSUME NEW c \in D PROVE \E k \in R : k \in locks /\ ~k.dup /\ k.ch = c
    BY <1>1, <1>4 DEF OwnersOf
  <1>5. ASSUME NEW c \in Challenge \ D PROVE OwnersOf(c)' = OwnersOf(c)
    <2>1. OwnersOf(c)' \subseteq OwnersOf(c)
      BY <1>1 DEF OwnersOf
    <2>2. CASE OwnersOf(c) = {}
      BY <2>1, <2>2
    <2>3. CASE OwnersOf(c)' # {}
      <3>1. PICK k \in locks : ~k.dup /\ k.ch = c
        BY <1>1, <2>3 DEF OwnersOf
      <3>2. OwnersOf(c) = {k.by}
        BY <3>1, OwnerIsUnique DEF Owners
      <3> QED
        BY <2>1, <2>3, <3>2
    <2> QED
      BY <1>5, <2>2, <2>3
  <1>6. Owners' = [c \in Challenge |-> IF c \in D THEN {} ELSE Owners[c]]
    BY <1>5 DEF Owners
  <1> HIDE DEF R, D
  <1>7. CASE mem[a].cmd \in {"release", "stall"}
    <2>1. ASSUME NEW c \in D PROVE Owners[c] = {a} /\ c \in Wanted(a)
      <3>1. PICK k \in R : k \in locks /\ ~k.dup /\ k.ch = c
        BY <1>4
      <3> QED
        BY <1>2, <1>7, <3>1, OwnerIsUnique
    <2>2. Wanted(a) \in SUBSET Challenge
      BY <1>1 DEF IInv, TypeOK, Locals, Wanted
    <2>3. Verdicts' \in {Verdicts \cup S : S \in SUBSET Challenge}
      BY <1>1, VerdictsFall
    <2>4. ClaimLock!LetGo(a, Wanted(a), D)
      BY <1>1, <1>6, <1>7, <2>1, <2>3
         DEF ClaimLock!LetGo, ClaimLock!SomeSettle, ClaimLock!Without, Owners, Verdicts
    <2> QED
      BY <2>1, <2>2, <2>4 DEF ClaimLock!LockNext
  <1>8. CASE mem[a].cmd \in {"external", "submit", "sync"}
    <2>1. D \subseteq Verdicts
      BY <1>2, <1>4, <1>8 DEF Decided, Verdicts
    <2>2. ClaimLock!Close(D)
      BY <1>1, <1>3, <1>6, <1>8, <2>1 DEF ClaimLock!Close, ClaimLock!Without, Owners, Verdicts
    <2> QED
      BY <1>3, <2>2 DEF ClaimLock!LockNext
  <1> QED
    BY <1>2, <1>7, <1>8

(* A session that dies lets go of everything and leaves its locks behind.  *)
LEMMA DeathLetsGo ==
  ASSUME IInv, IInv', NEW a \in Agent, Die(a)
  PROVE  ClaimLock!LockNext
  <1>1. /\ UNCHANGED <<locks, solved, external, credited>>
        /\ holding' = [holding EXCEPT ![a] = {}]
    BY DEF Die, ledgers
  <1>2. holding' = [holding EXCEPT ![a] = @ \ Challenge]
    BY <1>1 DEF IInv, TypeOK
  <1>3. Verdicts' \in {Verdicts \cup S : S \in SUBSET Challenge}
    BY <1>1, VerdictsFall
  <1>4. ClaimLock!LetGo(a, Challenge, {})
    BY <1>1, <1>2, <1>3 DEF ClaimLock!LetGo, ClaimLock!SomeSettle, ClaimLock!Without,
                            Owners, OwnersOf, Verdicts
  <1>5. Challenge \in SUBSET Challenge /\ {} \in SUBSET Challenge
    OBVIOUS
  <1> QED
    BY <1>4, <1>5 DEF ClaimLock!LockNext

(* Every step of the sessions is one of the locks, or none of theirs.      *)
LEMMA StepHonoursLocks == IInv /\ IInv' /\ [Next]_vars => [ClaimLock!LockNext]_<<Owners, holding, Verdicts>>
  <1> SUFFICES ASSUME IInv, IInv', [Next]_vars
               PROVE  [ClaimLock!LockNext]_<<Owners, holding, Verdicts>>
    OBVIOUS
  <1>1. CASE UNCHANGED vars
    BY <1>1 DEF vars, ledgers, ghosts, Owners, OwnersOf, Verdicts
  <1>2. ASSUME UNCHANGED <<locks, solved, external, credited, holding>>
        PROVE  UNCHANGED <<Owners, holding, Verdicts>>
    BY <1>2 DEF Owners, OwnersOf, Verdicts
  <1>3. ASSUME NEW a \in Agent, NEW cmd \in CommandNames, NEW c \in Challenge \cup {Nobody},
               NEW f \in Flag, Begin(a, cmd, c, f)
        PROVE  [ClaimLock!LockNext]_<<Owners, holding, Verdicts>>
    BY <1>2, <1>3 DEF Begin, ledgers
  <1>4. ASSUME NEW a \in Agent, Die(a)
        PROVE  [ClaimLock!LockNext]_<<Owners, holding, Verdicts>>
    BY <1>4, DeathLetsGo
  <1>5. ASSUME NEW a \in Agent, Step(a)
        PROVE  [ClaimLock!LockNext]_<<Owners, holding, Verdicts>>
    <2>1. CASE TakeLock(a)
      BY <2>1, TakeLockGrants
    <2>2. CASE WritePayload(a)
      BY <2>2, WritePayloadGrantsNothing
    <2>3. CASE Unlock(a)
      BY <2>3, UnlockLetsGo
    <2>4. CASE \/ ReadBoard(a) \/ ReadLedgers(a) \/ ReadLocks(a) \/ ClaimRefused(a)
               \/ Decide(a) \/ SubmitRefused(a) \/ RecordVerdict(a) \/ Truncate(a) \/ Fill(a)
      <3>1. UNCHANGED <<locks, solved, external, credited, holding>>
        BY <2>4 DEF ReadBoard, ReadLedgers, ReadLocks, ClaimRefused, Decide, SubmitRefused,
                    RecordVerdict, Truncate, Fill, ledgers, ghosts
      <3> QED
        BY <1>2, <3>1
    <2>5. CASE AppendLedger(a) \/ Post(a) \/ RecordSolved(a) \/ AskPlatform(a)
      <3>1. /\ UNCHANGED <<locks, holding>> /\ solved \subseteq solved' /\ external \subseteq external'
            /\ credited \subseteq credited'
        BY <2>5 DEF AppendLedger, Post, RecordSolved, AskPlatform, ledgers, ghosts
      <3>2. credited' \ credited \subseteq Challenge
        <4>1. CASE Post(a)
          <5>1. mem[a].target \in Challenge
            BY <4>1 DEF IInv, Control, Post
          <5> QED
            BY <4>1, <5>1 DEF Post
        <4>2. CASE AppendLedger(a) \/ RecordSolved(a) \/ AskPlatform(a)
          BY <4>2 DEF AppendLedger, RecordSolved, AskPlatform, ghosts
        <4> QED
          BY <2>5, <4>1, <4>2
      <3>3. ClaimLock!Settle
        BY <3>1, <3>2, VerdictsFall
           DEF ClaimLock!Settle, ClaimLock!SomeSettle, Owners, OwnersOf, Verdicts
      <3> QED
        BY <3>3 DEF ClaimLock!LockNext
    <2> QED
      BY <1>5, <2>1, <2>2, <2>3, <2>4, <2>5 DEF Step
  <1> QED
    BY <1>1, <1>3, <1>4, <1>5 DEF Next

(* claims/ is a faithful lock service: whatever the commands do in between *)
(* and whoever dies, a challenge is granted only while it is free, and it  *)
(* is freed only by its owner or after a verdict.                          *)
THEOREM BoardImplementsLock == Spec => LocksAreHonoured
  <1>1. Init => ClaimLock!LockInit
    BY DEF Init, ClaimLock!LockInit, OwnersOf
  <1>2. IInv /\ IInv' /\ [Next]_vars => [ClaimLock!LockNext]_(ClaimLock!lockVars)
    BY StepHonoursLocks DEF ClaimLock!lockVars, Owners, Verdicts
  <1> QED
    BY <1>1, <1>2, Invariance, PTL DEF Spec, LocksAreHonoured, ClaimLock!LockSpec
-----------------------------------------------------------------------------
(* What a session's command remembers: the verdicts it saw when it began.  *)

Refreshing == Claiming \cup {"status", "sync"}

(* Its copy of the board shows every verdict it knew of.                   *)
Shown(m) == \A c \in m.known \cap Present(m.board) : StatusOf(m.board[c]) = "solved"

Remembers(a) ==
  /\ mem[a].known \subseteq solved \cup external
  /\ pc[a] \in {"choose", "payload"} => mem[a].cmd \in Claiming
  /\ pc[a] \in {"locks", "locks again"} => Shown(mem[a]) /\ mem[a].known \subseteq mem[a].settled
  /\ pc[a] \in {"choose", "payload", "unlock", "truncate", "fill"} /\ mem[a].cmd \in Refreshing
       => Shown(mem[a])
  /\ pc[a] = "payload" => mem[a].target \notin mem[a].known

Memory == \A a \in Agent : Remembers(a)

Acting(a) == \A o \in Agent \ {a} : pc'[o] = pc[o] /\ mem'[o] = mem[o]

SameTask(a) == /\ mem'[a].cmd = mem[a].cmd /\ mem'[a].flag = mem[a].flag
               /\ mem'[a].known = mem[a].known

Ends(a) == pc'[a] = "idle" /\ mem'[a] = Blank

(* A command that leaves has forgotten everything.                         *)
LEMMA LeavingEnds ==
  ASSUME TypeOK, NEW a \in Agent, Leave(a)
  PROVE  Acting(a) /\ Ends(a)
  BY DEF TypeOK, Leave, Goto, Acting, Ends

(* A step writes what it found into the locals of its own session.         *)
LEMMA SteppingLocals ==
  ASSUME TypeOK, NEW a \in Agent, NEW l, NEW b, NEW s, NEW t,
         pc' = [pc EXCEPT ![a] = l],
         mem' = [mem EXCEPT ![a].board = b, ![a].settled = s, ![a].stalls = t]
  PROVE  /\ Acting(a) /\ SameTask(a) /\ pc'[a] = l /\ mem'[a].target = mem[a].target
         /\ mem'[a].board = b /\ mem'[a].settled = s
  <1>1. mem \in [Agent -> Locals] /\ pc \in [Agent -> Labels] /\ mem[a] \in Locals
    BY DEF TypeOK
  <1> DEFINE m == [mem[a] EXCEPT !.board = b, !.settled = s, !.stalls = t]
  <1>2. /\ m.cmd = mem[a].cmd /\ m.flag = mem[a].flag /\ m.known = mem[a].known
        /\ m.target = mem[a].target /\ m.board = b /\ m.settled = s
    BY <1>1 DEF Locals
  <1>3. mem' = [mem EXCEPT ![a] = m]
    BY <1>1
  <1> HIDE DEF m
  <1> QED
    BY <1>1, <1>2, <1>3 DEF Acting, SameTask

LEMMA BoardLocals ==
  ASSUME TypeOK, NEW a \in Agent, NEW l, NEW b,
         pc' = [pc EXCEPT ![a] = l], mem' = [mem EXCEPT ![a].board = b]
  PROVE  /\ Acting(a) /\ SameTask(a) /\ pc'[a] = l /\ mem'[a].target = mem[a].target
         /\ mem'[a].board = b
  <1>1. mem \in [Agent -> Locals] /\ pc \in [Agent -> Labels] /\ mem[a] \in Locals
    BY DEF TypeOK
  <1>2. /\ \A o \in Agent \ {a} : mem'[o] = mem[o]
        /\ mem'[a].cmd = mem[a].cmd /\ mem'[a].flag = mem[a].flag
        /\ mem'[a].known = mem[a].known /\ mem'[a].target = mem[a].target /\ mem'[a].board = b
    BY <1>1 DEF Locals
  <1> QED
    BY <1>1, <1>2 DEF Acting, SameTask

LEMMA UnchangedLocals ==
  ASSUME TypeOK, NEW a \in Agent, NEW l, pc' = [pc EXCEPT ![a] = l], UNCHANGED mem
  PROVE  /\ Acting(a) /\ SameTask(a) /\ pc'[a] = l /\ mem'[a] = mem[a]
  BY DEF TypeOK, Acting, SameTask

LEMMA BeginLocals ==
  ASSUME TypeOK, NEW a \in Agent, NEW cmd \in CommandNames, NEW c \in Challenge \cup {Nobody},
         NEW f \in Flag, Begin(a, cmd, c, f)
  PROVE  /\ Acting(a) /\ pc'[a] \in {"read", "unlock"} /\ (pc'[a] = "unlock" => cmd = "release")
         /\ mem'[a].cmd = cmd /\ mem'[a].target = c /\ mem'[a].flag = f
         /\ mem'[a].known = solved \cup external
  <1> DEFINE m == [Blank EXCEPT !.cmd = cmd, !.target = c, !.flag = f,
                                !.known = solved \cup external]
  <1>1. m.cmd = cmd /\ m.target = c /\ m.flag = f /\ m.known = solved \cup external
    BY DEF Blank
  <1>2. mem' = [mem EXCEPT ![a] = m]
    BY DEF Begin
  <1>3. pc' = [pc EXCEPT ![a] = IF cmd = "release" THEN "unlock" ELSE "read"]
    BY DEF Begin, Goto
  <1> HIDE DEF m
  <1> QED
    BY <1>1, <1>2, <1>3 DEF TypeOK, Acting

(* After the ledgers, the copy shows what the command knew ...             *)
LEMMA VerdictsShown ==
  ASSUME NEW b, NEW K, K \subseteq solved \cup external, K \subseteq Challenge, b \in Boards
  PROVE  LET n == Restamped(b, [c \in Challenge |-> VerdictOn(b[c], c)])
         IN /\ \A c \in K \cap Present(n) : StatusOf(n[c]) = "solved"
            /\ K \subseteq Settled(b)
  <1> DEFINE n == Restamped(b, [c \in Challenge |-> VerdictOn(b[c], c)])
  <1>1. K \subseteq Settled(b)
    BY DEF Settled
  <1>2. ASSUME NEW c \in K \cap Present(n) PROVE StatusOf(n[c]) = "solved"
    <2>1. c \in Challenge /\ b[c] \in Row
      BY DEF Boards
    <2>2. n[c] = IF c \in Present(b) THEN [b[c] EXCEPT !.st = VerdictOn(b[c], c)] ELSE b[c]
      BY <2>1 DEF Restamped
    <2>3. VerdictOn(b[c], c) \in {"solved", "external_solved"}
      BY DEF VerdictOn
    <2>4. c \in Present(b)
      BY <1>2, <2>2 DEF Present
    <2>5. n[c].st = VerdictOn(b[c], c)
      BY <2>1, <2>2, <2>4 DEF Row
    <2> HIDE DEF n
    <2> QED
      BY <2>3, <2>5 DEF StatusOf
  <1> QED
    BY <1>1, <1>2

(* ... and the lock files do not hide it.                                  *)
LEMMA VerdictsNotHidden ==
  ASSUME NEW m \in Locals, Shown(m), m.known \subseteq m.settled
  PROVE  LET n == Restamped(m.board, [c \in Challenge |-> MarkOn(m.board[c], c, m)])
         IN \A c \in m.known \cap Present(n) : StatusOf(n[c]) = "solved"
  <1> DEFINE n == Restamped(m.board, [c \in Challenge |-> MarkOn(m.board[c], c, m)])
  <1> SUFFICES ASSUME NEW c \in m.known \cap Present(n) PROVE StatusOf(n[c]) = "solved"
    OBVIOUS
  <1>1. m.board \in Boards /\ c \in Challenge /\ c \in m.settled
    BY DEF Locals
  <1>2. m.board[c] \in Row
    BY <1>1 DEF Boards
  <1>3. MarkOn(m.board[c], c, m) = m.board[c].st
    BY <1>1 DEF MarkOn
  <1>4. n[c] = m.board[c]
    BY <1>1, <1>2, <1>3 DEF Restamped, Row
  <1>5. c \in Present(m.board)
    BY <1>1, <1>4 DEF Present
  <1> QED
    BY <1>4, <1>5 DEF Shown
-----------------------------------------------------------------------------
(* Each step keeps what the commands remember.                             *)

(* The other sessions' commands do not notice.                             *)
LEMMA MemoryFrame ==
  ASSUME Memory, NEW a \in Agent, Acting(a),
         solved \subseteq solved', external \subseteq external',
         Remembers(a)'
  PROVE  Memory'
  <1> SUFFICES ASSUME NEW o \in Agent, o # a PROVE Remembers(o)'
    BY DEF Memory
  <1>1. pc'[o] = pc[o] /\ mem'[o] = mem[o]
    BY DEF Acting
  <1>2. Remembers(o)
    BY DEF Memory
  <1>3. Shown(mem[o])' = Shown(mem[o])
    BY <1>1 DEF Shown, Present, StatusOf
  <1>4. mem'[o].known \subseteq solved' \cup external'
    BY <1>1, <1>2 DEF Remembers
  <1> QED
    BY <1>1, <1>2, <1>3, <1>4 DEF Remembers

(* A command that ends, or stays away from the steps that look at the      *)
(* copy's verdicts, has nothing to show.                                   *)
LEMMA NothingToShow ==
  ASSUME Memory, NEW a \in Agent, Acting(a),
         solved \subseteq solved', external \subseteq external',
         mem'[a].known \subseteq solved' \cup external',
         pc'[a] \notin {"locks", "locks again", "choose", "payload"},
         pc'[a] \in {"unlock", "truncate", "fill"} => mem'[a].cmd \notin Refreshing
  PROVE  Memory'
  <1>1. Remembers(a)'
    BY DEF Remembers, Refreshing
  <1> QED
    BY <1>1, MemoryFrame

LEMMA EndsKeepsMemory ==
  ASSUME Memory, NEW a \in Agent, Acting(a), Ends(a),
         solved \subseteq solved', external \subseteq external'
  PROVE  Memory'
  <1>1. mem'[a].known = {} /\ pc'[a] = "idle"
    BY DEF Ends, Blank
  <1> QED
    BY <1>1, NothingToShow

(* A rewrite of the board starts and an unlock ends with the same copy.    *)
LEMMA SameCopyKeepsMemory ==
  ASSUME Memory, NEW a \in Agent, Acting(a), SameTask(a), mem'[a].board = mem[a].board,
         solved \subseteq solved', external \subseteq external',
         \/ pc[a] = "unlock" /\ pc'[a] \in {"read", "truncate"}
         \/ pc[a] = "truncate" /\ pc'[a] = "fill"
  PROVE  Memory'
  <1>1. Remembers(a)
    BY DEF Memory
  <1>2. mem[a].cmd \in Refreshing => Shown(mem[a])
    BY <1>1 DEF Remembers
  <1>3. Shown(mem[a])' = Shown(mem[a])
    BY DEF Shown, SameTask
  <1>4. Remembers(a)'
    BY <1>1, <1>2, <1>3 DEF Remembers, SameTask
  <1> QED
    BY <1>4, MemoryFrame

LEMMA BeginKeepsMemory ==
  ASSUME IInv, Memory, NEW a \in Agent, NEW cmd \in CommandNames,
         NEW c \in Challenge \cup {Nobody}, NEW f \in Flag, Begin(a, cmd, c, f)
  PROVE  Memory'
  <1>1. /\ Acting(a) /\ pc'[a] \in {"read", "unlock"} /\ (pc'[a] = "unlock" => cmd = "release")
        /\ mem'[a].cmd = cmd /\ mem'[a].known = solved \cup external
    BY BeginLocals DEF IInv
  <1>2. solved' = solved /\ external' = external
    BY DEF Begin, ledgers
  <1>3. "release" \notin Refreshing
    BY DEF Refreshing, Claiming
  <1> QED
    BY <1>1, <1>2, <1>3, NothingToShow

LEMMA ReadBoardKeepsMemory ==
  ASSUME IInv, Memory, NEW a \in Agent, ReadBoard(a)
  PROVE  Memory'
  <1>1. TypeOK /\ solved' = solved /\ external' = external
    BY DEF IInv, ReadBoard, ledgers
  <1>2. CASE NotFound(a)
    BY <1>1, <1>2, LeavingEnds, EndsKeepsMemory DEF ReadBoard
  <1>3. CASE ~NotFound(a)
    <2>1. PICK b : mem' = [mem EXCEPT ![a].board = b]
      BY <1>3 DEF ReadBoard
    <2>2. pc' = [pc EXCEPT ![a] = AfterRead(mem[a].cmd)]
      BY <1>3 DEF ReadBoard, Goto
    <2>3. Acting(a) /\ SameTask(a) /\ pc'[a] = AfterRead(mem[a].cmd)
      BY <1>1, <2>1, <2>2, BoardLocals
    <2>4. mem[a].cmd \in CommandNames
      BY DEF IInv, Control, ReadBoard
    <2>5. /\ AfterRead(mem[a].cmd) \in {"ledgers", "truncate", "append", "decide"}
          /\ AfterRead(mem[a].cmd) = "truncate" => mem[a].cmd \in {"release", "config"}
      BY <2>4, Zenon DEF AfterRead, CommandNames, Claiming
    <2>6. mem[a].known \subseteq solved \cup external
      BY DEF Memory, Remembers
    <2> QED
      BY <1>1, <2>3, <2>5, <2>6, NothingToShow DEF SameTask, Refreshing, Claiming
  <1> QED
    BY <1>2, <1>3

LEMMA ReadLedgersKeepsMemory ==
  ASSUME IInv, Memory, NEW a \in Agent, ReadLedgers(a)
  PROVE  Memory'
  <1> DEFINE b == mem[a].board
             n == Restamped(b, [c \in Challenge |-> VerdictOn(b[c], c)])
             s == Settled(b)
             l == IF pc[a] = "ledgers" THEN "locks" ELSE "locks again"
  <1>1. TypeOK /\ solved' = solved /\ external' = external /\ mem[a] \in Locals
    BY DEF IInv, TypeOK, ReadLedgers, ledgers
  <1>2. pc' = [pc EXCEPT ![a] = l]
    BY DEF ReadLedgers, Goto
  <1>3. mem' = [mem EXCEPT ![a].board = n, ![a].settled = s, ![a].stalls = stalled]
    BY DEF ReadLedgers
  <1>4. mem[a].known \subseteq solved \cup external
    BY DEF Memory, Remembers
  <1>5. mem[a].known \subseteq Challenge /\ b \in Boards
    BY <1>1 DEF Locals
  <1>6. /\ \A c \in mem[a].known \cap Present(n) : StatusOf(n[c]) = "solved"
        /\ mem[a].known \subseteq s
    BY <1>4, <1>5, VerdictsShown
  <1> HIDE DEF n, s, l, b
  <1>7. /\ Acting(a) /\ SameTask(a) /\ pc'[a] = l /\ mem'[a].board = n /\ mem'[a].settled = s
    BY <1>1, <1>2, <1>3, SteppingLocals
  <1>8. Shown(mem[a])'
    BY <1>6, <1>7 DEF Shown, SameTask
  <1>9. Remembers(a)'
    BY <1>1, <1>4, <1>6, <1>7, <1>8 DEF Remembers, SameTask, l
  <1> QED
    BY <1>1, <1>7, <1>9, MemoryFrame

LEMMA ReadLocksKeepsMemory ==
  ASSUME IInv, Memory, NEW a \in Agent, ReadLocks(a)
  PROVE  Memory'
  <1> DEFINE b == mem[a].board
             n == Restamped(b, [c \in Challenge |-> MarkOn(b[c], c, mem[a])])
  <1>1. TypeOK /\ solved' = solved /\ external' = external /\ mem[a] \in Locals
    BY DEF IInv, TypeOK, ReadLocks, ledgers
  <1>2. pc' = [pc EXCEPT ![a] = AfterLocks(a)]
    BY DEF ReadLocks, Goto
  <1>3. mem' = [mem EXCEPT ![a].board = n, ![a].settled = {}, ![a].stalls = {}]
    BY DEF ReadLocks
  <1>4. Remembers(a) /\ pc[a] \in {"locks", "locks again"}
    BY DEF Memory, ReadLocks
  <1>5. Shown(mem[a]) /\ mem[a].known \subseteq mem[a].settled
    BY <1>4 DEF Remembers
  <1>6. \A c \in mem[a].known \cap Present(n) : StatusOf(n[c]) = "solved"
    BY <1>1, <1>5, VerdictsNotHidden
  <1>7. AfterLocks(a) \in {"unlock", "ask", "truncate", "choose"}
        /\ (AfterLocks(a) = "choose" => mem[a].cmd \in Claiming)
    <2>1. /\ pc[a] = "locks" => mem[a].cmd \in Claiming \cup {"status", "sync"}
      BY DEF IInv, Control
    <2> QED
      BY <1>4, <2>1, Zenon DEF AfterLocks
  <1> HIDE DEF n, b
  <1>8. /\ Acting(a) /\ SameTask(a) /\ pc'[a] = AfterLocks(a) /\ mem'[a].board = n
    BY <1>1, <1>2, <1>3, SteppingLocals
  <1>9. Shown(mem[a])'
    BY <1>6, <1>8 DEF Shown, SameTask
  <1>10. Remembers(a)'
    BY <1>1, <1>4, <1>7, <1>8, <1>9 DEF Remembers, SameTask
  <1> QED
    BY <1>1, <1>8, <1>10, MemoryFrame

(* claim_challenge passes over what the command knows to be solved.        *)
LEMMA TargetUnknown ==
  ASSUME IInv, Memory, NEW a \in Agent, TakeLock(a)
  PROVE  /\ Acting(a) /\ SameTask(a) /\ pc'[a] = "payload" /\ mem'[a].board = mem[a].board
         /\ mem'[a].target \notin mem[a].known
  <1>1. /\ mem \in [Agent -> Locals] /\ pc \in [Agent -> Labels] /\ mem[a] \in Locals
    BY DEF IInv, TypeOK
  <1>2. PICK c \in Candidates(a) : /\ mem' = [mem EXCEPT ![a].target = c]
                                   /\ pc' = [pc EXCEPT ![a] = "payload"] /\ pc[a] = "choose"
    BY DEF TakeLock, Goto
  <1>3. /\ \A o \in Agent \ {a} : mem'[o] = mem[o]
        /\ mem'[a].cmd = mem[a].cmd /\ mem'[a].flag = mem[a].flag
        /\ mem'[a].known = mem[a].known /\ mem'[a].target = c /\ mem'[a].board = mem[a].board
    BY <1>1, <1>2 DEF Locals
  <1>4. Shown(mem[a])
    BY <1>2 DEF Memory, Remembers, Refreshing
  <1>5. c \in Challenge /\ StatusOf(mem[a].board[c]) \in {"todo", "claimed", "stalled"}
    BY DEF Candidates
  <1>6. c \in Present(mem[a].board)
    <2>1. mem[a].board[c] \in Row
      BY <1>1, <1>5 DEF Locals, Boards
    <2> QED
      BY <1>5, <2>1 DEF Present, StatusOf
  <1>7. c \notin mem[a].known
    BY <1>4, <1>5, <1>6 DEF Shown
  <1> QED
    BY <1>1, <1>2, <1>3, <1>7 DEF Acting, SameTask

LEMMA TakeLockKeepsMemory ==
  ASSUME IInv, Memory, NEW a \in Agent, TakeLock(a)
  PROVE  Memory'
  <1>1. /\ Acting(a) /\ SameTask(a) /\ pc'[a] = "payload" /\ mem'[a].board = mem[a].board
        /\ mem'[a].target \notin mem[a].known
    BY TargetUnknown
  <1>2. Remembers(a) /\ pc[a] = "choose"
    BY DEF Memory, TakeLock
  <1>3. Shown(mem[a]) /\ mem[a].cmd \in Claiming
    BY <1>2 DEF Remembers, Refreshing
  <1>4. Shown(mem[a])'
    BY <1>1, <1>3 DEF Shown, SameTask
  <1>5. solved' = solved /\ external' = external
    BY DEF TakeLock, ledgers
  <1>6. Remembers(a)'
    BY <1>1, <1>2, <1>3, <1>4, <1>5 DEF Remembers, SameTask
  <1> QED
    BY <1>1, <1>5, <1>6, MemoryFrame

LEMMA WritePayloadKeepsMemory ==
  ASSUME IInv, Memory, NEW a \in Agent, WritePayload(a)
  PROVE  Memory'
  <1> DEFINE c == mem[a].target
             n == [mem[a].board EXCEPT ![c].st = "claimed", ![c].by = a]
  <1>1. /\ TypeOK /\ mem[a] \in Locals /\ mem \in [Agent -> Locals]
        /\ solved' = solved /\ external' = external
    BY DEF IInv, TypeOK, WritePayload, ledgers
  <1>2. mem' = [mem EXCEPT ![a].board = n]
    <2>1. mem' = [mem EXCEPT ![a].board = [@ EXCEPT ![c].st = "claimed", ![c].by = a]]
      BY DEF WritePayload
    <2> QED
      BY <1>1, <2>1
  <1>3. pc' = [pc EXCEPT ![a] = "truncate"]
    BY DEF WritePayload, Goto
  <1>4. Remembers(a) /\ pc[a] = "payload"
    BY DEF Memory, WritePayload
  <1>5. Shown(mem[a]) /\ c \notin mem[a].known
    BY <1>4 DEF Remembers, Refreshing
  <1>6. \A d \in mem[a].known : n[d] = mem[a].board[d] /\ d \in Challenge
    BY <1>1, <1>5 DEF Locals, Boards
  <1> HIDE DEF n
  <1>7. Acting(a) /\ SameTask(a) /\ pc'[a] = "truncate" /\ mem'[a].board = n
    BY <1>1, <1>2, <1>3, BoardLocals
  <1>8. Shown(mem[a])'
    BY <1>5, <1>6, <1>7 DEF Shown, Present, SameTask
  <1>9. Remembers(a)'
    BY <1>1, <1>4, <1>7, <1>8 DEF Remembers, SameTask
  <1> QED
    BY <1>1, <1>7, <1>9, MemoryFrame

LEMMA LedgerStepsKeepMemory ==
  ASSUME IInv, Memory, NEW a \in Agent, AppendLedger(a) \/ RecordSolved(a)
  PROVE  Memory'
  <1>1. TypeOK /\ solved \subseteq solved' /\ external \subseteq external'
    BY DEF IInv, AppendLedger, RecordSolved
  <1>2. PICK b : mem' = [mem EXCEPT ![a].board = b]
    BY DEF AppendLedger, RecordSolved
  <1>3. pc' = [pc EXCEPT ![a] = "unlock"]
    BY DEF AppendLedger, RecordSolved, Goto
  <1>4. Acting(a) /\ SameTask(a) /\ pc'[a] = "unlock"
    BY <1>1, <1>2, <1>3, BoardLocals
  <1>5. mem[a].cmd \in {"stall", "external", "submit"}
    BY DEF IInv, Control, AppendLedger, RecordSolved
  <1>6. mem[a].known \subseteq solved \cup external
    BY DEF Memory, Remembers
  <1> QED
    BY <1>1, <1>4, <1>5, <1>6, NothingToShow DEF SameTask, Refreshing, Claiming

LEMMA SubmitStepsKeepMemory ==
  ASSUME IInv, Memory, NEW a \in Agent,
         Decide(a) \/ Post(a) \/ RecordVerdict(a) \/ SubmitRefused(a) \/ ClaimRefused(a)
  PROVE  Memory'
  <1>1. TypeOK /\ solved' = solved /\ external' = external
    BY DEF IInv, Decide, Post, RecordVerdict, SubmitRefused, ClaimRefused, ledgers
  <1>2. CASE Leave(a)
    BY <1>1, <1>2, LeavingEnds, EndsKeepsMemory
  <1>3. CASE ~Leave(a)
    <2>1. UNCHANGED mem /\ \E l \in {"post", "accepted", "rejected", "credit"} : Goto(a, l)
      <3>1. Post(a) => UNCHANGED mem /\ \E l \in {"accepted", "rejected"} : Goto(a, l)
        BY <1>3, PostAnswers
      <3> QED
        BY <1>3, <3>1 DEF Decide, RecordVerdict, SubmitRefused, ClaimRefused
    <2>2. PICK l \in {"post", "accepted", "rejected", "credit"} : pc' = [pc EXCEPT ![a] = l]
      BY <2>1 DEF Goto
    <2>3. Acting(a) /\ SameTask(a) /\ pc'[a] = l
      BY <1>1, <2>1, <2>2, UnchangedLocals
    <2>4. mem[a].known \subseteq solved \cup external
      BY DEF Memory, Remembers
    <2> QED
      BY <1>1, <2>3, <2>4, NothingToShow DEF SameTask
  <1> QED
    BY <1>2, <1>3

LEMMA UnlockKeepsMemory ==
  ASSUME IInv, Memory, NEW a \in Agent, Unlock(a)
  PROVE  Memory'
  <1>1. /\ mem \in [Agent -> Locals] /\ pc \in [Agent -> Labels] /\ mem[a] \in Locals
        /\ solved' = solved /\ external' = external /\ pc[a] = "unlock"
    BY DEF IInv, TypeOK, Unlock, ledgers
  <1>2. PICK b : mem' = [mem EXCEPT ![a].freed = b]
    BY DEF Unlock
  <1>3. PICK l \in {"read", "truncate"} : pc' = [pc EXCEPT ![a] = l]
    BY DEF Unlock, Goto
  <1>4. /\ \A o \in Agent \ {a} : mem'[o] = mem[o]
        /\ mem'[a].cmd = mem[a].cmd /\ mem'[a].flag = mem[a].flag
        /\ mem'[a].known = mem[a].known /\ mem'[a].board = mem[a].board
    BY <1>1, <1>2 DEF Locals
  <1>5. Acting(a) /\ SameTask(a) /\ pc'[a] = l
    BY <1>1, <1>3, <1>4 DEF Acting, SameTask
  <1> QED
    BY <1>1, <1>4, <1>5, SameCopyKeepsMemory

LEMMA RewriteKeepsMemory ==
  ASSUME IInv, Memory, NEW a \in Agent, Truncate(a) \/ Fill(a)
  PROVE  Memory'
  <1>1. TypeOK /\ solved' = solved /\ external' = external
    BY DEF IInv, Truncate, Fill, ledgers
  <1>2. CASE Fill(a)
    BY <1>1, <1>2, LeavingEnds, EndsKeepsMemory DEF Fill
  <1>3. CASE Truncate(a)
    <2>1. Acting(a) /\ SameTask(a) /\ pc'[a] = "fill" /\ mem'[a] = mem[a]
      BY <1>1, <1>3, UnchangedLocals DEF Truncate, Goto
    <2> QED
      BY <1>1, <1>3, <2>1, SameCopyKeepsMemory DEF Truncate
  <1> QED
    BY <1>2, <1>3

LEMMA AskPlatformKeepsMemory ==
  ASSUME IInv, Memory, NEW a \in Agent, AskPlatform(a)
  PROVE  Memory'
  <1>1. TypeOK /\ solved' = solved /\ external' = external
    BY DEF IInv, AskPlatform, ledgers
  <1>2. PICK b : mem' = [mem EXCEPT ![a].board = b]
    BY DEF AskPlatform
  <1>3. pc' = [pc EXCEPT ![a] = "ledgers again"]
    BY DEF AskPlatform, Goto
  <1>4. Acting(a) /\ SameTask(a) /\ pc'[a] = "ledgers again"
    BY <1>1, <1>2, <1>3, BoardLocals
  <1>5. mem[a].known \subseteq solved \cup external
    BY DEF Memory, Remembers
  <1> QED
    BY <1>1, <1>4, <1>5, NothingToShow DEF SameTask

LEMMA StepKeepsMemory == IInv /\ Memory /\ [Next]_vars => Memory'
  <1> SUFFICES ASSUME IInv, Memory, [Next]_vars PROVE Memory'
    OBVIOUS
  <1>1. CASE UNCHANGED vars
    BY <1>1 DEF vars, ledgers, Memory, Remembers, Shown
  <1>2. ASSUME NEW a \in Agent, NEW cmd \in CommandNames, NEW c \in Challenge \cup {Nobody},
               NEW f \in Flag, Begin(a, cmd, c, f)
        PROVE  Memory'
    BY <1>2, BeginKeepsMemory
  <1>3. ASSUME NEW a \in Agent, Step(a)
        PROVE  Memory'
    <2>1. CASE ReadBoard(a)
      BY <2>1, ReadBoardKeepsMemory
    <2>2. CASE ReadLedgers(a)
      BY <2>2, ReadLedgersKeepsMemory
    <2>3. CASE ReadLocks(a)
      BY <2>3, ReadLocksKeepsMemory
    <2>4. CASE TakeLock(a)
      BY <2>4, TakeLockKeepsMemory
    <2>5. CASE WritePayload(a)
      BY <2>5, WritePayloadKeepsMemory
    <2>6. CASE AppendLedger(a) \/ RecordSolved(a)
      BY <2>6, LedgerStepsKeepMemory
    <2>7. CASE Decide(a) \/ Post(a) \/ RecordVerdict(a) \/ SubmitRefused(a) \/ ClaimRefused(a)
      BY <2>7, SubmitStepsKeepMemory
    <2>8. CASE Unlock(a)
      BY <2>8, UnlockKeepsMemory
    <2>9. CASE Truncate(a) \/ Fill(a)
      BY <2>9, RewriteKeepsMemory
    <2>10. CASE AskPlatform(a)
      BY <2>10, AskPlatformKeepsMemory
    <2> QED
      BY <1>3, <2>1, <2>2, <2>3, <2>4, <2>5, <2>6, <2>7, <2>8, <2>9, <2>10 DEF Step
  <1>4. ASSUME NEW a \in Agent, Die(a)
        PROVE  Memory'
    BY <1>4, LeavingEnds, EndsKeepsMemory DEF IInv, Die, ledgers
  <1> QED
    BY <1>1, <1>2, <1>3, <1>4 DEF Next

LEMMA MemoryInvariance == Spec => []Memory
  <1>1. Init => Memory
    BY DEF Init, Memory, Remembers, Blank
  <1> QED
    BY <1>1, StepKeepsMemory, Invariance, PTL DEF Spec

(* What status, the claims and sync write back shows every verdict that    *)
(* was in the ledgers when the command began, whatever was overwritten in  *)
(* between and whoever claimed meanwhile.                                  *)
THEOREM VerdictsComeBack == Spec => []VerdictsResurface
  <1>1. Memory => VerdictsResurface
    BY DEF Memory, Remembers, VerdictsResurface, Shown, Refreshing
  <1> QED
    BY <1>1, MemoryInvariance, PTL

(* claim_challenge never hands out a challenge that was in solved.jsonl or *)
(* external_solved.txt when the command began.                             *)
THEOREM KnownIsNotClaimed == Spec => NoClaimOfKnown
  <1> DEFINE A == \A a \in Agent : pc[a] = "choose" /\ pc'[a] = "payload"
                                     => mem'[a].target \notin mem[a].known
  <1>1. IInv /\ Memory /\ [Next]_vars => [A]_vars
    <2> SUFFICES ASSUME IInv, Memory, Next, NEW a \in Agent,
                        pc[a] = "choose", pc'[a] = "payload"
                 PROVE  mem'[a].target \notin mem[a].known
      OBVIOUS
    <2>1. pc \in [Agent -> Labels]
      BY DEF IInv, TypeOK
    <2>2. TakeLock(a)
      <3>1. ASSUME NEW o \in Agent, NEW cmd \in CommandNames, NEW c \in Challenge \cup {Nobody},
                   NEW f \in Flag, Begin(o, cmd, c, f)
            PROVE  FALSE
        BY <2>1, <3>1 DEF Begin, Goto
      <3>2. ASSUME NEW o \in Agent, Die(o)
            PROVE  FALSE
        BY <2>1, <3>2 DEF Die, Leave, Goto
      <3>3. ASSUME NEW o \in Agent, Step(o)
            PROVE  o = a
        <4>1. ASSUME o # a PROVE pc'[a] = pc[a]
          BY <2>1, <3>3, <4>1
             DEF Step, ReadBoard, ReadLedgers, ReadLocks, TakeLock, ClaimRefused, WritePayload,
                 AppendLedger, Decide, SubmitRefused, Post, RecordVerdict, RecordSolved, Unlock,
                 Truncate, Fill, AskPlatform, Leave, Goto
        <4> QED
          BY <4>1
      <3>4. Step(a)
        BY <3>1, <3>2, <3>3 DEF Next
      <3>5. ~ClaimRefused(a)
        BY <2>1 DEF ClaimRefused, Leave, Goto
      <3> QED
        BY <3>4, <3>5
           DEF Step, ReadBoard, ReadLedgers, ReadLocks, WritePayload,
               AppendLedger, Decide, SubmitRefused, Post, RecordVerdict, RecordSolved, Unlock,
               Truncate, Fill, AskPlatform
    <2> QED
      BY <2>2, TargetUnknown
  <1> QED
    BY <1>1, Invariance, MemoryInvariance, PTL DEF Spec, NoClaimOfKnown
-----------------------------------------------------------------------------
(* Posts and the verdicts of submissions.jsonl.                            *)

(* The challenge and the flag a submit command is about.                   *)
About(a) == <<mem[a].target, mem[a].flag>>

(* Two sessions that submit the same at once are known to contend.         *)
Contention == \A a, b \in Agent :
  a # b /\ mem[a].cmd = "submit" /\ mem[b].cmd = "submit" /\ About(a) = About(b)
    => About(a) \in contended

(* What was posted has its verdict on file, or a session that is about to  *)
(* file it.                                                                *)
Accounted(p) == \/ p \in contended \cup unanswered \cup judged
                \/ \E a \in Agent : pc[a] \in {"accepted", "rejected"} /\ About(a) = p

Posted == /\ posts \in [Challenge \X Flag -> 0..2]
          /\ Contention
          /\ \A p \in Challenge \X Flag : posts[p] # 0 => Accounted(p)
          /\ \A a \in Agent : pc[a] = "post" => About(a) \notin judged \/ About(a) \in contended
          /\ NoRepeatedPost

SameSubmission(a) == mem'[a].cmd = "submit" => mem[a].cmd = "submit" /\ About(a)' = About(a)

LEMMA ContentionKept ==
  ASSUME Contention, NEW a \in Agent, Acting(a), SameSubmission(a), contended \subseteq contended'
  PROVE  Contention'
  <1> SUFFICES ASSUME NEW x \in Agent, NEW y \in Agent, x # y, mem'[x].cmd = "submit",
                      mem'[y].cmd = "submit", About(x)' = About(y)'
               PROVE  About(x)' \in contended'
    BY DEF Contention
  <1>1. ASSUME NEW o \in Agent, mem'[o].cmd = "submit"
        PROVE  mem[o].cmd = "submit" /\ About(o)' = About(o)
    BY <1>1 DEF Acting, SameSubmission, About
  <1>2. mem[x].cmd = "submit" /\ About(x)' = About(x)
    BY <1>1
  <1>3. mem[y].cmd = "submit" /\ About(y)' = About(y)
    BY <1>1
  <1> QED
    BY <1>2, <1>3 DEF Contention

(* Every step that posts nothing and files no verdict.                     *)
LEMMA QuietStep ==
  ASSUME Posted, NEW a \in Agent, Acting(a), SameSubmission(a),
         UNCHANGED <<posts, judged, contended, unanswered>>,
         pc[a] \notin {"accepted", "rejected"},
         pc'[a] = "post" => About(a)' \notin judged
  PROVE  Posted'
  <1>1. Contention'
    BY ContentionKept DEF Posted
  <1>2. \A o \in Agent \ {a} : About(o)' = About(o) /\ pc'[o] = pc[o]
    BY DEF Acting, About
  <1>3. ASSUME NEW p \in Challenge \X Flag, posts'[p] # 0 PROVE Accounted(p)'
    <2>1. Accounted(p)
      BY <1>3 DEF Posted
    <2> QED
      BY <1>2, <2>1 DEF Accounted
  <1>4. ASSUME NEW o \in Agent, pc'[o] = "post"
        PROVE  About(o)' \notin judged' \/ About(o)' \in contended'
    <2>1. CASE o = a
      BY <1>4, <2>1
    <2>2. CASE o # a
      BY <1>2, <1>4, <2>2 DEF Posted
    <2> QED
      BY <2>1, <2>2
  <1>5. NoRepeatedPost'
    BY DEF Posted, NoRepeatedPost
  <1>6. posts' \in [Challenge \X Flag -> 0..2]
    BY DEF Posted
  <1> QED
    BY <1>1, <1>3, <1>4, <1>5, <1>6 DEF Posted

(* A submit that begins beside another one of the same is contention.      *)
LEMMA BeginKeepsPosted ==
  ASSUME IInv, Posted, NEW a \in Agent, NEW cmd \in CommandNames,
         NEW c \in Challenge \cup {Nobody}, NEW f \in Flag, Begin(a, cmd, c, f)
  PROVE  Posted'
  <1>1. /\ Acting(a) /\ pc'[a] \in {"read", "unlock"}
        /\ mem'[a].cmd = cmd /\ mem'[a].target = c /\ mem'[a].flag = f
    BY BeginLocals DEF IInv
  <1>2. /\ UNCHANGED <<posts, judged, unanswered>> /\ pc[a] = "idle"
        /\ contended' = IF cmd = "submit" /\ \E b \in Agent : Submitting(b, c, f)
                        THEN contended \cup {<<c, f>>} ELSE contended
    BY DEF Begin, ledgers
  <1>3. contended \subseteq contended'
    BY <1>2
  <1>4. \A o \in Agent \ {a} : /\ About(o)' = About(o) /\ pc'[o] = pc[o]
                               /\ mem'[o].cmd = mem[o].cmd
    BY <1>1 DEF Acting, About
  <1>5. About(a)' = <<c, f>>
    BY <1>1 DEF About
  <1>6. ASSUME NEW o \in Agent \ {a}, cmd = "submit", mem[o].cmd = "submit", About(o) = <<c, f>>
        PROVE  <<c, f>> \in contended'
    <2>1. Submitting(o, c, f)
      BY <1>6 DEF Submitting, About
    <2> QED
      BY <1>2, <1>6, <2>1
  <1>7. Contention'
    <2> SUFFICES ASSUME NEW x \in Agent, NEW y \in Agent, x # y, mem'[x].cmd = "submit",
                        mem'[y].cmd = "submit", About(x)' = About(y)'
                 PROVE  About(x)' \in contended'
      BY DEF Contention
    <2>1. CASE x = a
      BY <1>1, <1>4, <1>5, <1>6, <2>1
    <2>2. CASE y = a
      BY <1>1, <1>4, <1>5, <1>6, <2>2
    <2>3. CASE x # a /\ y # a
      <3>1. About(x) \in contended
        BY <1>4, <2>3 DEF Posted, Contention
      <3> QED
        BY <1>3, <1>4, <2>3, <3>1
    <2> QED
      BY <2>1, <2>2, <2>3
  <1>8. ASSUME NEW p \in Challenge \X Flag, posts'[p] # 0 PROVE Accounted(p)'
    <2>1. Accounted(p)
      BY <1>2, <1>8 DEF Posted
    <2> QED
      BY <1>2, <1>3, <1>4, <2>1 DEF Accounted
  <1>9. ASSUME NEW o \in Agent, pc'[o] = "post"
        PROVE  About(o)' \notin judged' \/ About(o)' \in contended'
    BY <1>1, <1>2, <1>3, <1>4, <1>9 DEF Posted
  <1>10. NoRepeatedPost'
    BY <1>2, <1>3 DEF Posted, NoRepeatedPost
  <1>11. posts' \in [Challenge \X Flag -> 0..2]
    BY <1>2 DEF Posted
  <1> QED
    BY <1>7, <1>8, <1>9, <1>10, <1>11 DEF Posted

(* Only a flag without a verdict is posted, or one that is contended.      *)
LEMMA PostKeepsPosted ==
  ASSUME IInv, Posted, NEW a \in Agent, Post(a)
  PROVE  Posted'
  <1>0. PICK p : p = About(a)
    OBVIOUS
  <1>1. TypeOK /\ pc \in [Agent -> Labels] /\ mem[a] \in Locals
    BY DEF IInv, TypeOK
  <1>2. /\ posts' = [posts EXCEPT ![p] = IF @ < 2 THEN @ + 1 ELSE 2]
        /\ pc[a] = "post" /\ UNCHANGED <<judged, contended>>
    BY <1>0 DEF Post, About, ledgers
  <1>3. mem[a].cmd = "submit" /\ p \in Challenge \X Flag
    BY <1>0, <1>1, <1>2 DEF IInv, Control, Locals, About
  <1>4. \/ /\ mem' = mem /\ unanswered' = unanswered
           /\ \E l \in {"accepted", "rejected"} : pc' = [pc EXCEPT ![a] = l]
        \/ Leave(a) /\ unanswered' = unanswered \cup {p}
    BY <1>0, PostAnswers DEF About, Goto
  <1>5. Acting(a) /\ SameSubmission(a) /\ pc'[a] # "post"
    <2>1. CASE Leave(a)
      <3>1. mem'[a].cmd = "none"
        BY <1>1, <2>1, LeavingEnds DEF Ends, Blank
      <3> QED
        BY <1>1, <2>1, <3>1, LeavingEnds DEF Ends, SameSubmission
    <2>2. CASE mem' = mem /\ \E l \in {"accepted", "rejected"} : pc' = [pc EXCEPT ![a] = l]
      BY <1>1, <2>2 DEF Acting, SameSubmission, About
    <2> QED
      BY <1>4, <2>1, <2>2
  <1>6. Accounted(p)'
    <2>1. CASE p \in unanswered'
      BY <2>1 DEF Accounted
    <2>2. CASE mem' = mem /\ \E l \in {"accepted", "rejected"} : pc' = [pc EXCEPT ![a] = l]
      <3>1. pc'[a] \in {"accepted", "rejected"} /\ About(a)' = p
        BY <1>0, <1>1, <2>2 DEF About
      <3> QED
        BY <3>1 DEF Accounted
    <2> QED
      BY <1>4, <2>1, <2>2
  <1>7. Contention'
    BY <1>2, <1>5, ContentionKept DEF Posted
  <1>8. unanswered \subseteq unanswered'
    BY <1>4
  <1>9. \A o \in Agent \ {a} : About(o)' = About(o) /\ pc'[o] = pc[o]
    BY <1>5 DEF Acting, About
  <1>10. ASSUME NEW q \in Challenge \X Flag, posts'[q] # 0 PROVE Accounted(q)'
    <2>1. CASE q = p
      BY <1>6, <2>1
    <2>2. CASE q # p
      <3>1. posts[q] # 0
        BY <1>2, <1>10, <2>2 DEF Posted
      <3>2. Accounted(q)
        BY <3>1 DEF Posted
      <3> QED
        BY <1>2, <1>8, <1>9, <3>2 DEF Accounted
    <2> QED
      BY <2>1, <2>2
  <1>11. ASSUME NEW o \in Agent, pc'[o] = "post"
         PROVE  About(o)' \notin judged' \/ About(o)' \in contended'
    BY <1>2, <1>5, <1>9, <1>11 DEF Posted
  <1>12. posts[p] # 0 => p \in contended \cup unanswered
    <2> SUFFICES ASSUME posts[p] # 0, p \notin contended \cup unanswered PROVE FALSE
      OBVIOUS
    <2>1. p \notin judged
      BY <1>0, <1>2 DEF Posted
    <2>2. PICK o \in Agent : pc[o] \in {"accepted", "rejected"} /\ About(o) = p
      BY <1>3, <2>1 DEF Posted, Accounted
    <2>3. mem[o].cmd = "submit" /\ o # a
      BY <1>2, <2>2 DEF IInv, Control
    <2> QED
      BY <1>0, <1>3, <2>2, <2>3 DEF Posted, Contention
  <1>13. posts' \in [Challenge \X Flag -> 0..2] /\ posts[p] \in 0..2
    BY <1>2, <1>3 DEF Posted
  <1>14. ASSUME NEW q \in Challenge \X Flag, posts'[q] > 1
         PROVE  q \in contended' \cup unanswered'
    <2>1. CASE q = p
      <3>1. posts[p] # 0
        BY <1>2, <1>3, <1>13, <1>14, <2>1 DEF Posted
      <3> QED
        BY <1>2, <1>8, <1>12, <2>1, <3>1
    <2>2. CASE q # p
      <3>1. posts[q] > 1
        BY <1>2, <1>14, <2>2 DEF Posted
      <3> QED
        BY <1>2, <1>8, <3>1 DEF Posted, NoRepeatedPost
    <2> QED
      BY <2>1, <2>2
  <1>15. NoRepeatedPost'
    BY <1>14 DEF NoRepeatedPost
  <1> QED
    BY <1>7, <1>10, <1>11, <1>13, <1>15 DEF Posted

(* A verdict that is filed after another session passed its own check of   *)
(* submissions.jsonl is contended too.                                     *)
LEMMA RecordVerdictKeepsPosted ==
  ASSUME IInv, Posted, NEW a \in Agent, RecordVerdict(a)
  PROVE  Posted'
  <1> DEFINE p == About(a)
  <1>1. TypeOK /\ pc \in [Agent -> Labels] /\ pc[a] \in {"accepted", "rejected"}
    BY DEF IInv, TypeOK, RecordVerdict
  <1>2. /\ UNCHANGED <<posts, contended, unanswered>> /\ judged' = judged \cup {p}
        /\ mem[a].cmd = "submit"
    BY <1>1 DEF RecordVerdict, About, ghosts, IInv, Control
  <1>3. Acting(a) /\ SameSubmission(a) /\ pc'[a] # "post"
    <2>1. CASE Leave(a)
      <3>1. mem'[a].cmd = "none"
        BY <1>1, <2>1, LeavingEnds DEF Ends, Blank
      <3> QED
        BY <1>1, <2>1, <3>1, LeavingEnds DEF Ends, SameSubmission
    <2>2. CASE mem' = mem /\ Goto(a, "credit")
      BY <1>1, <2>2 DEF Acting, SameSubmission, About, Goto
    <2> QED
      BY <2>1, <2>2 DEF RecordVerdict
  <1>4. Contention'
    BY <1>2, <1>3, ContentionKept DEF Posted
  <1>5. \A o \in Agent \ {a} : About(o)' = About(o) /\ pc'[o] = pc[o] /\ mem'[o] = mem[o]
    BY <1>3 DEF Acting, About
  <1>6. ASSUME NEW q \in Challenge \X Flag, posts'[q] # 0 PROVE Accounted(q)'
    <2>1. CASE q = p
      BY <1>2, <2>1 DEF Accounted
    <2>2. CASE q # p
      <3>1. Accounted(q)
        BY <1>2, <1>6 DEF Posted
      <3> QED
        BY <1>2, <1>5, <2>2, <3>1 DEF Accounted
    <2> QED
      BY <2>1, <2>2
  <1>7. ASSUME NEW o \in Agent, pc'[o] = "post"
        PROVE  About(o)' \notin judged' \/ About(o)' \in contended'
    <2>1. o # a /\ pc[o] = "post" /\ About(o)' = About(o)
      BY <1>3, <1>5, <1>7
    <2>2. CASE About(o) = p
      <3>1. mem[o].cmd = "submit"
        BY <2>1 DEF IInv, Control
      <3> QED
        BY <1>2, <2>1, <2>2, <3>1 DEF Posted, Contention
    <2>3. CASE About(o) # p
      BY <1>2, <2>1, <2>3 DEF Posted
    <2> QED
      BY <2>2, <2>3
  <1>8. NoRepeatedPost' /\ posts' \in [Challenge \X Flag -> 0..2]
    BY <1>2 DEF Posted, NoRepeatedPost
  <1> QED
    BY <1>4, <1>6, <1>7, <1>8 DEF Posted

(* A session that dies with an answer in hand leaves it unrecorded.        *)
LEMMA DieKeepsPosted ==
  ASSUME IInv, Posted, NEW a \in Agent, Die(a)
  PROVE  Posted'
  <1>1. /\ UNCHANGED <<posts, judged, contended>> /\ unanswered \subseteq unanswered'
        /\ pc[a] \in {"accepted", "rejected"} => About(a) \in unanswered'
    BY DEF Die, ledgers, About
  <1>2. Acting(a) /\ Ends(a)
    BY LeavingEnds DEF IInv, Die
  <1>3. SameSubmission(a) /\ pc'[a] # "post"
    BY <1>2 DEF Ends, Blank, SameSubmission
  <1>4. Contention'
    BY <1>1, <1>2, <1>3, ContentionKept DEF Posted
  <1>5. \A o \in Agent \ {a} : About(o)' = About(o) /\ pc'[o] = pc[o]
    BY <1>2 DEF Acting, About
  <1>6. ASSUME NEW q \in Challenge \X Flag, posts'[q] # 0 PROVE Accounted(q)'
    <2>1. Accounted(q)
      BY <1>1, <1>6 DEF Posted
    <2> QED
      BY <1>1, <1>5, <2>1 DEF Accounted
  <1>7. ASSUME NEW o \in Agent, pc'[o] = "post"
        PROVE  About(o)' \notin judged' \/ About(o)' \in contended'
    BY <1>1, <1>3, <1>5, <1>7 DEF Posted
  <1>8. NoRepeatedPost' /\ posts' \in [Challenge \X Flag -> 0..2]
    BY <1>1 DEF Posted, NoRepeatedPost
  <1> QED
    BY <1>4, <1>6, <1>7, <1>8 DEF Posted

(* The end of a command submits nothing.                                   *)
LEMMA EndIsQuiet ==
  ASSUME TypeOK, Posted, NEW a \in Agent, Leave(a), pc[a] \notin {"accepted", "rejected"},
         UNCHANGED <<posts, judged, contended, unanswered>>
  PROVE  Posted'
  <1>1. Acting(a) /\ Ends(a)
    BY LeavingEnds
  <1>2. SameSubmission(a) /\ pc'[a] # "post"
    BY <1>1 DEF Ends, Blank, SameSubmission
  <1> QED
    BY <1>1, <1>2, QuietStep

(* Nor does a step that goes on with the same command.                     *)
LEMMA TaskIsQuiet ==
  ASSUME Posted, NEW a \in Agent, Acting(a), SameTask(a),
         mem'[a].target = mem[a].target \/ mem[a].cmd # "submit",
         UNCHANGED <<posts, judged, contended, unanswered>>,
         pc[a] \notin {"accepted", "rejected"},
         \/ pc'[a] # "post"
         \/ About(a) \notin judged /\ mem'[a].target = mem[a].target
  PROVE  Posted'
  <1>1. SameSubmission(a)
    BY DEF SameTask, SameSubmission, About
  <1>2. pc'[a] = "post" => About(a)' \notin judged
    BY DEF SameTask, About
  <1> QED
    BY <1>1, <1>2, QuietStep

LEMMA ReadsKeepPosted ==
  ASSUME IInv, Posted, NEW a \in Agent, ReadBoard(a) \/ ReadLedgers(a) \/ ReadLocks(a)
  PROVE  Posted'
  <1>1. /\ TypeOK /\ UNCHANGED <<posts, judged, contended, unanswered>>
        /\ pc[a] \in {"read", "ledgers", "ledgers again", "locks", "locks again"}
    BY DEF IInv, ReadBoard, ReadLedgers, ReadLocks, ledgers, ghosts
  <1>2. CASE ReadBoard(a)
    <2>1. CASE NotFound(a)
      BY <1>1, <1>2, <2>1, EndIsQuiet DEF ReadBoard
    <2>2. CASE ~NotFound(a)
      <3>1. PICK b : mem' = [mem EXCEPT ![a].board = b]
        BY <1>2, <2>2 DEF ReadBoard
      <3>2. pc' = [pc EXCEPT ![a] = AfterRead(mem[a].cmd)]
        BY <1>2, <2>2 DEF ReadBoard, Goto
      <3>3. /\ Acting(a) /\ SameTask(a) /\ mem'[a].target = mem[a].target
            /\ pc'[a] = AfterRead(mem[a].cmd)
        BY <1>1, <3>1, <3>2, BoardLocals
      <3>4. mem[a].cmd \in CommandNames
        BY <1>2 DEF IInv, Control, ReadBoard
      <3>5. AfterRead(mem[a].cmd) \in {"ledgers", "truncate", "append", "decide"}
        BY <3>4, Zenon DEF AfterRead, CommandNames, Claiming
      <3> QED
        BY <1>1, <3>3, <3>5, TaskIsQuiet
    <2> QED
      BY <2>1, <2>2
  <1>3. CASE ReadLedgers(a) \/ ReadLocks(a)
    <2>1. PICK b : \E s, t : mem' = [mem EXCEPT ![a].board = b, ![a].settled = s, ![a].stalls = t]
      BY <1>3 DEF ReadLedgers, ReadLocks
    <2>2. PICK s : \E t : mem' = [mem EXCEPT ![a].board = b, ![a].settled = s, ![a].stalls = t]
      BY <2>1
    <2>3. PICK t : mem' = [mem EXCEPT ![a].board = b, ![a].settled = s, ![a].stalls = t]
      BY <2>2
    <2>4. AfterLocks(a) \in {"unlock", "ask", "truncate", "choose"} \/ ReadLedgers(a)
      <3>1. pc[a] = "locks" => mem[a].cmd \in Claiming \cup {"status", "sync"}
        BY DEF IInv, Control
      <3>2. pc[a] \in {"locks", "locks again"} \/ ReadLedgers(a)
        BY <1>3 DEF ReadLocks
      <3> QED
        BY <3>1, <3>2, Zenon DEF AfterLocks
    <2>5. PICK l : pc' = [pc EXCEPT ![a] = l] /\ l # "post"
      BY <1>3, <2>4 DEF ReadLedgers, ReadLocks, Goto
    <2>6. /\ Acting(a) /\ SameTask(a) /\ mem'[a].target = mem[a].target /\ pc'[a] = l
      BY <1>1, <2>3, <2>5, SteppingLocals
    <2> QED
      BY <1>1, <2>5, <2>6, TaskIsQuiet
  <1> QED
    BY <1>2, <1>3

LEMMA ChangesKeepPosted ==
  ASSUME IInv, Posted, NEW a \in Agent,
         WritePayload(a) \/ AppendLedger(a) \/ RecordSolved(a) \/ AskPlatform(a)
  PROVE  Posted'
  <1>1. /\ TypeOK /\ UNCHANGED <<posts, judged, contended, unanswered>>
        /\ pc[a] \in {"payload", "append", "credit", "ask"}
    BY DEF IInv, WritePayload, AppendLedger, RecordSolved, AskPlatform, ledgers, ghosts
  <1>2. PICK b : mem' = [mem EXCEPT ![a].board = b]
    BY DEF WritePayload, AppendLedger, RecordSolved, AskPlatform
  <1>3. PICK l \in {"truncate", "unlock", "ledgers again"} : pc' = [pc EXCEPT ![a] = l]
    BY DEF WritePayload, AppendLedger, RecordSolved, AskPlatform, Goto
  <1>4. Acting(a) /\ SameTask(a) /\ mem'[a].target = mem[a].target /\ pc'[a] = l
    BY <1>1, <1>2, <1>3, BoardLocals
  <1> QED
    BY <1>1, <1>4, TaskIsQuiet

(* The check of submissions.jsonl comes right before the post.             *)
LEMMA SameLocalsKeepPosted ==
  ASSUME IInv, Posted, NEW a \in Agent, Decide(a) \/ Truncate(a)
  PROVE  Posted'
  <1>1. /\ TypeOK /\ UNCHANGED <<posts, judged, contended, unanswered>>
        /\ pc[a] \in {"decide", "truncate"} /\ mem' = mem
        /\ Decide(a) => About(a) \notin judged
    BY DEF IInv, Decide, Truncate, Submittable, About, ledgers, ghosts
  <1>2. PICK l \in {"post", "fill"} : pc' = [pc EXCEPT ![a] = l] /\ (l = "post" => Decide(a))
    BY DEF Decide, Truncate, Goto
  <1>3. Acting(a) /\ SameTask(a) /\ pc'[a] = l
    BY <1>1, <1>2, UnchangedLocals
  <1> QED
    BY <1>1, <1>2, <1>3, TaskIsQuiet

LEMMA UnlockKeepsPosted ==
  ASSUME IInv, Posted, NEW a \in Agent, Unlock(a)
  PROVE  Posted'
  <1>1. /\ mem \in [Agent -> Locals] /\ pc \in [Agent -> Labels] /\ mem[a] \in Locals
        /\ UNCHANGED <<posts, judged, contended, unanswered>> /\ pc[a] = "unlock"
    BY DEF IInv, TypeOK, Unlock, ledgers, ghosts
  <1>2. PICK b : mem' = [mem EXCEPT ![a].freed = b]
    BY DEF Unlock
  <1>3. PICK l \in {"read", "truncate"} : pc' = [pc EXCEPT ![a] = l]
    BY DEF Unlock, Goto
  <1>4. /\ \A o \in Agent \ {a} : mem'[o] = mem[o]
        /\ mem'[a].cmd = mem[a].cmd /\ mem'[a].flag = mem[a].flag
        /\ mem'[a].known = mem[a].known /\ mem'[a].target = mem[a].target
    BY <1>1, <1>2 DEF Locals
  <1>5. Acting(a) /\ SameTask(a) /\ pc'[a] = l
    BY <1>1, <1>3, <1>4 DEF Acting, SameTask
  <1> QED
    BY <1>1, <1>4, <1>5, TaskIsQuiet

LEMMA TakeLockKeepsPosted ==
  ASSUME IInv, Memory, Posted, NEW a \in Agent, TakeLock(a)
  PROVE  Posted'
  <1>1. Acting(a) /\ SameTask(a) /\ pc'[a] = "payload"
    BY TargetUnknown
  <1>2. UNCHANGED <<posts, judged, contended, unanswered>> /\ pc[a] = "choose"
    BY DEF TakeLock, ledgers, ghosts
  <1>3. mem[a].cmd # "submit"
    BY <1>2 DEF Memory, Remembers, Claiming
  <1>4. SameSubmission(a) /\ pc'[a] # "post"
    BY <1>1, <1>3 DEF SameTask, SameSubmission
  <1> QED
    BY <1>1, <1>2, <1>4, QuietStep

LEMMA EndsKeepPosted ==
  ASSUME IInv, Posted, NEW a \in Agent, ClaimRefused(a) \/ SubmitRefused(a) \/ Fill(a)
  PROVE  Posted'
  <1>1. /\ TypeOK /\ Leave(a) /\ pc[a] \in {"choose", "decide", "fill"}
        /\ UNCHANGED <<posts, judged, contended, unanswered>>
    BY DEF IInv, ClaimRefused, SubmitRefused, Fill, ledgers, ghosts
  <1> QED
    BY <1>1, EndIsQuiet

LEMMA StepKeepsPosted == IInv /\ Memory /\ Posted /\ [Next]_vars => Posted'
  <1> SUFFICES ASSUME IInv, Memory, Posted, [Next]_vars PROVE Posted'
    OBVIOUS
  <1>1. CASE UNCHANGED vars
    <2>1. UNCHANGED <<pc, mem, posts, judged, contended, unanswered>>
      BY <1>1 DEF vars, ledgers, ghosts
    <2>2. Contention'
      BY <2>1 DEF Posted, Contention, About
    <2>3. ASSUME NEW p \in Challenge \X Flag, posts'[p] # 0 PROVE Accounted(p)'
      <3>1. Accounted(p)
        BY <2>1, <2>3 DEF Posted
      <3> QED
        BY <2>1, <3>1 DEF Accounted, About
    <2>4. NoRepeatedPost' /\ posts' \in [Challenge \X Flag -> 0..2]
      BY <2>1 DEF Posted, NoRepeatedPost
    <2> QED
      BY <2>1, <2>2, <2>3, <2>4 DEF Posted, About
  <1>2. ASSUME NEW a \in Agent, NEW cmd \in CommandNames, NEW c \in Challenge \cup {Nobody},
               NEW f \in Flag, Begin(a, cmd, c, f)
        PROVE  Posted'
    BY <1>2, BeginKeepsPosted
  <1>3. ASSUME NEW a \in Agent, Step(a)
        PROVE  Posted'
    <2>1. CASE ReadBoard(a) \/ ReadLedgers(a) \/ ReadLocks(a)
      BY <2>1, ReadsKeepPosted
    <2>2. CASE WritePayload(a) \/ AppendLedger(a) \/ RecordSolved(a) \/ AskPlatform(a)
      BY <2>2, ChangesKeepPosted
    <2>3. CASE Decide(a) \/ Truncate(a)
      BY <2>3, SameLocalsKeepPosted
    <2>4. CASE Unlock(a)
      BY <2>4, UnlockKeepsPosted
    <2>5. CASE TakeLock(a)
      BY <2>5, TakeLockKeepsPosted
    <2>6. CASE ClaimRefused(a) \/ SubmitRefused(a) \/ Fill(a)
      BY <2>6, EndsKeepPosted
    <2>7. CASE Post(a)
      BY <2>7, PostKeepsPosted
    <2>8. CASE RecordVerdict(a)
      BY <2>8, RecordVerdictKeepsPosted
    <2> QED
      BY <1>3, <2>1, <2>2, <2>3, <2>4, <2>5, <2>6, <2>7, <2>8 DEF Step
  <1>4. ASSUME NEW a \in Agent, Die(a)
        PROVE  Posted'
    BY <1>4, DieKeepsPosted
  <1> QED
    BY <1>1, <1>2, <1>3, <1>4 DEF Next

(* No flag goes to the platform twice through the operator board unless    *)
(* two sessions were submitting it at once or nothing recorded the first   *)
(* answer: the check of submissions.jsonl is not atomic with the post, and *)
(* that is the whole of what it lets through.                              *)
THEOREM FlagIsPostedOnce == Spec => []NoRepeatedPost
  <1>1. Init => Posted
    <2> SUFFICES ASSUME Init PROVE Posted
      OBVIOUS
    <2>1. Contention
      BY DEF Init, Contention, Blank
    <2>2. posts = [p \in Challenge \X Flag |-> 0] /\ \A a \in Agent : pc[a] # "post"
      BY DEF Init
    <2> QED
      BY <2>1, <2>2 DEF Posted, NoRepeatedPost
  <1>2. Posted => NoRepeatedPost
    BY DEF Posted
  <1> QED
    BY <1>1, <1>2, StepKeepsPosted, Invariance, MemoryInvariance, PTL DEF Spec

-----------------------------------------------------------------------------
(***************************************************************************)
(* Rehearsal.  RInv is inductive: where a rehearsal may have something up, *)
(* who is on its queue, and what that queue, the platform and the report   *)
(* know of each other.                                                     *)
(***************************************************************************)
USE RehearsalAssumption


\* The full rehearsals, which share a queue and a contest.
Grand == kind \in {"full", "codex"}

\* Workers are at it; where each thing may be there, ...
Working   == {"start", "wait", "stop", "threads", "join", "leave"}
ArmedAt   == Working \cup {"intake", "arm", "pool", "public", "public_stop",
                           "f_stop", "f_resources", "f_pool", "d_control"}
PublicAt  == Working \cup {"public_stop", "f_stop", "f_resources"}
PoolAt    == Working \cup {"public", "public_stop", "f_stop", "f_resources", "f_pool"}
StaffedAt == Working \cup {"f_stop", "f_resources", "f_pool", "d_control", "d_stop"}
\* ... and where what a killed run left is gone.
PublicCleared == {"c_pool", "serve", "intake", "arm", "pool", "public"}
PoolCleared   == {"serve", "intake", "arm", "pool"}
StaffCleared  == {"c_resources", "c_pool", "serve", "intake", "arm", "pool", "public", "public_stop"}
\* Where the fake platform is up, and where it has been.
ServedAt == Working \cup {"intake", "arm", "pool", "public", "public_stop"}
Played   == ServedAt \cup Teardown \cup {"count"}

\* Nothing of a full rehearsal is there outside its steps, unless a run was broken off.
Gone(at, cleared) == ~(Grand /\ doing \in at) /\ (~unclean \/ (Grand /\ doing \in cleared))

\* A worker that holds a challenge.
Engaged == {"solve", "post", "record", "settle"}

\* The steps of each rehearsal.
FullSteps == {"reset", "init", "c_stop", "c_resources", "c_pool", "serve", "intake", "arm", "pool", "public",
              "public_stop", "start", "wait", "stop", "leave", "f_stop", "f_resources", "f_pool",
              "d_control", "d_stop", "d_resources", "d_pool", "count", "over"}
CodexSteps == {"reset", "init", "c_stop", "c_resources", "c_pool", "serve", "intake", "arm", "pool", "public",
              "public_stop", "threads", "join", "leave", "f_stop", "f_resources", "f_pool",
              "d_control", "d_stop", "d_resources", "d_pool", "count", "over"}
E2eSteps == {"init", "serve", "intake", "threads", "join", "count", "leave", "over"}
SmokeSteps == {"init", "serve", "intake", "start", "wait", "stop", "count", "leave", "over"}

\* The rehearsal is at a step of its own kind.
OnCourse == \/ kind = "full" /\ doing \in FullSteps
            \/ kind = "codex" /\ doing \in CodexSteps
            \/ kind = "e2e" /\ doing \in E2eSteps
            \/ kind = "smoke" /\ doing \in SmokeSteps

\* The types of everything, and the steps at which the platform is up.
OnStage ==
  /\ kind \in Kinds /\ OnCourse
  /\ raised \in BOOLEAN /\ waited \in BOOLEAN /\ stopped \in BOOLEAN /\ server \in BOOLEAN
  /\ armed \in BOOLEAN /\ public \in BOOLEAN /\ pool \in BOOLEAN
  /\ broken \in BOOLEAN /\ unclean \in BOOLEAN
  /\ runs \in 0..MaxRuns /\ killings \in 0..MaxKillings /\ raises \in 0..MaxRaises
  /\ doing # "over" => runs > 0
  /\ raised => Grand \/ doing \in {"join", "over"}
  /\ server => doing \in ServedAt \/ (~Grand /\ doing = "count")

\* The types of what is on file.
Records ==
  /\ db \in [Task -> {"none", "ready", "busy", "parked", "solved"}]
  /\ accepted \subseteq Task /\ platform \subseteq Task
  /\ report \in [run : 0..MaxRuns, ok : BOOLEAN, solved : SUBSET Task]

(* A worker is on the queue of this run or of an earlier one, and holds a  *)
(* challenge from its claim to its verdict.                                *)
Company ==
  /\ crew \subseteq Member
  /\ \A m \in crew : m.home <= runs /\ (m.at \in Engaged => m.task \in Task)

(* What a full rehearsal has up is there only at its own steps, unless a   *)
(* run was killed or broke off in its teardown; then the next one clears   *)
(* it.                                                                     *)
Ground ==
  /\ ~unclean /\ ~(Grand /\ doing \in ArmedAt) => ~armed
  /\ Gone(PublicAt, PublicCleared) => ~public
  /\ Gone(PoolAt, PoolCleared) => ~pool
  /\ Gone(StaffedAt, StaffCleared) => \A m \in crew : m.home = 0 => m.how # "process"

(* Threads live only while the rehearsal joins them; a worker that no stop *)
(* finds comes of a broken start; the queue of a small rehearsal has no    *)
(* worker before its own, and an e2e run no process.                       *)
Staff ==
  /\ \A m \in crew : m.how = "thread" => doing = "join" /\ m.home = Here
  /\ ~broken => \A m \in crew : m.how # "unlisted"
  /\ ~Grand /\ doing \in {"init", "serve", "intake", "threads"} => \A m \in crew : m.home # runs
  /\ kind = "e2e" /\ runs > 0 => \A m \in crew : m.home = runs => m.how = "thread"

(* From the reset to the intake the queue holds no challenge.              *)
NothingYet ==
  doing \in {"c_stop", "c_resources", "c_pool", "serve", "intake"} \/ (Grand /\ doing = "init") =>
    \A t \in Task : db[t] = "none"

(* What the queue counts as solved, or a worker is about to, the platform  *)
(* of this run has accepted.                                               *)
Granted ==
  ~broken /\ doing \in Played =>
    /\ \A m \in crew : m.home = Here /\ m.at \in {"record", "settle"} => m.task \in platform
    /\ \A t \in Task : db[t] = "solved" => t \in platform

(* In a smoke every claim has its worker; once all ended in time no claim  *)
(* is left.                                                                *)
Busy ==
  kind = "smoke" /\ ~broken =>
    /\ doing \in {"start", "wait"} => \A t \in Task : db[t] = "busy" =>
         \E m \in crew : m.home = runs /\ m.at \in Engaged /\ m.task = t
    /\ doing \in {"stop", "count"} /\ waited =>
         (\A m \in crew : m.home # runs) /\ \A t \in Task : db[t] # "busy"

(* A report is the last thing a run does, but for taking the platform      *)
(* down.                                                                   *)
Reported ==
  /\ report.run <= runs
  /\ report.run = runs => doing = "over" \/ (~Grand /\ doing = "leave")

(* The inductive invariant of the rehearsals.                              *)
RInv == OnStage /\ Records /\ Company /\ Ground /\ Staff /\ NothingYet /\ Granted /\ Busy /\ Reported /\ ReportHolds
-----------------------------------------------------------------------------
(* The steps of run_full_rehearsal with worker processes, each with the    *)
(* next one.                                                               *)
LEMMA FullOrder ==
  /\ {Script("full")[i] : i \in DOMAIN Script("full")} = FullSteps
  /\ After("full", "reset") = "init" /\ After("full", "init") = "c_stop"
  /\ After("full", "c_stop") = "c_resources" /\ After("full", "c_resources") = "c_pool"
  /\ After("full", "c_pool") = "serve" /\ After("full", "serve") = "intake"
  /\ After("full", "intake") = "arm" /\ After("full", "arm") = "pool"
  /\ After("full", "pool") = "public" /\ After("full", "public") = "public_stop"
  /\ After("full", "public_stop") = "start" /\ After("full", "start") = "wait"
  /\ After("full", "wait") = "stop" /\ After("full", "stop") = "leave"
  /\ After("full", "leave") = "f_stop" /\ After("full", "f_stop") = "f_resources"
  /\ After("full", "f_resources") = "f_pool" /\ After("full", "f_pool") = "d_control"
  /\ After("full", "d_control") = "d_stop" /\ After("full", "d_stop") = "d_resources"
  /\ After("full", "d_resources") = "d_pool" /\ After("full", "d_pool") = "count"
  /\ After("full", "count") = "over"
  <1> DEFINE s == Script("full")
  <1>1. /\ DOMAIN s = 1..24
        /\ s[1] = "reset" /\ s[2] = "init" /\ s[3] = "c_stop" /\ s[4] = "c_resources" /\ s[5] = "c_pool"
        /\ s[6] = "serve" /\ s[7] = "intake" /\ s[8] = "arm" /\ s[9] = "pool"
        /\ s[10] = "public" /\ s[11] = "public_stop" /\ s[12] = "start" /\ s[13] = "wait"
        /\ s[14] = "stop" /\ s[15] = "leave" /\ s[16] = "f_stop" /\ s[17] = "f_resources"
        /\ s[18] = "f_pool" /\ s[19] = "d_control" /\ s[20] = "d_stop" /\ s[21] = "d_resources"
        /\ s[22] = "d_pool" /\ s[23] = "count" /\ s[24] = "over"
    BY DEF Script
  <1> HIDE DEF s
  <1>2. \A i, j \in 1..24 : s[i] = s[j] => i = j
    BY <1>1
  <1>3. ASSUME NEW i \in 1..23
        PROVE After("full", s[i]) = s[i + 1]
    <2>1. (CHOOSE j \in DOMAIN s : s[j] = s[i]) = i
      BY <1>1, <1>2
    <2> QED
      BY <2>1 DEF After, s
  <1>4. {s[i] : i \in DOMAIN s} = FullSteps
    BY <1>1 DEF FullSteps
  <1> QED
    BY <1>1, <1>3, <1>4 DEF s

(* The same with threads.                                                  *)
LEMMA CodexOrder ==
  /\ {Script("codex")[i] : i \in DOMAIN Script("codex")} = CodexSteps
  /\ After("codex", "reset") = "init" /\ After("codex", "init") = "c_stop"
  /\ After("codex", "c_stop") = "c_resources" /\ After("codex", "c_resources") = "c_pool"
  /\ After("codex", "c_pool") = "serve" /\ After("codex", "serve") = "intake"
  /\ After("codex", "intake") = "arm" /\ After("codex", "arm") = "pool"
  /\ After("codex", "pool") = "public" /\ After("codex", "public") = "public_stop"
  /\ After("codex", "public_stop") = "threads" /\ After("codex", "threads") = "join"
  /\ After("codex", "join") = "leave" /\ After("codex", "leave") = "f_stop"
  /\ After("codex", "f_stop") = "f_resources" /\ After("codex", "f_resources") = "f_pool"
  /\ After("codex", "f_pool") = "d_control" /\ After("codex", "d_control") = "d_stop"
  /\ After("codex", "d_stop") = "d_resources" /\ After("codex", "d_resources") = "d_pool"
  /\ After("codex", "d_pool") = "count" /\ After("codex", "count") = "over"
  <1> DEFINE s == Script("codex")
  <1>1. /\ DOMAIN s = 1..23
        /\ s[1] = "reset" /\ s[2] = "init" /\ s[3] = "c_stop" /\ s[4] = "c_resources" /\ s[5] = "c_pool"
        /\ s[6] = "serve" /\ s[7] = "intake" /\ s[8] = "arm" /\ s[9] = "pool"
        /\ s[10] = "public" /\ s[11] = "public_stop" /\ s[12] = "threads" /\ s[13] = "join"
        /\ s[14] = "leave" /\ s[15] = "f_stop" /\ s[16] = "f_resources" /\ s[17] = "f_pool"
        /\ s[18] = "d_control" /\ s[19] = "d_stop" /\ s[20] = "d_resources" /\ s[21] = "d_pool"
        /\ s[22] = "count" /\ s[23] = "over"
    BY DEF Script
  <1> HIDE DEF s
  <1>2. \A i, j \in 1..23 : s[i] = s[j] => i = j
    BY <1>1
  <1>3. ASSUME NEW i \in 1..22
        PROVE After("codex", s[i]) = s[i + 1]
    <2>1. (CHOOSE j \in DOMAIN s : s[j] = s[i]) = i
      BY <1>1, <1>2
    <2> QED
      BY <2>1 DEF After, s
  <1>4. {s[i] : i \in DOMAIN s} = CodexSteps
    BY <1>1 DEF CodexSteps
  <1> QED
    BY <1>1, <1>3, <1>4 DEF s

(* The steps of run_local_e2e.                                             *)
LEMMA E2eOrder ==
  /\ {Script("e2e")[i] : i \in DOMAIN Script("e2e")} = E2eSteps
  /\ After("e2e", "init") = "serve" /\ After("e2e", "serve") = "intake"
  /\ After("e2e", "intake") = "threads" /\ After("e2e", "threads") = "join"
  /\ After("e2e", "join") = "count" /\ After("e2e", "count") = "leave"
  /\ After("e2e", "leave") = "over"
  <1> DEFINE s == Script("e2e")
  <1>1. /\ DOMAIN s = 1..8
        /\ s[1] = "init" /\ s[2] = "serve" /\ s[3] = "intake" /\ s[4] = "threads" /\ s[5] = "join"
        /\ s[6] = "count" /\ s[7] = "leave" /\ s[8] = "over"
    BY DEF Script
  <1> HIDE DEF s
  <1>2. \A i, j \in 1..8 : s[i] = s[j] => i = j
    BY <1>1
  <1>3. ASSUME NEW i \in 1..7
        PROVE After("e2e", s[i]) = s[i + 1]
    <2>1. (CHOOSE j \in DOMAIN s : s[j] = s[i]) = i
      BY <1>1, <1>2
    <2> QED
      BY <2>1 DEF After, s
  <1>4. {s[i] : i \in DOMAIN s} = E2eSteps
    BY <1>1 DEF E2eSteps
  <1> QED
    BY <1>1, <1>3, <1>4 DEF s

(* The steps of run_supervisor_smoke.                                      *)
LEMMA SmokeOrder ==
  /\ {Script("smoke")[i] : i \in DOMAIN Script("smoke")} = SmokeSteps
  /\ After("smoke", "init") = "serve" /\ After("smoke", "serve") = "intake"
  /\ After("smoke", "intake") = "start" /\ After("smoke", "start") = "wait"
  /\ After("smoke", "wait") = "stop" /\ After("smoke", "stop") = "count"
  /\ After("smoke", "count") = "leave" /\ After("smoke", "leave") = "over"
  <1> DEFINE s == Script("smoke")
  <1>1. /\ DOMAIN s = 1..9
        /\ s[1] = "init" /\ s[2] = "serve" /\ s[3] = "intake" /\ s[4] = "start" /\ s[5] = "wait"
        /\ s[6] = "stop" /\ s[7] = "count" /\ s[8] = "leave" /\ s[9] = "over"
    BY DEF Script
  <1> HIDE DEF s
  <1>2. \A i, j \in 1..9 : s[i] = s[j] => i = j
    BY <1>1
  <1>3. ASSUME NEW i \in 1..8
        PROVE After("smoke", s[i]) = s[i + 1]
    <2>1. (CHOOSE j \in DOMAIN s : s[j] = s[i]) = i
      BY <1>1, <1>2
    <2> QED
      BY <2>1 DEF After, s
  <1>4. {s[i] : i \in DOMAIN s} = SmokeSteps
    BY <1>1 DEF SmokeSteps
  <1> QED
    BY <1>1, <1>3, <1>4 DEF s


(* Where a step leads, whichever rehearsal it is of.                       *)
LEMMA Course ==
  ASSUME OnCourse, doing # "over", Proceed
  PROVE /\ doing = "reset" => Grand /\ doing' = "init"
        /\ doing = "init" => (Grand /\ doing' = "c_stop") \/ (~Grand /\ doing' = "serve")
        /\ doing = "c_stop" => Grand /\ doing' = "c_resources"
        /\ doing = "c_resources" => Grand /\ doing' = "c_pool"
        /\ doing = "c_pool" => Grand /\ doing' = "serve"
        /\ doing = "serve" => doing' = "intake"
        /\ doing = "intake" => \/ Grand /\ doing' = "arm"
                               \/ kind = "smoke" /\ doing' = "start"
                               \/ kind = "e2e" /\ doing' = "threads"
        /\ doing = "arm" => Grand /\ doing' = "pool"
        /\ doing = "pool" => Grand /\ doing' = "public"
        /\ doing = "public" => Grand /\ doing' = "public_stop"
        /\ doing = "public_stop" => \/ kind = "full" /\ doing' = "start"
                                    \/ kind = "codex" /\ doing' = "threads"
        /\ doing = "start" => kind \in {"full", "smoke"} /\ doing' = "wait"
        /\ doing = "wait" => kind \in {"full", "smoke"} /\ doing' = "stop"
        /\ doing = "stop" => (kind = "full" /\ doing' = "leave") \/ (kind = "smoke" /\ doing' = IF raised THEN "over" ELSE "count")
        /\ doing = "threads" => kind \in {"codex", "e2e"} /\ doing' = "join"
        /\ doing = "join" => (kind = "codex" /\ doing' = "leave") \/ (kind = "e2e" /\ doing' = IF raised THEN "over" ELSE "count")
        /\ doing = "leave" => (Grand /\ doing' = "f_stop") \/ (~Grand /\ doing' = "over")
        /\ doing = "f_stop" => Grand /\ doing' = "f_resources"
        /\ doing = "f_resources" => Grand /\ doing' = "f_pool"
        /\ doing = "f_pool" => Grand /\ doing' = "d_control"
        /\ doing = "d_control" => Grand /\ doing' = "d_stop"
        /\ doing = "d_stop" => Grand /\ doing' = "d_resources"
        /\ doing = "d_resources" => Grand /\ doing' = "d_pool"
        /\ doing = "d_pool" => Grand /\ doing' \in {"count", "over"}
        /\ doing = "count" => (Grand /\ doing' = "over") \/ (~Grand /\ doing' = "leave")
        /\ kind' = kind => OnCourse'
  <1>1. CASE kind = "full"
    BY <1>1, FullOrder DEF OnCourse, FullSteps, Proceed, Grand
  <1>2. CASE kind = "codex"
    BY <1>2, CodexOrder DEF OnCourse, CodexSteps, Proceed, Grand
  <1>3. CASE kind = "e2e"
    BY <1>3, E2eOrder DEF OnCourse, E2eSteps, Proceed, Grand
  <1>4. CASE kind = "smoke"
    BY <1>4, SmokeOrder DEF OnCourse, SmokeSteps, Proceed, Grand
  <1> QED
    BY <1>1, <1>2, <1>3, <1>4 DEF OnCourse
-----------------------------------------------------------------------------
\* What a worker leaves alone.
Unmoved == UNCHANGED <<kind, doing, raised, waited, stopped, server, armed, public, pool, report, runs,
                       killings, raises, broken, unclean>>

(* A worker that goes on is the same worker on the same queue.             *)
LEMMA Becoming ==
  ASSUME NEW m \in Member, NEW at \in {"ready", "gate", "solve", "post", "record", "settle"},
         NEW t \in Task \cup {NoTask}, Becomes(m, at, t)
  PROVE \E n \in Member : /\ n.home = m.home /\ n.how = m.how /\ n.at = at /\ n.task = t
                          /\ crew' = (crew \ {m}) \cup {n}
  <1>1. PICK n : n = [m EXCEPT !.at = at, !.task = t]
    OBVIOUS
  <1>2. n \in Member /\ n.home = m.home /\ n.how = m.how /\ n.at = at /\ n.task = t
    BY <1>1 DEF Member
  <1> QED
    BY <1>1, <1>2 DEF Becomes

\* What a worker m does and what becomes of it, n.
Labours(m, n) ==
  /\ n \in Member /\ n.home = m.home /\ n.how = m.how
  /\ crew' = crew \ {m} \/ crew' = (crew \ {m}) \cup {n}
  /\ Unmoved /\ accepted' \subseteq Task
  /\ \/ /\ m.at \in {"gate", "ready"} /\ n.at = "ready" /\ db' = db /\ platform' = platform
     \/ /\ m.at = "ready" /\ n.at = "solve" /\ n.task \in Task /\ m.home = Here
        /\ db[n.task] = "ready" /\ db' = [db EXCEPT ![n.task] = "busy"]
        /\ platform' = platform /\ crew' = (crew \ {m}) \cup {n}
     \/ /\ n.task = m.task /\ db' = db /\ crew' = (crew \ {m}) \cup {n}
        /\ \/ m.at = "solve" /\ n.at = "post" /\ platform' = platform
           \/ m.at = "post" /\ n.at = "record" /\ platform' = platform \cup {m.task}
           \/ m.at = "record" /\ n.at = "settle" /\ platform' = platform
     \/ /\ n.at = "ready" /\ platform' = platform
        /\ \/ m.at \in {"solve", "post"} /\ Park(m, "parked")
           \/ m.at = "settle" /\ Park(m, "solved")

(* Every step of a worker is one of those Labours lists.                   *)
LEMMA Labouring ==
  ASSUME Records, Company, NEW m \in crew, Work(m)
  PROVE \E n : Labours(m, n)
  <1>m. m \in Member /\ (m.at \in Engaged => m.task \in Task)
    BY DEF Company
  <1>t. m.task \in Task \cup {NoTask} /\ NoTask \in Task \cup {NoTask}
    BY <1>m DEF Member
  <1>u. Unmoved
    BY DEF Work, Unmoved
  <1>a. accepted \subseteq Task
    BY DEF Records
  <1>r. ASSUME Rests(m)
        PROVE \E n \in Member : /\ n.home = m.home /\ n.how = m.how /\ n.at = "ready"
                                /\ crew' = crew \ {m} \/ crew' = (crew \ {m}) \cup {n}
    <2>1. CASE crew' = crew \ {m}
      <3>1. PICK n : n = [m EXCEPT !.at = "ready", !.task = NoTask]
        OBVIOUS
      <3>2. n \in Member /\ n.home = m.home /\ n.how = m.how /\ n.at = "ready"
        BY <1>m, <3>1 DEF Member
      <3> QED
        BY <2>1, <3>2
    <2>2. CASE Becomes(m, "ready", NoTask)
      BY <1>m, <1>t, <2>2, Becoming
    <2> QED
      BY <1>r, <2>1, <2>2 DEF Rests, Quits
  <1>1. CASE EnterGate(m)
    <2>1. PICK n \in Member : /\ n.home = m.home /\ n.how = m.how /\ n.at = "ready"
                              /\ crew' = (crew \ {m}) \cup {n}
      BY <1>1, <1>m, <1>t, Becoming DEF EnterGate
    <2> QED
      BY <1>1, <1>u, <1>a, <2>1 DEF EnterGate, Labours
  <1>2. CASE Claim(m)
    <2>1. CASE \E t \in Queued(m) : Becomes(m, "solve", t) /\ db' = [db EXCEPT ![t] = "busy"]
      <3>1. PICK t \in Queued(m) : Becomes(m, "solve", t) /\ db' = [db EXCEPT ![t] = "busy"]
        BY <2>1
      <3>2. t \in Task /\ m.home = Here /\ db[t] = "ready"
        BY DEF Queued, AtHome
      <3>3. PICK n \in Member : /\ n.home = m.home /\ n.how = m.how /\ n.at = "solve" /\ n.task = t
                                /\ crew' = (crew \ {m}) \cup {n}
        BY <1>m, <3>1, <3>2, Becoming
      <3> QED
        BY <1>2, <1>u, <1>a, <3>1, <3>2, <3>3 DEF Claim, Labours
    <2>2. CASE Quits(m) /\ UNCHANGED db
      <3>1. PICK n : n = [m EXCEPT !.at = "ready"]
        OBVIOUS
      <3>2. n \in Member /\ n.home = m.home /\ n.how = m.how /\ n.at = "ready"
        BY <1>m, <3>1 DEF Member
      <3> QED
        BY <1>2, <1>u, <1>a, <2>2, <3>2 DEF Claim, Quits, Labours
    <2> QED
      BY <1>2, <2>1, <2>2 DEF Claim
  <1>3. CASE Solve(m)
    <2>1. CASE Becomes(m, "post", m.task) /\ UNCHANGED db
      <3>1. PICK n \in Member : /\ n.home = m.home /\ n.how = m.how /\ n.at = "post" /\ n.task = m.task
                                /\ crew' = (crew \ {m}) \cup {n}
        BY <1>m, <1>t, <2>1, Becoming
      <3> QED
        BY <1>3, <1>u, <1>a, <2>1, <3>1 DEF Solve, Labours
    <2>2. CASE Park(m, "parked") /\ Rests(m)
      BY <1>3, <1>u, <1>a, <1>r, <2>2 DEF Solve, Labours
    <2> QED
      BY <1>3, <2>1, <2>2 DEF Solve
  <1>4. CASE PostFlag(m)
    <2>1. CASE platform' = platform \cup {m.task} /\ Becomes(m, "record", m.task) /\ UNCHANGED db
      <3>1. PICK n \in Member : /\ n.home = m.home /\ n.how = m.how /\ n.at = "record" /\ n.task = m.task
                                /\ crew' = (crew \ {m}) \cup {n}
        BY <1>m, <1>t, <2>1, Becoming
      <3> QED
        BY <1>4, <1>u, <1>a, <2>1, <3>1 DEF PostFlag, Labours
    <2>2. CASE Park(m, "parked") /\ Rests(m) /\ UNCHANGED platform
      BY <1>4, <1>u, <1>a, <1>r, <2>2 DEF PostFlag, Labours
    <2> QED
      BY <1>4, <2>1, <2>2 DEF PostFlag
  <1>5. CASE Record(m)
    <2>1. PICK n \in Member : /\ n.home = m.home /\ n.how = m.how /\ n.at = "settle" /\ n.task = m.task
                              /\ crew' = (crew \ {m}) \cup {n}
      BY <1>5, <1>m, <1>t, Becoming DEF Record
    <2>2. accepted' \subseteq Task
      BY <1>5, <1>m, <1>a DEF Record, Engaged
    <2> QED
      BY <1>5, <1>u, <2>1, <2>2 DEF Record, Labours
  <1>6. CASE Settle(m)
    BY <1>6, <1>u, <1>a, <1>r DEF Settle, Labours
  <1> QED
    BY <1>1, <1>2, <1>3, <1>4, <1>5, <1>6 DEF Work

(* The types of a rehearsal's own state, and that its platform is up at no *)
(* other step.                                                             *)
LEMMA StageKept ==
  ASSUME OnStage, Records, Company, [RehearsalNext]_rehearsalVars
  PROVE OnStage'
  <1>1. CASE Unmoved
    BY <1>1 DEF Unmoved, OnStage, OnCourse, Grand
  <1>2. ASSUME NEW k \in Kinds, BeginRehearsal(k)
        PROVE OnStage'
    <2>1. Head(Script(k)) = IF k \in {"full", "codex"} THEN "reset" ELSE "init"
      <3>1. CASE k = "full"
        BY <3>1 DEF Script
      <3>2. CASE k = "codex"
        BY <3>2 DEF Script
      <3>3. CASE k = "e2e"
        BY <3>3 DEF Script
      <3>4. CASE k = "smoke"
        BY <3>4 DEF Script
      <3> QED
        BY <3>1, <3>2, <3>3, <3>4
    <2>2. OnCourse'
      BY <1>2, <2>1 DEF BeginRehearsal, OnCourse, FullSteps, CodexSteps, E2eSteps, SmokeSteps
    <2>3. server = FALSE
      BY <1>2 DEF BeginRehearsal, OnStage, ServedAt, Working
    <2>4. runs' \in 0..MaxRuns /\ runs' > 0
      BY <1>2 DEF BeginRehearsal, OnStage
    <2>5. /\ raised' = FALSE /\ raised' \in BOOLEAN /\ waited' \in BOOLEAN /\ stopped' \in BOOLEAN
      BY <1>2, Zenon DEF BeginRehearsal
    <2>6. /\ kind' \in Kinds /\ server' = server
          /\ UNCHANGED <<armed, public, pool, broken, unclean, killings, raises>>
      BY <1>2 DEF BeginRehearsal, left
    <2> QED
      BY <2>2, <2>3, <2>4, <2>5, <2>6 DEF OnStage
  <1>t. /\ raised \in BOOLEAN /\ waited \in BOOLEAN /\ stopped \in BOOLEAN /\ server \in BOOLEAN
        /\ armed \in BOOLEAN /\ public \in BOOLEAN /\ pool \in BOOLEAN
        /\ broken \in BOOLEAN /\ unclean \in BOOLEAN
        /\ runs \in 0..MaxRuns /\ (doing # "over" => runs > 0) /\ OnCourse
        /\ raised => Grand \/ doing \in {"join", "over"}
        /\ server => doing \in ServedAt \/ (~Grand /\ doing = "count")
    BY DEF OnStage
  <1>3. CASE ResetQueue \/ Intake \/ Arm \/ StartPool \/ Public \/ Wait \/ Threads
    <2>1. /\ Proceed /\ UNCHANGED <<kind, raised, server, runs, killings, raises, broken, unclean, stopped>>
          /\ doing \in {"reset", "init", "intake", "arm", "d_control", "pool", "c_pool", "f_pool", "d_pool",
                        "public", "public_stop", "c_resources", "f_resources", "d_resources", "wait", "threads"}
      BY <1>3 DEF ResetQueue, Intake, Arm, StartPool, Public, Wait, Threads
    <2>2. armed' \in BOOLEAN /\ public' \in BOOLEAN /\ pool' \in BOOLEAN /\ waited' \in BOOLEAN
      <3>1. CASE ResetQueue \/ Intake \/ Threads
        BY <1>t, <3>1 DEF ResetQueue, Intake, Threads, left
      <3>2. CASE Arm
        BY <1>t, <3>2, Zenon DEF Arm
      <3>3. CASE StartPool
        BY <1>t, <3>3, Zenon DEF StartPool
      <3>4. CASE Public
        BY <1>t, <3>4, Zenon DEF Public
      <3>5. CASE Wait
        <4>1. UNCHANGED <<armed, public, pool>>
          BY <3>5 DEF Wait, left
        <4> QED
          BY <1>t, <3>5, <4>1, Zenon DEF Wait
      <3> QED
        BY <1>3, <3>1, <3>2, <3>3, <3>4, <3>5
    <2>3. OnCourse'
      BY <1>t, <2>1, Course
    <2>4. doing' # "over" => runs' > 0
      BY <1>t, <2>1
    <2>5. server => doing' \in ServedAt
      BY <1>t, <2>1, Course DEF ServedAt, Working
    <2>6. raised' => Grand' \/ doing' \in {"join", "over"}
      BY <1>t, <2>1 DEF Grand
    <2> QED
      BY <2>1, <2>2, <2>3, <2>4, <2>5, <2>6 DEF OnStage
  <1>4. CASE Serve \/ Stop \/ LeaveServer \/ Count
    <2>1. /\ Proceed /\ UNCHANGED <<kind, raised, runs, killings, raises, broken, armed, public, pool, waited>>
          /\ \/ doing = "serve"
             \/ doing \in {"stop", "c_stop", "f_stop", "d_stop"} /\ server' = server
             \/ doing = "leave" /\ server' = FALSE
             \/ doing = "count" /\ server' = server
      BY <1>4 DEF Serve, Stop, LeaveServer, Count, left
    <2>2. unclean' \in BOOLEAN /\ stopped' \in BOOLEAN /\ server' \in BOOLEAN
      <3>1. CASE Serve
        BY <1>t, <3>1, Zenon DEF Serve
      <3>2. CASE Stop
        BY <1>t, <3>2, Zenon DEF Stop
      <3>3. CASE LeaveServer \/ Count
        BY <1>t, <3>3 DEF LeaveServer, Count
      <3> QED
        BY <1>4, <3>1, <3>2, <3>3
    <2>3. OnCourse'
      BY <1>t, <2>1, Course
    <2>4. doing' # "over" => runs' > 0
      BY <1>t, <2>1
    <2>5. server' => doing' \in ServedAt \/ (~Grand /\ doing' = "count")
      <3>1. CASE doing \in {"serve", "leave", "count"}
        BY <1>t, <2>1, <3>1, Course DEF ServedAt, Working
      <3>2. CASE doing = "stop"
        <4>1. CASE kind = "full"
          BY <1>t, <2>1, <3>2, <4>1, Course DEF ServedAt, Working
        <4>2. CASE kind = "smoke"
          BY <1>t, <2>1, <3>2, <4>2, Course DEF Grand
        <4> QED
          BY <1>t, <2>1, <3>2, <4>1, <4>2, Course
      <3>3. CASE doing \in {"c_stop", "f_stop", "d_stop"}
        BY <1>t, <2>1, <3>3 DEF ServedAt, Working
      <3> QED
        BY <2>1, <3>1, <3>2, <3>3
    <2>6. raised' => Grand' \/ doing' \in {"join", "over"}
      BY <1>t, <2>1 DEF Grand
    <2> QED
      BY <2>1, <2>2, <2>3, <2>4, <2>5, <2>6 DEF OnStage, Grand
  <1>5. CASE Start
    <2>1. /\ UNCHANGED <<kind, waited, stopped, armed, public, pool, runs, killings, unclean>>
          /\ doing = "start" /\ kind \in {"full", "smoke"}
      BY <1>5, <1>t DEF Start, OnCourse, CodexSteps, E2eSteps
    <2>k. killings' = killings /\ killings \in 0..MaxKillings
      BY <2>1 DEF OnStage
    <2>2. raises' \in 0..MaxRaises /\ raised' \in BOOLEAN /\ broken' \in BOOLEAN
      <3>1. raises' = raises \/ (raises < MaxRaises /\ raises' = raises + 1)
        BY <1>5, Zenon DEF Start
      <3>2. raised' \in BOOLEAN /\ broken' \in BOOLEAN
        BY <1>5, <1>t, Zenon DEF Start
      <3>3. raises \in 0..MaxRaises
        BY DEF OnStage
      <3> QED
        BY <3>1, <3>2, <3>3
    <2>3. /\ \/ doing' = doing /\ raised' = raised
             \/ doing' = Caught /\ raised' = TRUE
             \/ doing' = "wait" /\ raised' = raised
          /\ server' = (server /\ ~raised')
      BY <1>5, <1>t, Course DEF Start
    <2>4. Caught = IF Grand THEN "f_stop" ELSE "over"
      BY <2>1 DEF Caught, Guarded, Grand
    <2>5. OnCourse'
      BY <2>1, <2>3, <2>4 DEF OnCourse, FullSteps, SmokeSteps, Grand
    <2>6. server' \in BOOLEAN /\ (server' => server /\ ~raised')
      BY <1>t, <2>2, <2>3
    <2>7. server' => doing' \in ServedAt
      BY <1>t, <2>1, <2>3, <2>6 DEF ServedAt, Working
    <2>8. raised' => Grand' \/ doing' \in {"join", "over"}
      BY <1>t, <2>1, <2>3, <2>4 DEF Grand
    <2> QED
      BY <1>t, <2>1, <2>2, <2>5, <2>6, <2>7, <2>8 DEF OnStage
  <1>6. CASE Join
    <2>1. /\ UNCHANGED <<kind, raised, waited, armed, public, pool, runs, killings, raises, unclean, broken>>
          /\ doing = "join" /\ kind \in {"codex", "e2e"}
      BY <1>6, <1>t DEF Join, OnCourse, FullSteps, SmokeSteps, left
    <2>2. stopped' \in BOOLEAN /\ server' \in BOOLEAN
      BY <1>6, <1>t, Zenon DEF Join
    <2>3. \/ raised /\ doing' = Caught /\ server' = FALSE
          \/ ~raised /\ Proceed /\ server' = server
      BY <1>6 DEF Join
    <2>4. Caught = IF Grand THEN "f_stop" ELSE "over"
      BY <2>1 DEF Caught, Guarded, Grand
    <2>5. \/ raised /\ doing' = (IF Grand THEN "f_stop" ELSE "over") /\ server' = FALSE
          \/ ~raised /\ ((Grand /\ doing' = "leave") \/ (~Grand /\ doing' = "count")) /\ server' = server
      BY <1>t, <2>1, <2>3, <2>4, Course DEF Grand
    <2>6. OnCourse'
      BY <2>1, <2>5 DEF OnCourse, CodexSteps, E2eSteps, Grand
    <2>7. server' => doing' \in ServedAt \/ (~Grand' /\ doing' = "count")
      BY <2>1, <2>5 DEF ServedAt, Working, Grand
    <2>8. raised' => Grand' \/ doing' \in {"join", "over"}
      BY <2>1, <2>5 DEF Grand
    <2> QED
      BY <1>t, <2>1, <2>2, <2>6, <2>7, <2>8 DEF OnStage, Grand
  <1>7. CASE Raise
    <2>1. /\ UNCHANGED <<kind, waited, stopped, armed, public, pool, runs, killings, broken>>
          /\ doing # "over" /\ raised' = TRUE
          /\ doing' = IF doing = "join" THEN "join" ELSE Caught
      BY <1>7 DEF Raise, left
    <2>2. raises' \in 0..MaxRaises
      BY <1>7 DEF Raise, OnStage
    <2>3. /\ unclean' \in BOOLEAN /\ server' \in BOOLEAN /\ raised' \in BOOLEAN
          /\ server' => server /\ doing = "join"
      BY <1>7, <1>t, Zenon DEF Raise
    <2>4. Caught = "over" \/ (Grand /\ Caught = "f_stop")
      BY DEF Caught, Grand
    <2>5. OnCourse'
      BY <1>t, <2>1, <2>4 DEF OnCourse, FullSteps, CodexSteps, E2eSteps, SmokeSteps, Grand
    <2>6. server' => doing' \in ServedAt
      BY <2>1, <2>3 DEF ServedAt, Working
    <2>7. Grand' \/ doing' \in {"join", "over"}
      BY <2>1, <2>4 DEF Grand
    <2> QED
      BY <1>t, <2>1, <2>2, <2>3, <2>5, <2>6, <2>7 DEF OnStage
  <1>8. CASE Kill
    <2>1. /\ UNCHANGED <<kind, raised, waited, stopped, armed, public, pool, runs, raises, broken>>
          /\ doing' = "over" /\ server' = FALSE
      BY <1>8 DEF Kill
    <2>2. killings' \in 0..MaxKillings
      BY <1>8 DEF Kill, OnStage
    <2>3. unclean' \in BOOLEAN /\ server' \in BOOLEAN
      BY <1>8, <1>t, Zenon DEF Kill
    <2>4. OnCourse'
      BY <1>t, <2>1 DEF OnCourse, FullSteps, CodexSteps, E2eSteps, SmokeSteps
    <2> QED
      BY <1>t, <2>1, <2>2, <2>3, <2>4 DEF OnStage
  <1>9. ASSUME NEW m \in crew, Work(m)
        PROVE OnStage'
    BY <1>1, <1>9 DEF Work, Unmoved
  <1>10. CASE UNCHANGED rehearsalVars
    BY <1>1, <1>10 DEF rehearsalVars, left, Unmoved
  <1> QED
    BY <1>2, <1>3, <1>4, <1>5, <1>6, <1>7, <1>8, <1>9, <1>10 DEF RehearsalNext
-----------------------------------------------------------------------------
\* A worker that a step of the rehearsal takes on.
Hired(x) ==
  /\ x \in Member /\ x.home = Here /\ x.task = NoTask /\ x.at \in {"ready", "gate"}
  /\ \/ /\ doing = "start" /\ kind \in {"full", "smoke"}
        /\ x.how = "process" \/ (x.how = "unlisted" /\ broken')
     \/ doing = "threads" /\ kind \in {"codex", "e2e"} /\ x.how = "thread" /\ doing' = "join"

\* A rehearsal begins; ...
Opens ==
  /\ doing = "over" /\ runs' = runs + 1 /\ kind' \in Kinds
  /\ doing' = IF kind' \in {"full", "codex"} THEN "reset" ELSE "init"
  /\ UNCHANGED <<db, accepted, platform, crew, armed, public, pool, report, broken, unclean>>

\* ... does the step it is at; ...
Goes ==
  /\ doing # "over" /\ Proceed
  /\ unclean /\ ~unclean' => Grand /\ doing = "serve"
  /\ IF doing \in {"arm", "d_control"} THEN armed' => doing = "arm" ELSE armed' = armed
  /\ IF doing \in {"pool", "c_pool", "f_pool", "d_pool"} THEN pool' => doing = "pool" ELSE pool' = pool
  /\ IF doing \in {"public", "public_stop", "c_resources", "f_resources", "d_resources"}
     THEN public' => doing = "public" ELSE public' = public
  /\ IF doing = "intake" THEN db' = [t \in Task |-> IF t \in Fixtures(kind) THEN "ready" ELSE db[t]]
     ELSE db' = db \/ (doing \in {"reset", "init"} /\ \A t \in Task : db'[t] = "none")
  /\ doing = "reset" \/ (doing = "init" /\ ~Grand) => \A t \in Task : db'[t] = "none"
  /\ IF doing = "serve" THEN platform' = {} ELSE platform' = platform
  /\ IF doing = "count" THEN report' = [run |-> runs, ok |-> Accepted, solved |-> Solved] ELSE report' = report
  /\ doing \in {"c_stop", "d_stop"} => \A x \in crew' : x \notin Listed(kind)
  /\ doing \notin {"stop", "c_stop", "f_stop", "d_stop"} => crew \subseteq crew'
  /\ IF doing = "wait" THEN waited' => Listed(kind) = {} ELSE waited' = waited

\* ... waits, goes through the finally, or ends short.
Apart == UNCHANGED <<armed, public, pool, db, platform, report>> /\ (unclean => unclean')
Still == Apart /\ doing' = doing /\ waited' = waited /\ crew \subseteq crew'
Throws == Apart /\ Grand /\ doing \in Guarded /\ doing' = "f_stop"
EndsShort == Apart /\ doing # "over" /\ doing' = "over" /\ (Grand => unclean' \/ doing \notin Guarded \cup Teardown)

\* A step of the rehearsal after its beginning.
Marches ==
  /\ kind' = kind /\ runs' = runs /\ (broken => broken')
  /\ \A x \in crew' : x \in crew \/ Hired(x)
  /\ doing = "join" /\ doing' # "join" => \A x \in crew' : x.how # "thread"
  /\ Still \/ Goes \/ Throws \/ EndsShort

(* Every step is a beginning, a step of the rehearsal or one of a worker.  *)
LEMMA Passage ==
  ASSUME OnStage, Records, Company, [RehearsalNext]_rehearsalVars
  PROVE Opens \/ Marches \/ \E m \in crew, n \in Member : Labours(m, n)
  <1>c. OnCourse /\ (doing # "over" => runs > 0) /\ runs \in Nat
    BY DEF OnStage
  <1>h. doing # "over" => (Here = 0 <=> Grand)
    BY <1>c DEF Here, Grand
  <1>1. ASSUME NEW k \in Kinds, BeginRehearsal(k)
        PROVE Opens
    <2>1. Head(Script(k)) = IF k \in {"full", "codex"} THEN "reset" ELSE "init"
      <3>1. CASE k = "full"
        BY <3>1 DEF Script
      <3>2. CASE k = "codex"
        BY <3>2 DEF Script
      <3>3. CASE k = "e2e"
        BY <3>3 DEF Script
      <3>4. CASE k = "smoke"
        BY <3>4 DEF Script
      <3> QED
        BY <3>1, <3>2, <3>3, <3>4
    <2> QED
      BY <1>1, <2>1 DEF BeginRehearsal, Opens, left
  <1>2. CASE ResetQueue
    <2>1. /\ db' = db \/ \A t \in Task : db'[t] = "none"
          /\ doing = "reset" \/ (doing = "init" /\ ~Grand) => \A t \in Task : db'[t] = "none"
      BY <1>2, <1>h DEF ResetQueue
    <2>2. Goes
      BY <1>2, <2>1 DEF ResetQueue, Goes, left
    <2> QED
      BY <1>2, <2>2 DEF ResetQueue, Marches, left
  <1>3. CASE Serve
    <2>1. unclean /\ ~unclean' => Grand
      BY <1>3, <1>h DEF Serve
    <2>2. Goes
      BY <1>3, <2>1 DEF Serve, Goes, left
    <2> QED
      BY <1>3, <2>2 DEF Serve, Marches, left
  <1>4. CASE Intake
    <2>1. Goes
      BY <1>4 DEF Intake, Goes, left
    <2> QED
      BY <1>4, <2>1 DEF Intake, Marches, left
  <1>5. CASE Arm
    <2>1. armed' => doing = "arm"
      BY <1>5, Zenon DEF Arm
    <2>2. Goes
      BY <1>5, <2>1 DEF Arm, Goes
    <2> QED
      BY <1>5, <2>2 DEF Arm, Marches
  <1>6. CASE StartPool
    <2>1. pool' => doing = "pool"
      BY <1>6, Zenon DEF StartPool
    <2>2. Goes
      BY <1>6, <2>1 DEF StartPool, Goes
    <2> QED
      BY <1>6, <2>2 DEF StartPool, Marches
  <1>7. CASE Public
    <2>1. public' => doing = "public"
      BY <1>7, Zenon DEF Public
    <2>2. Goes
      BY <1>7, <2>1 DEF Public, Goes
    <2> QED
      BY <1>7, <2>2 DEF Public, Marches
  <1>8. CASE Start
    <2>1. doing = "start" /\ kind \in {"full", "smoke"}
      BY <1>8, <1>c DEF Start, OnCourse, CodexSteps, E2eSteps
    <2>u. UNCHANGED <<kind, runs, waited, armed, public, pool, db, platform, report, unclean>>
      BY <1>8 DEF Start
    <2>h. Helper # {} => Here \in 0..MaxRuns
      BY DEF OnStage, Here
    <2>2. ASSUME NEW h \in Helper, NEW how \in {"process", "unlisted"},
                 crew' = crew \cup {Recruit(h, how, "ready")}, how = "unlisted" => broken'
          PROVE \A x \in crew' : x \in crew \/ Hired(x)
      <3>1. PICK r : r = Recruit(h, how, "ready")
        OBVIOUS
      <3>2. r \in Member /\ r.home = Here /\ r.task = NoTask /\ r.at = "ready" /\ r.how = how
        BY <3>1, <2>h DEF Recruit, Member
      <3> QED
        BY <2>1, <2>2, <3>1, <3>2 DEF Hired
    <2>3. CASE \E h \in Absentees : crew' = crew \cup {Recruit(h, "process", "ready")} /\ UNCHANGED <<doing, raises, raised, broken>>
      <3>1. \A x \in crew' : x \in crew \/ Hired(x)
        BY <2>2, <2>3 DEF Absentees
      <3>2. Still
        BY <2>3, <2>u DEF Still, Apart
      <3> QED
        BY <2>1, <2>3, <2>u, <3>1, <3>2 DEF Marches
    <2>4. CASE \E h \in Absentees :
                 /\ raises < MaxRaises /\ raises' = raises + 1
                 /\ crew' = crew \cup {Recruit(h, "unlisted", "ready")} /\ broken' = TRUE
                 /\ raised' = TRUE /\ doing' = Caught
      <3>1. \A x \in crew' : x \in crew \/ Hired(x)
        BY <2>2, <2>4 DEF Absentees
      <3>2. Throws \/ EndsShort
        BY <2>1, <2>4, <2>u DEF Throws, EndsShort, Apart, Caught, Grand, Guarded
      <3> QED
        BY <2>1, <2>4, <2>u, <3>1, <3>2 DEF Marches
    <2>5. CASE Absentees = {} /\ Proceed /\ UNCHANGED <<crew, raises, raised, broken>>
      <3>1. Goes
        BY <2>1, <2>5, <2>u DEF Goes
      <3> QED
        BY <2>1, <2>5, <2>u, <3>1 DEF Marches
    <2> QED
      BY <1>8, <2>3, <2>4, <2>5 DEF Start
  <1>9. CASE Wait
    <2>1. waited' => Listed(kind) = {}
      BY <1>9, Zenon DEF Wait
    <2>2. Goes
      BY <1>9, <2>1 DEF Wait, Goes, left
    <2> QED
      BY <1>9, <2>2 DEF Wait, Marches, left
  <1>10. CASE Stop
    <2>1. crew' \subseteq crew /\ (doing \in {"c_stop", "d_stop"} => \A x \in crew' : x \notin Listed(kind))
      BY <1>10 DEF Stop
    <2>2. Goes
      BY <1>10, <2>1 DEF Stop, Goes
    <2> QED
      BY <1>10, <2>1, <2>2 DEF Stop, Marches
  <1>11. CASE Threads
    <2>1. doing = "threads" /\ doing' = "join" /\ kind \in {"codex", "e2e"}
      BY <1>11, <1>c, Course DEF Threads
    <2>2. Here \in 0..MaxRuns
      BY DEF OnStage, Here
    <2>3. \A x \in crew' : x \in crew \/ Hired(x)
      <3>1. ASSUME NEW h \in Helper
            PROVE Hired(Recruit(h, "thread", "gate"))
        <4>1. PICK r : r = Recruit(h, "thread", "gate")
          OBVIOUS
        <4>2. r \in Member /\ r.home = Here /\ r.task = NoTask /\ r.at = "gate" /\ r.how = "thread"
          BY <4>1, <2>2 DEF Recruit, Member
        <4> QED
          BY <2>1, <4>1, <4>2 DEF Hired
      <3> QED
        BY <1>11, <3>1 DEF Threads
    <2>4. Goes
      BY <1>11, <2>1 DEF Threads, Goes
    <2> QED
      BY <1>11, <2>1, <2>3, <2>4 DEF Threads, Marches
  <1>12. CASE Join
    <2>1. /\ UNCHANGED <<kind, runs, broken, waited, crew, armed, public, pool, db, platform, report, unclean>>
          /\ doing = "join" /\ \A x \in crew' : x.how # "thread"
      BY <1>12 DEF Join, left
    <2>2. CASE raised
      <3>1. Throws \/ EndsShort
        BY <1>12, <2>1, <2>2 DEF Join, Throws, EndsShort, Apart, Caught, Grand, Guarded
      <3> QED
        BY <2>1, <3>1 DEF Marches
    <2>3. CASE ~raised
      <3>1. Goes
        BY <1>12, <2>1, <2>3 DEF Join, Goes
      <3> QED
        BY <2>1, <3>1 DEF Marches
    <2> QED
      BY <2>2, <2>3
  <1>13. CASE LeaveServer
    <2>1. Goes
      BY <1>13 DEF LeaveServer, Goes, left
    <2> QED
      BY <1>13, <2>1 DEF LeaveServer, Marches, left
  <1>14. CASE Count
    <2>1. Goes
      BY <1>14 DEF Count, Goes, left
    <2> QED
      BY <1>14, <2>1 DEF Count, Marches, left
  <1>15. CASE Raise
    <2>1. /\ UNCHANGED <<kind, runs, broken, waited, crew, armed, public, pool, db, platform, report>>
          /\ doing # "over" /\ doing' = IF doing = "join" THEN "join" ELSE Caught
      BY <1>15 DEF Raise, left
    <2>2. (unclean => unclean') /\ (Here = 0 /\ doing \in Teardown => unclean')
      BY <1>15, Zenon DEF Raise
    <2>3. Still \/ Throws \/ EndsShort
      BY <2>1, <2>2, <1>h DEF Still, Throws, EndsShort, Apart, Caught, Grand
    <2> QED
      BY <2>1, <2>3 DEF Marches
  <1>16. CASE Kill
    <2>1. /\ UNCHANGED <<kind, runs, broken, armed, public, pool, db, platform, report>>
          /\ doing # "over" /\ doing' = "over" /\ crew' = Lives(crew)
      BY <1>16 DEF Kill
    <2>2. (unclean => unclean') /\ (Here = 0 => unclean')
      BY <1>16, Zenon DEF Kill
    <2>3. EndsShort
      BY <2>1, <2>2, <1>h DEF EndsShort, Apart
    <2> QED
      BY <2>1, <2>3 DEF Marches, Lives
  <1>17. ASSUME NEW m \in crew, Work(m)
         PROVE \E o \in crew, n \in Member : Labours(o, n)
    BY <1>17, Labouring DEF Labours
  <1>18. CASE UNCHANGED rehearsalVars
    BY <1>18 DEF rehearsalVars, left, Marches, Still, Apart
  <1> QED
    BY <1>1, <1>2, <1>3, <1>4, <1>5, <1>6, <1>7, <1>8, <1>9, <1>10, <1>11, <1>12, <1>13, <1>14,
       <1>15, <1>16, <1>17, <1>18 DEF RehearsalNext
-----------------------------------------------------------------------------
(* What a report calls a success is true or false.                         *)
LEMMA AcceptedIsBoolean ==
  ASSUME OnStage
  PROVE Accepted \in BOOLEAN
  <1>1. kind \in {"full", "codex", "e2e", "smoke"} /\ waited \in BOOLEAN
    BY DEF OnStage
  <1>2. CriteriaMet \in BOOLEAN /\ ExpectedMet \in BOOLEAN
    BY Zenon DEF CriteriaMet, ExpectedMet
  <1>3. CASE kind \in {"full", "codex"}
    BY <1>2, <1>3, Zenon DEF Accepted
  <1>4. CASE kind = "e2e"
    <2>1. kind \notin {"full", "codex"}
      BY <1>4
    <2> QED
      BY <1>2, <1>4, <2>1, Zenon DEF Accepted
  <1>5. CASE kind = "smoke"
    <2>1. kind \notin {"full", "codex"} /\ kind # "e2e"
      BY <1>5
    <2> QED
      BY <1>1, <1>5, <2>1, Zenon DEF Accepted
  <1> QED
    BY <1>1, <1>3, <1>4, <1>5

(* The queue, the submissions and the report keep their types.             *)
LEMMA RecordsStay ==
  ASSUME OnStage, Records, Company, [RehearsalNext]_rehearsalVars
  PROVE Records'
  <1>r. /\ db \in [Task -> {"none", "ready", "busy", "parked", "solved"}]
        /\ accepted \subseteq Task /\ platform \subseteq Task
        /\ report \in [run : 0..MaxRuns, ok : BOOLEAN, solved : SUBSET Task]
    BY DEF Records
  <1>1. CASE Opens
    BY <1>r, <1>1 DEF Opens, Records
  <1>2. CASE \E m \in crew, n \in Member : Labours(m, n)
    <2>1. PICK m \in crew, n \in Member : Labours(m, n)
      BY <1>2
    <2>2. m.at \in Engaged => m.task \in Task
      BY DEF Company
    <2>3. db' \in [Task -> {"none", "ready", "busy", "parked", "solved"}]
      BY <1>r, <2>1, <2>2 DEF Labours, Park, Engaged
    <2>4. accepted' \subseteq Task /\ platform' \subseteq Task /\ report' = report
      BY <1>r, <2>1, <2>2 DEF Labours, Engaged, Unmoved
    <2> QED
      BY <1>r, <2>3, <2>4 DEF Records
  <1>3. CASE Marches
    <2>1. /\ db' \in [Task -> {"none", "ready", "busy", "parked", "solved"}]
          /\ accepted' \subseteq Task
      <3>1. CASE ResetQueue
        BY <1>r, <3>1 DEF ResetQueue
      <3>2. CASE Intake
        BY <1>r, <3>2 DEF Intake
      <3>3. CASE UNCHANGED <<db, accepted>>
        BY <1>r, <3>3
      <3>4. ASSUME NEW m \in crew, Work(m)
            PROVE /\ db' \in [Task -> {"none", "ready", "busy", "parked", "solved"}]
                  /\ accepted' \subseteq Task
        <4>1. PICK n : Labours(m, n)
          BY <3>4, Labouring
        <4>2. m.at \in Engaged => m.task \in Task
          BY DEF Company
        <4> QED
          BY <1>r, <4>1, <4>2 DEF Labours, Park, Engaged
      <3> QED
        BY <3>1, <3>2, <3>3, <3>4 DEF RehearsalNext, BeginRehearsal, Serve, Arm, StartPool, Public, Start,
             Wait, Stop, Threads, Join, LeaveServer, Count, Raise, Kill, rehearsalVars
    <2>2. platform' \subseteq Task
      BY <1>r, <1>3 DEF Marches, Goes, Still, Throws, EndsShort, Apart
    <2>3. report' = report \/ report' = [run |-> runs, ok |-> Accepted, solved |-> Solved]
      BY <1>3 DEF Marches, Goes, Still, Throws, EndsShort, Apart
    <2>4. runs \in 0..MaxRuns /\ Solved \subseteq Task
      BY DEF OnStage, Solved
    <2>5. report' \in [run : 0..MaxRuns, ok : BOOLEAN, solved : SUBSET Task]
      BY <1>r, <2>3, <2>4, AcceptedIsBoolean
    <2> QED
      BY <2>1, <2>2, <2>5 DEF Records
  <1> QED
    BY <1>1, <1>2, <1>3, Passage

(* No step puts a worker on a queue of a later run or at a challenge that  *)
(* is none.                                                                *)
LEMMA CompanyKept ==
  ASSUME OnStage, Records, Company, [RehearsalNext]_rehearsalVars
  PROVE Company'
  <1>c. /\ crew \subseteq Member /\ runs \in Nat
        /\ \A m \in crew : m.home <= runs /\ (m.at \in Engaged => m.task \in Task)
    BY DEF Company, OnStage
  <1>n. \A m \in crew : m.home \in Nat
    BY <1>c DEF Member
  <1>1. CASE Opens
    <2>1. \A m \in crew : m.home <= runs'
      BY <1>c, <1>n, <1>1 DEF Opens
    <2> QED
      BY <1>c, <1>1, <2>1 DEF Opens, Company
  <1>2. CASE \E m \in crew, n \in Member : Labours(m, n)
    <2>1. PICK m \in crew, n \in Member : Labours(m, n)
      BY <1>2
    <2>2. /\ crew' \subseteq crew \cup {n} /\ n.home = m.home /\ runs' = runs
          /\ n.at \in Engaged => n.task \in Task
      BY <1>c, <2>1 DEF Labours, Engaged, Unmoved
    <2> QED
      BY <1>c, <2>2 DEF Company
  <1>3. CASE Marches
    <2>1. \A x \in crew' : x \in crew \/ Hired(x)
      BY <1>3 DEF Marches
    <2>2. ASSUME NEW x \in crew'
          PROVE x \in Member /\ x.home <= runs /\ (x.at \in Engaged => x.task \in Task)
      BY <1>c, <2>1 DEF Hired, Here, Engaged
    <2> QED
      BY <1>3, <2>2 DEF Marches, Company
  <1> QED
    BY <1>1, <1>2, <1>3, Passage
(* Where a full rehearsal leaves the steps at which it has something up,   *)
(* and where it enters those behind its cleanup.                           *)
LEMMA GrandCourse ==
  ASSUME OnCourse, doing # "over", Proceed, Grand
  PROVE /\ doing \in ArmedAt => doing' \in ArmedAt \/ doing = "d_control"
        /\ doing = "serve" => doing' = "intake"
        /\ doing \in PublicAt => doing' \in PublicAt \/ doing \in {"public_stop", "f_resources"}
        /\ doing = "public" => doing' \in PublicAt
        /\ doing' \in PublicCleared => doing \in PublicCleared \cup {"c_resources"}
        /\ doing \in PoolAt => doing' \in PoolAt \/ doing = "f_pool"
        /\ doing = "pool" => doing' \in PoolAt
        /\ doing' \in PoolCleared => doing \in PoolCleared \cup {"c_pool"}
        /\ doing \in StaffedAt => doing' \in StaffedAt \/ doing = "d_stop"
        /\ doing' \in StaffCleared => doing \in StaffCleared \cup {"c_stop"}
        /\ doing = "start" => doing' = "wait"
        /\ doing = "arm" => doing' \in ArmedAt
        /\ doing' = "init" => doing = "reset"
        /\ doing' \in {"c_stop", "c_resources", "c_pool", "serve", "intake"} =>
             doing \in {"init", "c_stop", "c_resources", "c_pool", "serve"}
  <1>1. CASE kind = "full"
    BY <1>1, FullOrder DEF OnCourse, FullSteps, Proceed, ArmedAt, PublicAt, PoolAt, StaffedAt, Working,
         PublicCleared, PoolCleared, StaffCleared
  <1>2. CASE kind = "codex"
    BY <1>2, CodexOrder DEF OnCourse, CodexSteps, Proceed, ArmedAt, PublicAt, PoolAt, StaffedAt, Working,
         PublicCleared, PoolCleared, StaffCleared
  <1> QED
    BY <1>1, <1>2 DEF Grand

(* A full rehearsal takes down what it put up: exceptions go through its   *)
(* finally, and only a kill or an exception in the teardown leaves         *)
(* something.                                                              *)
LEMMA GroundKept ==
  ASSUME OnStage, Records, Company, Ground, [RehearsalNext]_rehearsalVars
  PROVE Ground'
  <1>c. /\ OnCourse /\ (doing # "over" => runs > 0) /\ runs \in Nat
        /\ doing # "over" => (Here = 0 <=> Grand)
    BY DEF OnStage, Here, Grand
  <1>1. CASE Opens
    <2>1. /\ UNCHANGED <<crew, armed, public, pool, unclean>> /\ doing = "over"
          /\ doing' \in {"reset", "init"}
      BY <1>1 DEF Opens
    <2>2. ~unclean /\ ~(Grand /\ doing \in ArmedAt) => ~armed
      BY DEF Ground
    <2>3. doing \notin ArmedAt \cup PublicAt \cup PoolAt \cup StaffedAt
      BY <2>1 DEF ArmedAt, PublicAt, PoolAt, StaffedAt, Working
    <2>4. doing' \notin PublicCleared \cup PoolCleared \cup StaffCleared
      BY <2>1 DEF PublicCleared, PoolCleared, StaffCleared
    <2>5. ~unclean => ~armed /\ ~public /\ ~pool /\ \A m \in crew : m.home = 0 => m.how # "process"
      BY <2>3 DEF Ground, Gone
    <2> QED
      BY <2>1, <2>4, <2>5 DEF Ground, Gone
  <1>2. CASE \E m \in crew, n \in Member : Labours(m, n)
    <2>1. PICK m \in crew, n \in Member : Labours(m, n)
      BY <1>2
    <2>2. /\ UNCHANGED <<kind, doing, armed, public, pool, unclean>>
          /\ crew' \subseteq crew \cup {n} /\ n.home = m.home /\ n.how = m.how
      BY <2>1 DEF Labours, Unmoved
    <2> QED
      BY <2>2 DEF Ground, Gone, Grand
  <1>3. CASE Marches
    <2>k. kind' = kind /\ (Grand' <=> Grand) /\ runs' = runs
      BY <1>3 DEF Marches, Grand
    <2>m. Still \/ Goes \/ Throws \/ EndsShort
      BY <1>3 DEF Marches
    <2>a. ~unclean' /\ ~(Grand' /\ doing' \in ArmedAt) => ~armed'
      <3>1. SUFFICES ASSUME ~unclean', ~(Grand' /\ doing' \in ArmedAt)
                     PROVE ~armed'
        OBVIOUS
      <3>2. ~unclean /\ ~(Grand /\ doing \in ArmedAt) => ~armed
        BY DEF Ground
      <3>3. CASE Goes
        <4>1. CASE Grand
          <5>1. /\ doing \in ArmedAt => doing' \in ArmedAt \/ doing = "d_control"
                /\ doing = "serve" => doing' \in ArmedAt
                /\ doing = "arm" => doing' \in ArmedAt
            BY <1>c, <3>3, <4>1, GrandCourse DEF Goes, ArmedAt
          <5> QED
            BY <2>k, <3>1, <3>2, <3>3, <4>1, <5>1 DEF Goes
        <4>2. CASE ~Grand
          BY <1>c, <2>k, <3>1, <3>2, <3>3, <4>2, Course DEF Goes
        <4> QED
          BY <4>1, <4>2
      <3>4. CASE Still \/ Throws \/ EndsShort
        BY <2>k, <3>1, <3>2, <3>4 DEF Still, Throws, EndsShort, Apart, ArmedAt, Working, Guarded, Teardown
      <3> QED
        BY <2>m, <3>3, <3>4
    <2>b. Gone(PublicAt, PublicCleared)' => ~public'
      <3>1. SUFFICES ASSUME Gone(PublicAt, PublicCleared)'
                     PROVE ~public'
        OBVIOUS
      <3>2. /\ Gone(PublicAt, PublicCleared) => ~public
            /\ ~(Grand /\ doing' \in PublicAt)
            /\ ~unclean' \/ (Grand /\ doing' \in PublicCleared)
        BY <2>k, <3>1 DEF Ground, Gone
      <3>3. CASE Goes
        <4>1. CASE Grand
          <5>1. /\ doing \in PublicAt => doing' \in PublicAt \/ doing \in {"public_stop", "f_resources"}
                /\ doing = "public" => doing' \in PublicAt
                /\ doing' \in PublicCleared => doing \in PublicCleared \cup {"c_resources"}
            BY <1>c, <3>3, <4>1, GrandCourse DEF Goes
          <5>2. "serve" \in PublicCleared
            BY DEF PublicCleared
          <5> QED
            BY <3>2, <3>3, <4>1, <5>1, <5>2 DEF Goes, Gone
        <4>2. CASE ~Grand
          BY <1>c, <3>2, <3>3, <4>2, Course DEF Goes, Gone
        <4> QED
          BY <4>1, <4>2
      <3>4. CASE Still \/ Throws \/ EndsShort
        BY <3>2, <3>4 DEF Still, Throws, EndsShort, Apart, Gone, PublicAt, PublicCleared, Working, Guarded, Teardown
      <3> QED
        BY <2>m, <3>3, <3>4
    <2>p. Gone(PoolAt, PoolCleared)' => ~pool'
      <3>1. SUFFICES ASSUME Gone(PoolAt, PoolCleared)'
                     PROVE ~pool'
        OBVIOUS
      <3>2. /\ Gone(PoolAt, PoolCleared) => ~pool
            /\ ~(Grand /\ doing' \in PoolAt)
            /\ ~unclean' \/ (Grand /\ doing' \in PoolCleared)
        BY <2>k, <3>1 DEF Ground, Gone
      <3>3. CASE Goes
        <4>1. CASE Grand
          <5>1. /\ doing \in PoolAt => doing' \in PoolAt \/ doing = "f_pool"
                /\ doing = "pool" => doing' \in PoolAt
                /\ doing' \in PoolCleared => doing \in PoolCleared \cup {"c_pool"}
            BY <1>c, <3>3, <4>1, GrandCourse DEF Goes
          <5>2. "serve" \in PoolCleared
            BY DEF PoolCleared
          <5> QED
            BY <3>2, <3>3, <4>1, <5>1, <5>2 DEF Goes, Gone
        <4>2. CASE ~Grand
          BY <1>c, <3>2, <3>3, <4>2, Course DEF Goes, Gone
        <4> QED
          BY <4>1, <4>2
      <3>4. CASE Still \/ Throws \/ EndsShort
        BY <3>2, <3>4 DEF Still, Throws, EndsShort, Apart, Gone, PoolAt, PoolCleared, Working, Guarded, Teardown
      <3> QED
        BY <2>m, <3>3, <3>4
    <2>w. Gone(StaffedAt, StaffCleared)' => \A m \in crew' : m.home = 0 => m.how # "process"
      <3>1. SUFFICES ASSUME Gone(StaffedAt, StaffCleared)', NEW x \in crew', x.home = 0, x.how = "process"
                     PROVE FALSE
        OBVIOUS
      <3>2. /\ Gone(StaffedAt, StaffCleared) => \A m \in crew : m.home = 0 => m.how # "process"
            /\ ~(Grand /\ doing' \in StaffedAt)
            /\ ~unclean' \/ (Grand /\ doing' \in StaffCleared)
        BY <2>k, <3>1 DEF Ground, Gone
      <3>3. CASE Hired(x)
        <4>1. doing = "start" /\ Here = 0 /\ Grand
          BY <1>c, <3>1, <3>3 DEF Hired
        <4>2. doing' \in {"start", "wait", "f_stop"} \/ unclean'
          BY <1>c, <2>m, <4>1, GrandCourse DEF Still, Goes, Throws, EndsShort, Guarded
        <4>3. doing' = "over" \/ doing' \in {"start", "wait", "f_stop"}
          BY <1>c, <2>m, <4>1, GrandCourse DEF Still, Goes, Throws, EndsShort
        <4> QED
          BY <3>2, <4>1, <4>2, <4>3 DEF StaffedAt, StaffCleared, Working
      <3>4. CASE x \in crew
        <4>1. CASE Goes
          <5>1. CASE Grand /\ doing \in {"c_stop", "d_stop"}
            <6>1. x \in Listed(kind)
              BY <3>1, <3>4, <5>1 DEF Listed, Grand
            <6> QED
              BY <4>1, <5>1, <6>1 DEF Goes
          <5>2. CASE Grand /\ doing \notin {"c_stop", "d_stop"}
            <6>1. /\ doing \in StaffedAt => doing' \in StaffedAt
                  /\ doing' \in StaffCleared => doing \in StaffCleared
              BY <1>c, <4>1, <5>2, GrandCourse DEF Goes
            <6>2. "serve" \in StaffCleared
              BY DEF StaffCleared
            <6> QED
              BY <3>1, <3>2, <3>4, <4>1, <5>2, <6>1, <6>2 DEF Goes, Gone
          <5>3. CASE ~Grand
            BY <1>c, <3>1, <3>2, <3>4, <4>1, <5>3, Course DEF Goes, Gone
          <5> QED
            BY <5>1, <5>2, <5>3
        <4>2. CASE Still \/ Throws \/ EndsShort
          BY <3>1, <3>2, <3>4, <4>2 DEF Still, Throws, EndsShort, Apart, Gone, StaffedAt, StaffCleared, Working, Guarded, Teardown
        <4> QED
          BY <2>m, <4>1, <4>2
      <3> QED
        BY <1>3, <3>3, <3>4 DEF Marches
    <2> QED
      BY <2>a, <2>b, <2>p, <2>w DEF Ground
  <1> QED
    BY <1>1, <1>2, <1>3, Passage

(* A new run has no worker on its queue yet, and the executor's exit waits *)
(* for every thread.                                                       *)
LEMMA StaffKept ==
  ASSUME OnStage, Records, Company, Staff, [RehearsalNext]_rehearsalVars
  PROVE Staff'
  <1>c. /\ OnCourse /\ (doing # "over" => runs > 0) /\ runs \in Nat
        /\ \A m \in crew : m.home \in Nat /\ m.home <= runs
    BY DEF OnStage, Company, Member
  <1>s. /\ \A m \in crew : m.how = "thread" => doing = "join" /\ m.home = Here
        /\ ~broken => \A m \in crew : m.how # "unlisted"
        /\ ~Grand /\ doing \in {"init", "serve", "intake", "threads"} => \A m \in crew : m.home # runs
        /\ kind = "e2e" /\ runs > 0 => \A m \in crew : m.home = runs => m.how = "thread"
    BY DEF Staff
  <1>1. CASE Opens
    <2>1. crew' = crew /\ broken' = broken /\ doing = "over" /\ runs' = runs + 1
      BY <1>1 DEF Opens
    <2>2. \A m \in crew : m.home # runs' /\ m.how # "thread"
      BY <1>c, <1>s, <2>1
    <2> QED
      BY <1>s, <2>1, <2>2 DEF Staff
  <1>2. CASE \E m \in crew, n \in Member : Labours(m, n)
    <2>1. PICK m \in crew, n \in Member : Labours(m, n)
      BY <1>2
    <2>2. /\ UNCHANGED <<kind, doing, broken, runs>>
          /\ crew' \subseteq crew \cup {n} /\ n.home = m.home /\ n.how = m.how
      BY <2>1 DEF Labours, Unmoved
    <2>3. Here' = Here /\ (Grand' <=> Grand)
      BY <2>2 DEF Here, Grand
    <2> QED
      BY <1>s, <2>2, <2>3 DEF Staff
  <1>3. CASE Marches
    <2>k. kind' = kind /\ (Grand' <=> Grand) /\ runs' = runs /\ Here' = Here /\ (broken => broken')
      BY <1>3 DEF Marches, Grand, Here
    <2>m. /\ Still \/ Goes \/ Throws \/ EndsShort
          /\ \A x \in crew' : x \in crew \/ Hired(x)
          /\ doing = "join" /\ doing' # "join" => \A x \in crew' : x.how # "thread"
      BY <1>3 DEF Marches
    <2>1. ASSUME NEW x \in crew', x.how = "thread"
          PROVE doing' = "join" /\ x.home = Here'
      BY <1>s, <2>k, <2>m, <2>1 DEF Hired
    <2>2. ASSUME ~broken', NEW x \in crew'
          PROVE x.how # "unlisted"
      BY <1>s, <2>k, <2>m, <2>2 DEF Hired
    <2>3. ASSUME ~Grand, doing' \in {"init", "serve", "intake", "threads"}, NEW x \in crew'
          PROVE x.home # runs
      <3>1. doing \in {"init", "serve", "intake", "threads"} /\ doing # "start" /\ doing' # "join"
        <4>1. CASE Goes
          <5>1. OnCourse /\ doing # "over" /\ Proceed
            BY <1>c, <4>1 DEF Goes
          <5>2. kind \in {"e2e", "smoke"}
            BY <1>c, <2>3 DEF OnCourse, Grand
          <5>3. CASE kind = "e2e"
            BY <2>3, <5>1, <5>3, E2eOrder DEF OnCourse, E2eSteps, Proceed
          <5>4. CASE kind = "smoke"
            BY <2>3, <5>1, <5>4, SmokeOrder DEF OnCourse, SmokeSteps, Proceed
          <5> QED
            BY <5>2, <5>3, <5>4
        <4>2. CASE Still \/ Throws \/ EndsShort
          BY <2>3, <4>2 DEF Still, Throws, EndsShort
        <4> QED
          BY <2>3, <2>m, <4>1, <4>2
      <3> QED
        BY <1>s, <2>m, <2>3, <3>1 DEF Hired
    <2>4. ASSUME kind = "e2e", runs > 0, NEW x \in crew', x.home = runs
          PROVE x.how = "thread"
      BY <1>s, <2>m, <2>4 DEF Hired
    <2> QED
      BY <2>k, <2>1, <2>2, <2>3, <2>4 DEF Staff
  <1> QED
    BY <1>1, <1>2, <1>3, Passage

(* Where the steps of an e2e or a smoke lead.                              *)
LEMMA SmallCourse ==
  ASSUME OnCourse, doing # "over", Proceed, ~Grand
  PROVE /\ doing = "init" => doing' = "serve"
        /\ doing = "serve" => doing' = "intake"
        /\ doing = "intake" => doing' \in {"start", "threads"}
        /\ doing = "start" => doing' = "wait"
        /\ doing = "wait" => doing' = "stop"
        /\ doing = "stop" => doing' \in {"count", "over"}
        /\ doing = "threads" => doing' = "join"
        /\ doing = "join" => doing' \in {"count", "over"}
        /\ doing = "count" => doing' = "leave"
        /\ doing = "leave" => doing' = "over"
        /\ doing \in {"init", "serve", "intake", "start", "wait", "stop", "threads", "join", "count", "leave"}
  <1>1. CASE kind = "e2e"
    BY <1>1, E2eOrder DEF OnCourse, E2eSteps, Proceed
  <1>2. CASE kind = "smoke"
    BY <1>2, SmokeOrder DEF OnCourse, SmokeSteps, Proceed
  <1> QED
    BY <1>1, <1>2 DEF Grand, OnCourse

(* Before the intake there is nothing to claim, so no worker changes the   *)
(* queue, and the late write of a verdict finds no row.                    *)
LEMMA NothingYetKept ==
  ASSUME OnStage, Records, Company, NothingYet, [RehearsalNext]_rehearsalVars
  PROVE NothingYet'
  <1>c. OnCourse
    BY DEF OnStage
  <1> DEFINE early == doing \in {"c_stop", "c_resources", "c_pool", "serve", "intake"} \/ (Grand /\ doing = "init")
  <1>b. early => \A t \in Task : db[t] = "none"
    BY DEF NothingYet
  <1>1. CASE Opens
    BY <1>1 DEF Opens, NothingYet, Grand
  <1>2. CASE \E m \in crew, n \in Member : Labours(m, n)
    <2>1. PICK m \in crew, n \in Member : Labours(m, n)
      BY <1>2
    <2>2. kind' = kind /\ doing' = doing
      BY <2>1 DEF Labours, Unmoved
    <2>3. ASSUME early
          PROVE db' = db
      <3>1. \A t \in Task : db[t] = "none"
        BY <1>b, <2>3
      <3>2. m.at \in Engaged => m.task \in Task
        BY DEF Company
      <3> QED
        BY <2>1, <3>1, <3>2 DEF Labours, Park, Engaged
    <2> QED
      BY <1>b, <2>2, <2>3 DEF NothingYet, Grand
  <1>3. CASE Marches
    <2>k. kind' = kind /\ (Grand' <=> Grand)
      BY <1>3 DEF Marches, Grand
    <2>1. CASE Goes
      <3>1. ASSUME early'
            PROVE doing = "reset" \/ (early /\ doing # "intake") \/ (~Grand /\ doing = "init")
        <4>1. OnCourse /\ doing # "over" /\ Proceed
          BY <1>c, <2>1 DEF Goes
        <4>2. CASE Grand
          BY <2>k, <3>1, <4>1, <4>2, GrandCourse
        <4>3. CASE ~Grand
          BY <2>k, <3>1, <4>1, <4>3, SmallCourse
        <4> QED
          BY <4>2, <4>3
      <3>2. CASE doing = "reset"
        BY <2>1, <3>2 DEF Goes, NothingYet
      <3>3. CASE early /\ doing # "intake"
        <4>1. db' = db \/ \A t \in Task : db'[t] = "none"
          BY <2>1, <3>3 DEF Goes
        <4> QED
          BY <1>b, <3>3, <4>1 DEF NothingYet
      <3>4. CASE ~Grand /\ doing = "init"
        BY <2>1, <3>4 DEF Goes, NothingYet
      <3> QED
        BY <3>1, <3>2, <3>3, <3>4 DEF NothingYet
    <2>2. CASE Still
      BY <1>b, <2>k, <2>2 DEF Still, Apart, NothingYet
    <2>3. CASE Throws \/ EndsShort
      BY <2>3 DEF Throws, EndsShort, NothingYet
    <2> QED
      BY <1>3, <2>1, <2>2, <2>3 DEF Marches
  <1> QED
    BY <1>1, <1>2, <1>3, Passage

(* When the platform forgets what an earlier one accepted, no worker of an *)
(* earlier run is left that could still record it.                         *)
LEMMA NobodyAtServe ==
  ASSUME OnStage, Company, Ground, Staff, doing = "serve", ~broken
  PROVE \A x \in crew : x.home # Here
  <1>1. \A x \in crew : x.how = "process"
    BY DEF Company, Staff, Member
  <1>2. CASE Grand
    <2>1. Gone(StaffedAt, StaffCleared)
      BY <1>2 DEF Gone, StaffedAt, StaffCleared, Working
    <2> QED
      BY <1>1, <1>2, <2>1 DEF Ground, Here, Grand
  <1>3. CASE ~Grand
    BY <1>3 DEF Staff, Here, Grand
  <1> QED
    BY <1>2, <1>3

(* The steps after the platform came up follow one another.                *)
LEMMA PlayedBefore ==
  ASSUME OnCourse, Goes, doing' \in Played
  PROVE doing \in Played \/ doing = "serve"
  <1>1. doing # "over" /\ Proceed
    BY DEF Goes
  <1>2. CASE kind = "full"
    BY <1>1, <1>2, FullOrder DEF OnCourse, FullSteps, Proceed, Played, ServedAt, Working, Teardown
  <1>3. CASE kind = "codex"
    BY <1>1, <1>3, CodexOrder DEF OnCourse, CodexSteps, Proceed, Played, ServedAt, Working, Teardown
  <1>4. CASE kind = "e2e"
    BY <1>1, <1>4, E2eOrder DEF OnCourse, E2eSteps, Proceed, Played, ServedAt, Working, Teardown
  <1>5. CASE kind = "smoke"
    BY <1>1, <1>5, SmokeOrder DEF OnCourse, SmokeSteps, Proceed, Played, ServedAt, Working, Teardown
  <1> QED
    BY <1>2, <1>3, <1>4, <1>5 DEF OnCourse

(* A worker records and settles only what it posted to the platform of     *)
(* this run.                                                               *)
LEMMA GrantedKept ==
  ASSUME OnStage, Records, Company, Ground, Staff, NothingYet, Granted, [RehearsalNext]_rehearsalVars
  PROVE Granted'
  <1>c. OnCourse
    BY DEF OnStage
  <1>1. CASE Opens
    BY <1>1 DEF Opens, Granted, Played, ServedAt, Working, Teardown
  <1>2. CASE \E m \in crew, n \in Member : Labours(m, n)
    <2>1. PICK m \in crew, n \in Member : Labours(m, n)
      BY <1>2
    <2>2. kind' = kind /\ doing' = doing /\ runs' = runs /\ broken' = broken /\ Here' = Here
      BY <2>1 DEF Labours, Unmoved, Here
    <2>3. SUFFICES ASSUME ~broken, doing \in Played
                   PROVE /\ \A x \in crew' : x.home = Here /\ x.at \in {"record", "settle"} => x.task \in platform'
                         /\ \A t \in Task : db'[t] = "solved" => t \in platform'
      BY <2>2 DEF Granted
    <2>4. /\ \A x \in crew : x.home = Here /\ x.at \in {"record", "settle"} => x.task \in platform
          /\ \A t \in Task : db[t] = "solved" => t \in platform
      BY <2>3 DEF Granted
    <2>5. platform \subseteq platform' /\ crew' \subseteq crew \cup {n} /\ n.home = m.home
      BY <2>1 DEF Labours
    <2>6. n.home = Here /\ n.at \in {"record", "settle"} => n.task \in platform'
      BY <2>1, <2>4, <2>5 DEF Labours
    <2>7. ASSUME NEW t \in Task, db'[t] = "solved"
          PROVE t \in platform'
      <3>1. db \in [Task -> {"none", "ready", "busy", "parked", "solved"}]
        BY DEF Records
      <3>2. CASE db[t] = "solved"
        BY <2>4, <2>5, <3>2
      <3>3. CASE db[t] # "solved"
        <4>1. m.at = "settle" /\ Park(m, "solved") /\ AtHome(m) /\ t = m.task
          BY <2>1, <2>7, <3>1, <3>3 DEF Labours, Park
        <4> QED
          BY <2>4, <2>5, <4>1 DEF AtHome
      <3> QED
        BY <3>2, <3>3
    <2> QED
      BY <2>4, <2>5, <2>6, <2>7
  <1>3. CASE Marches
    <2>k. kind' = kind /\ runs' = runs /\ Here' = Here /\ (broken => broken')
      BY <1>3 DEF Marches, Here
    <2>1. SUFFICES ASSUME ~broken, doing' \in Played
                   PROVE /\ \A x \in crew' : x.home = Here /\ x.at \in {"record", "settle"} => x.task \in platform'
                         /\ \A t \in Task : db'[t] = "solved" => t \in platform'
      BY <2>k DEF Granted
    <2>m. /\ \A x \in crew' : x \in crew \/ Hired(x)
          /\ Still \/ Goes \/ Throws \/ EndsShort
      BY <1>3 DEF Marches
    <2>2. doing \in Played \/ doing = "serve"
      <3>1. CASE Goes
        BY <1>c, <2>1, <3>1, PlayedBefore
      <3>2. CASE Still \/ Throws \/ EndsShort
        BY <2>1, <3>2 DEF Still, Throws, EndsShort, Guarded, Played, ServedAt, Working, Teardown
      <3> QED
        BY <2>m, <3>1, <3>2
    <2>3. CASE doing = "serve"
      <3>1. \A x \in crew' : x.home # Here \/ x.at \notin {"record", "settle"}
        BY <2>1, <2>m, <2>3, NobodyAtServe DEF Hired
      <3>2. db' = db
        BY <2>m, <2>3 DEF Still, Goes, Throws, EndsShort, Apart
      <3>3. \A t \in Task : db[t] = "none"
        BY <2>3 DEF NothingYet
      <3> QED
        BY <3>1, <3>2, <3>3
    <2>4. CASE doing \in Played
      <3>1. /\ \A x \in crew : x.home = Here /\ x.at \in {"record", "settle"} => x.task \in platform
            /\ \A t \in Task : db[t] = "solved" => t \in platform
        BY <2>1, <2>4 DEF Granted
      <3>2. platform' = platform
        BY <2>m, <2>4 DEF Still, Goes, Throws, EndsShort, Apart, Played, ServedAt, Working, Teardown
      <3>3. \A t \in Task : db'[t] = "solved" => db[t] = "solved"
        BY <2>m, <2>4 DEF Still, Goes, Throws, EndsShort, Apart, Played, ServedAt, Working, Teardown
      <3> QED
        BY <2>m, <3>1, <3>2, <3>3 DEF Hired
    <2> QED
      BY <2>2, <2>3, <2>4
  <1> QED
    BY <1>1, <1>2, <1>3, Passage

(* In a smoke a claim ends with the worker that made it, and the wait that *)
(* succeeds sees none left.                                                *)
LEMMA BusyKept ==
  ASSUME OnStage, Records, Company, Staff, Busy, [RehearsalNext]_rehearsalVars
  PROVE Busy'
  <1>c. /\ OnCourse /\ runs \in Nat /\ (doing # "over" => runs > 0)
        /\ db \in [Task -> {"none", "ready", "busy", "parked", "solved"}]
    BY DEF OnStage, Records
  <1>1. CASE Opens
    BY <1>1 DEF Opens, Busy
  <1>2. CASE \E m \in crew, n \in Member : Labours(m, n)
    <2>1. PICK m \in crew, n \in Member : Labours(m, n)
      BY <1>2
    <2>2. kind' = kind /\ doing' = doing /\ runs' = runs /\ broken' = broken /\ waited' = waited
      BY <2>1 DEF Labours, Unmoved
    <2>3. SUFFICES ASSUME kind = "smoke", ~broken
                   PROVE /\ doing \in {"start", "wait"} => \A t \in Task : db'[t] = "busy" =>
                              \E o \in crew' : o.home = runs /\ o.at \in Engaged /\ o.task = t
                         /\ doing \in {"stop", "count"} /\ waited =>
                              (\A o \in crew' : o.home # runs) /\ \A t \in Task : db'[t] # "busy"
      BY <2>2 DEF Busy
    <2>h. Here = runs
      BY <2>3 DEF Here
    <2>4. ASSUME doing \in {"start", "wait"}, NEW t \in Task, db'[t] = "busy"
          PROVE \E o \in crew' : o.home = runs /\ o.at \in Engaged /\ o.task = t
      <3>1. CASE db[t] = "busy"
        <4>1. PICK o \in crew : o.home = runs /\ o.at \in Engaged /\ o.task = t
          BY <2>3, <2>4, <3>1 DEF Busy
        <4>2. CASE o # m
          BY <2>1, <4>1, <4>2 DEF Labours
        <4>3. CASE o = m
          <5>1. AtHome(m) /\ db[m.task] # "none"
            BY <2>h, <3>1, <4>1, <4>3 DEF AtHome
          <5>2. ~Park(m, "parked") /\ ~Park(m, "solved")
            BY <1>c, <2>4, <4>1, <4>3, <5>1 DEF Park
          <5>3. n.task = m.task /\ n.at \in Engaged /\ n.home = m.home /\ crew' = (crew \ {m}) \cup {n}
            BY <2>1, <4>1, <4>3, <5>2 DEF Labours, Engaged
          <5> QED
            BY <4>1, <4>3, <5>3
        <4> QED
          BY <4>2, <4>3
      <3>2. CASE db[t] # "busy"
        <4>1. n.at = "solve" /\ n.task = t /\ m.home = Here /\ crew' = (crew \ {m}) \cup {n} /\ n.home = m.home
          BY <1>c, <2>1, <2>4, <3>2 DEF Labours, Park
        <4> QED
          BY <2>h, <4>1 DEF Engaged
      <3> QED
        BY <3>1, <3>2
    <2>5. ASSUME doing \in {"stop", "count"}, waited
          PROVE (\A o \in crew' : o.home # runs) /\ \A t \in Task : db'[t] # "busy"
      <3>1. (\A o \in crew : o.home # runs) /\ \A t \in Task : db[t] # "busy"
        BY <2>3, <2>5 DEF Busy
      <3>2. db' = db /\ crew' \subseteq crew \cup {n} /\ n.home = m.home
        BY <2>1, <2>h, <3>1 DEF Labours, Park, AtHome
      <3> QED
        BY <3>1, <3>2
    <2> QED
      BY <2>4, <2>5
  <1>3. CASE Marches
    <2>k. kind' = kind /\ runs' = runs /\ (broken => broken')
      BY <1>3 DEF Marches
    <2>m. /\ \A x \in crew' : x \in crew \/ Hired(x)
          /\ Still \/ Goes \/ Throws \/ EndsShort
      BY <1>3 DEF Marches
    <2>1. SUFFICES ASSUME kind = "smoke", ~broken
                   PROVE Busy'
      BY <2>k DEF Busy
    <2>g. ~Grand /\ Here = runs
      BY <2>1 DEF Grand, Here
    <2>2. CASE Throws \/ EndsShort
      BY <2>g, <2>2 DEF Throws, EndsShort, Busy
    <2>3. CASE Still
      <3>1. crew \subseteq crew'
        BY <2>3 DEF Still
      <3>2. doing \in {"stop", "count"} => crew' \subseteq crew
        BY <2>m DEF Hired
      <3> QED
        BY <2>k, <2>1, <2>3, <3>1, <3>2 DEF Still, Apart, Busy
    <2>4. CASE Goes
      <3>c. OnCourse /\ doing # "over" /\ Proceed
        BY <1>c, <2>4 DEF Goes
      <3>1. CASE doing = "intake"
        <4>1. \A t \in Task : db'[t] = "ready"
          BY <2>1, <2>4, <3>1 DEF Goes, Fixtures
        <4>2. doing' \in {"start", "threads"}
          BY <2>g, <3>1, <3>c, SmallCourse
        <4> QED
          BY <4>1, <4>2 DEF Busy
      <3>2. CASE doing = "start"
        <4>1. doing' = "wait" /\ db' = db /\ crew \subseteq crew'
          BY <2>g, <2>4, <3>2, <3>c, SmallCourse DEF Goes
        <4> QED
          BY <2>k, <2>1, <3>2, <4>1 DEF Busy
      <3>3. CASE doing = "wait"
        <4>1. doing' = "stop" /\ db' = db /\ (waited' => Listed(kind) = {})
          BY <2>g, <2>4, <3>3, <3>c, SmallCourse DEF Goes
        <4>2. \A x \in crew' : x \in crew
          BY <2>m, <3>3 DEF Hired
        <4>3. \A x \in crew : x.how = "process"
          BY <2>1, <3>3 DEF Staff, Company, Member
        <4>4. waited' => \A x \in crew : x.home # runs
          <5>1. runs # 0
            BY <1>c, <3>3
          <5> QED
            BY <2>1, <4>1, <4>3, <5>1 DEF Listed
        <4>5. waited' => \A t \in Task : db[t] # "busy"
          BY <2>1, <3>3, <4>4 DEF Busy
        <4> QED
          BY <2>k, <4>1, <4>2, <4>4, <4>5 DEF Busy
      <3>4. CASE doing = "stop"
        <4>1. doing' \in {"count", "over"} /\ db' = db /\ waited' = waited
          BY <2>g, <2>4, <3>4, <3>c, SmallCourse DEF Goes
        <4>2. \A x \in crew' : x \in crew
          BY <2>m, <3>4 DEF Hired
        <4> QED
          BY <2>k, <2>1, <3>4, <4>1, <4>2 DEF Busy
      <3>5. CASE doing \in {"init", "serve", "threads", "join", "count", "leave"}
        <4>1. doing' \notin {"start", "wait", "stop"} /\ (doing' = "count" => doing = "join")
          BY <2>g, <3>5, <3>c, SmallCourse
        <4>2. doing # "join"
          BY <1>c, <2>1 DEF OnCourse, SmokeSteps
        <4> QED
          BY <4>1, <4>2 DEF Busy
      <3> QED
        BY <2>g, <3>c, <3>1, <3>2, <3>3, <3>4, <3>5, SmallCourse
    <2> QED
      BY <2>m, <2>2, <2>3, <2>4
  <1> QED
    BY <1>1, <1>2, <1>3, Passage

(* Nothing but the platform's end follows a report.                        *)
LEMMA ReportedKept ==
  ASSUME OnStage, Records, Company, Reported, [RehearsalNext]_rehearsalVars
  PROVE Reported'
  <1>c. /\ OnCourse /\ runs \in Nat /\ report.run \in Nat
        /\ report.run <= runs /\ (report.run = runs => doing = "over" \/ (~Grand /\ doing = "leave"))
    BY DEF OnStage, Records, Reported
  <1>1. CASE Opens
    <2>1. runs' = runs + 1 /\ report' = report
      BY <1>1 DEF Opens
    <2> QED
      BY <1>c, <2>1 DEF Reported
  <1>2. CASE \E m \in crew, n \in Member : Labours(m, n)
    BY <1>2 DEF Labours, Unmoved, Reported, Grand
  <1>3. CASE Marches
    <2>k. kind' = kind /\ (Grand' <=> Grand) /\ runs' = runs
      BY <1>3 DEF Marches, Grand
    <2>1. CASE Goes /\ doing = "count"
      <3>1. report'.run = runs
        BY <2>1 DEF Goes
      <3>2. CASE Grand
        <4>1. doing' = "over"
          BY <1>c, <2>1, <3>2, Course DEF Goes
        <4> QED
          BY <1>c, <2>k, <3>1, <4>1 DEF Reported
      <3>3. CASE ~Grand
        <4>1. doing' = "leave"
          BY <1>c, <2>1, <3>3, SmallCourse DEF Goes
        <4> QED
          BY <1>c, <2>k, <3>1, <3>3, <4>1 DEF Reported
      <3> QED
        BY <3>2, <3>3
    <2>2. CASE Goes /\ doing # "count"
      <3>1. report' = report /\ doing # "over" /\ Proceed
        BY <2>2 DEF Goes
      <3>2. ~Grand /\ doing = "leave" => doing' = "over"
        BY <1>c, <3>1, SmallCourse
      <3> QED
        BY <1>c, <2>k, <3>1, <3>2 DEF Reported
    <2>3. CASE Still \/ Throws \/ EndsShort
      <3>1. report' = report /\ (doing' = doing \/ doing' = "over" \/ (Grand /\ doing \in Guarded))
        BY <2>3 DEF Still, Throws, EndsShort, Apart
      <3> QED
        BY <1>c, <2>k, <3>1 DEF Reported, Guarded
    <2> QED
      BY <1>3, <2>1, <2>2, <2>3 DEF Marches
  <1> QED
    BY <1>1, <1>2, <1>3, Passage

(* What makes a report a success, by the criteria of its kind, makes it    *)
(* true.                                                                   *)
LEMMA ReportTold ==
  ASSUME OnStage, Records, Company, Ground, Staff, Granted, Busy, doing = "count", Accepted, ~broken
  PROVE /\ Solved \subseteq platform /\ \A m \in crew : ~AtHome(m)
        /\ kind = "smoke" => \A t \in Task : db[t] # "busy"
  <1>1. Solved \subseteq platform
    BY DEF Granted, Played, Solved
  <1>2. /\ \A m \in crew : m.how = "process"
        /\ runs > 0 /\ runs # 0 /\ kind \in {"full", "codex", "e2e", "smoke"}
    BY DEF OnStage, Company, Staff, Member
  <1>3. CASE Grand
    <2>1. CriteriaMet
      BY <1>3 DEF Accepted, Grand
    <2>2. Listed(kind) = {}
      BY <2>1 DEF CriteriaMet
    <2>3. \A m \in crew : m.home # 0
      BY <1>2, <1>3, <2>2 DEF Listed, Grand
    <2> QED
      BY <1>1, <1>3, <2>3 DEF AtHome, Here, Grand
  <1>4. CASE kind = "e2e"
    <2>1. \A m \in crew : m.home # runs
      BY <1>2, <1>4 DEF Staff
    <2> QED
      BY <1>1, <1>4, <2>1 DEF AtHome, Here
  <1>5. CASE kind = "smoke"
    <2>1. waited
      BY <1>5 DEF Accepted
    <2> QED
      BY <1>1, <1>5, <2>1 DEF Busy, AtHome, Here
  <1> QED
    BY <1>2, <1>3, <1>4, <1>5 DEF Grand

(* A report of success stays true: nobody is left to change what it        *)
(* counts.                                                                 *)
LEMMA ReportKept ==
  ASSUME OnStage, Records, Company, Ground, Staff, Granted, Busy, Reported, ReportHolds,
         [RehearsalNext]_rehearsalVars
  PROVE ReportHolds'
  <1>c. /\ OnCourse /\ runs \in Nat /\ report.run \in Nat
        /\ report.run <= runs /\ (report.run = runs => doing = "over" \/ (~Grand /\ doing = "leave"))
    BY DEF OnStage, Records, Reported
  <1>1. CASE Opens
    <2>1. report'.run # runs'
      BY <1>c, <1>1 DEF Opens
    <2> QED
      BY <2>1 DEF ReportHolds
  <1>2. CASE \E m \in crew, n \in Member : Labours(m, n)
    <2>1. PICK m \in crew, n \in Member : Labours(m, n)
      BY <1>2
    <2>2. /\ kind' = kind /\ doing' = doing /\ runs' = runs /\ broken' = broken /\ report' = report
          /\ Here' = Here
      BY <2>1 DEF Labours, Unmoved, Here
    <2>3. CASE ~(report.run = runs /\ report.ok /\ ~broken)
      BY <2>2, <2>3 DEF ReportHolds
    <2>4. CASE report.run = runs /\ report.ok /\ ~broken
      <3>1. /\ Solved = report.solved /\ Solved \subseteq platform /\ \A x \in crew : ~AtHome(x)
            /\ kind = "smoke" => \A t \in Task : db[t] # "busy"
        BY <2>4 DEF ReportHolds
      <3>2. m.home # Here
        BY <3>1 DEF AtHome
      <3>3. db' = db /\ platform \subseteq platform' /\ crew' \subseteq crew \cup {n} /\ n.home = m.home
        BY <2>1, <3>2 DEF Labours, Park, AtHome
      <3>4. Solved' = Solved
        BY <3>3 DEF Solved
      <3> QED
        BY <2>2, <3>1, <3>2, <3>3, <3>4 DEF ReportHolds, AtHome
    <2> QED
      BY <2>3, <2>4
  <1>3. CASE Marches
    <2>k. kind' = kind /\ runs' = runs /\ Here' = Here /\ (broken => broken')
      BY <1>3 DEF Marches, Here
    <2>m. /\ \A x \in crew' : x \in crew \/ Hired(x)
          /\ Still \/ Goes \/ Throws \/ EndsShort
      BY <1>3 DEF Marches
    <2>1. CASE broken'
      BY <2>1 DEF ReportHolds
    <2>2. CASE ~broken' /\ Goes /\ doing = "count"
      <3>1. /\ db' = db /\ platform' = platform /\ report' = [run |-> runs, ok |-> Accepted, solved |-> Solved]
            /\ \A x \in crew' : x \in crew
        BY <2>m, <2>2 DEF Goes, Hired
      <3>2. report'.solved = Solved /\ (report'.ok => Accepted) /\ Solved' = Solved
        BY <3>1 DEF Solved
      <3>3. report'.ok => /\ Solved \subseteq platform /\ \A m \in crew : ~AtHome(m)
                          /\ kind = "smoke" => \A t \in Task : db[t] # "busy"
        BY <2>k, <2>2, <3>2, ReportTold
      <3> QED
        BY <2>k, <3>1, <3>2, <3>3 DEF ReportHolds, AtHome
    <2>3. CASE ~broken' /\ ~(Goes /\ doing = "count")
      <3>1. report' = report
        BY <2>m, <2>3 DEF Goes, Still, Throws, EndsShort, Apart
      <3>2. CASE ~(report.run = runs /\ report.ok)
        BY <2>k, <3>1, <3>2 DEF ReportHolds
      <3>3. CASE report.run = runs /\ report.ok
        <4>1. /\ Solved = report.solved /\ Solved \subseteq platform /\ \A x \in crew : ~AtHome(x)
              /\ kind = "smoke" => \A t \in Task : db[t] # "busy"
          BY <2>k, <2>3, <3>3 DEF ReportHolds
        <4>2. doing = "over" \/ doing = "leave"
          BY <1>c, <3>3
        <4>3. db' = db /\ platform' = platform /\ \A x \in crew' : x \in crew
          BY <2>m, <4>2 DEF Goes, Still, Throws, EndsShort, Apart, Hired
        <4>4. Solved' = Solved
          BY <4>3 DEF Solved
        <4> QED
          BY <2>k, <3>1, <4>1, <4>3, <4>4 DEF ReportHolds, AtHome
      <3> QED
        BY <3>2, <3>3
    <2> QED
      BY <2>m, <2>1, <2>2, <2>3
  <1> QED
    BY <1>1, <1>2, <1>3, Passage

(* The invariant holds before the first rehearsal.                         *)
LEMMA RInvInit ==
  ASSUME RehearsalInit
  PROVE RInv
  <1>1. OnStage
    <2>1. kind \in {"full", "codex", "e2e", "smoke"}
      BY DEF RehearsalInit
    <2>2. OnCourse
      BY <2>1 DEF RehearsalInit, OnCourse, FullSteps, CodexSteps, E2eSteps, SmokeSteps
    <2>3. /\ raised \in BOOLEAN /\ waited \in BOOLEAN /\ stopped \in BOOLEAN /\ server \in BOOLEAN
          /\ armed \in BOOLEAN /\ public \in BOOLEAN /\ pool \in BOOLEAN
          /\ broken \in BOOLEAN /\ unclean \in BOOLEAN
      BY Zenon DEF RehearsalInit
    <2>4. runs \in 0..MaxRuns /\ killings \in 0..MaxKillings /\ raises \in 0..MaxRaises
      BY DEF RehearsalInit
    <2>5. doing = "over" /\ raised = FALSE /\ server = FALSE /\ kind \in Kinds
      BY Zenon DEF RehearsalInit
    <2> QED
      BY <2>2, <2>3, <2>4, <2>5 DEF OnStage
  <1>2. Records
    <2>1. report \in [run : 0..MaxRuns, ok : BOOLEAN, solved : SUBSET Task]
      BY DEF RehearsalInit
    <2> QED
      BY <2>1 DEF RehearsalInit, Records
  <1>3. Company /\ Ground /\ Staff
    BY DEF RehearsalInit, Company, Ground, Gone, Staff
  <1>4. NothingYet /\ Granted /\ Busy
    BY DEF RehearsalInit, NothingYet, Granted, Busy, Played, ServedAt, Working, Teardown
  <1>5. report.run = 0 /\ report.ok = FALSE
    BY DEF RehearsalInit
  <1>6. Reported /\ ReportHolds
    BY <1>5 DEF RehearsalInit, Reported, ReportHolds
  <1> QED
    BY <1>1, <1>2, <1>3, <1>4, <1>6 DEF RInv

(* The rehearsals keep their invariant, for any number of workers,         *)
(* challenges, runs, kills and exceptions.                                 *)
THEOREM RehearsalInvariant == RehearsalSpec => []RInv
  <1>1. RehearsalInit => RInv
    BY RInvInit
  <1>2. RInv /\ [RehearsalNext]_rehearsalVars => RInv'
    BY StageKept, RecordsStay, CompanyKept, GroundKept, StaffKept, NothingYetKept, GrantedKept, BusyKept,
       ReportedKept, ReportKept DEF RInv
  <1> QED
    BY <1>1, <1>2, PTL DEF RehearsalSpec

(* Rehearsals keep their types and go through the steps of their script.   *)
THEOREM RehearsalTypeCorrect == RehearsalSpec => []RehearsalTypeOK
  <1>1. RInv => RehearsalTypeOK
    <2>1. SUFFICES ASSUME RInv PROVE RehearsalTypeOK
      OBVIOUS
    <2>2. OnStage /\ Records /\ Company /\ OnCourse
      BY <2>1 DEF RInv, OnStage
    <2>3. doing \in {Script(kind)[i] : i \in DOMAIN Script(kind)}
      <3>1. CASE kind = "full" /\ doing \in FullSteps
        BY <3>1, FullOrder
      <3>2. CASE kind = "codex" /\ doing \in CodexSteps
        BY <3>2, CodexOrder
      <3>3. CASE kind = "e2e" /\ doing \in E2eSteps
        BY <3>3, E2eOrder
      <3>4. CASE kind = "smoke" /\ doing \in SmokeSteps
        BY <3>4, SmokeOrder
      <3> QED
        BY <2>2, <3>1, <3>2, <3>3, <3>4 DEF OnCourse
    <2> QED
      BY <2>2, <2>3 DEF OnStage, Records, Company, RehearsalTypeOK
  <1> QED
    BY <1>1, RehearsalInvariant, PTL

(* A full rehearsal starts on clean ground, what a rehearsal reports as a  *)
(* success stays true, and a full one that ran to its end leaves nothing   *)
(* running and the contest disarmed, however its workers, a timeout, an    *)
(* exception or an earlier killed run got in its way.                      *)
THEOREM RehearsalKept == RehearsalSpec => []RehearsalHolds
  <1>1. RInv => RehearsalHolds
    <2>1. SUFFICES ASSUME RInv PROVE RehearsalHolds
      OBVIOUS
    <2>2. OnStage /\ Company /\ Ground /\ Staff /\ NothingYet /\ ReportHolds
      BY <2>1 DEF RInv
    <2>3. CleanStart
      <3>1. SUFFICES ASSUME doing = "intake", Here = 0
                     PROVE Listed(kind) = {} /\ ~public /\ ~pool /\ \A t \in Task : db[t] = "none"
        BY DEF CleanStart
      <3>2. Grand
        BY <2>2, <3>1 DEF OnStage, Here, Grand
      <3>3. Gone(PublicAt, PublicCleared) /\ Gone(PoolAt, PoolCleared) /\ Gone(StaffedAt, StaffCleared)
        BY <3>1, <3>2 DEF Gone, PublicAt, PublicCleared, PoolAt, PoolCleared, StaffedAt, StaffCleared, Working
      <3>4. ~public /\ ~pool /\ \A m \in crew : m.home = 0 => m.how # "process"
        BY <2>2, <3>3 DEF Ground
      <3>5. Listed(kind) = {}
        BY <3>2, <3>4 DEF Listed, Grand
      <3> QED
        BY <2>2, <3>1, <3>4, <3>5 DEF NothingYet
    <2>4. QuietWhenOver
      <3>1. SUFFICES ASSUME doing = "over", ~unclean
                     PROVE /\ ~armed /\ ~public /\ ~pool /\ ~server
                           /\ \A m \in crew : m.home = 0 => m.how = "unlisted"
        BY DEF QuietWhenOver
      <3>2. doing \notin ArmedAt \cup PublicAt \cup PoolAt \cup StaffedAt \cup ServedAt
        BY <3>1 DEF ArmedAt, PublicAt, PoolAt, StaffedAt, ServedAt, Working
      <3>3. ~armed /\ ~public /\ ~pool /\ \A m \in crew : m.home = 0 => m.how # "process"
        BY <2>2, <3>1, <3>2 DEF Ground, Gone
      <3>4. ~server
        BY <2>2, <3>1, <3>2 DEF OnStage
      <3>5. \A m \in crew : m.how \in {"process", "unlisted", "thread"} /\ m.how # "thread"
        BY <2>2, <3>1 DEF Company, Member, Staff
      <3> QED
        BY <3>3, <3>4, <3>5
    <2> QED
      BY <2>2, <2>3, <2>4 DEF RehearsalHolds
  <1> QED
    BY <1>1, RehearsalInvariant, PTL
=============================================================================
