--------------------------- MODULE OperatorBoard ---------------------------
(***************************************************************************)
(* The interactive operator directory of ctf_runner/interactive.py:        *)
(* several agent sessions on one machine run `interactive` commands, each  *)
(* a process of its own, over files that no command locks as a whole:      *)
(* board.json, which is read, changed in memory and rewritten; the lock    *)
(* files under claims/; and the ledgers solved.jsonl, external_solved.txt, *)
(* stalled.jsonl and submissions.jsonl, which only grow.  Every read of a  *)
(* file, every append, and each half of a rewrite is a step of its own.    *)
(***************************************************************************)
EXTENDS Naturals, FiniteSets

CONSTANTS
  Agent,       \* names of the sessions; a session runs one command at a time
  Challenge,   \* canonical, claimable challenges
  Nobody,      \* no agent, no challenge
  Flag,        \* flags that may be found for a challenge
  Correct,     \* the one among them the platform accepts
  Commands,    \* the commands the sessions use
  Mortal,      \* the sessions that may die
  MaxBegun     \* bound: commands begun in a behaviour

\* "claim" names no challenge; "claim_named" does, "retry" adds
\* --allow-stalled-retry to it and "race" --allow-duplicate.
Claiming == {"claim", "claim_named", "retry", "race"}
CommandNames == {"status", "sync", "config", "release", "stall", "external", "submit"} \cup Claiming

ASSUME OperatorBoardAssumption ==
  /\ Nobody \notin Agent /\ Nobody \notin Challenge
  /\ Correct \in Flag /\ MaxBegun \in Nat
  /\ Commands \subseteq CommandNames /\ Mortal \subseteq Agent

VARIABLES
  board,      \* what a reader makes of board.json
  blank,      \* board.json is truncated and not yet written
  locks,      \* files under claims/
  solved, external, stalled,  \* challenges named in the three ledgers
  judged,     \* <<challenge, flag>> with a verdict in submissions.jsonl
  pc, mem,    \* control state and locals of each session's command
  holding,    \* [Agent -> SUBSET Challenge]: claims (without --allow-duplicate)
              \* the session was granted and has not given back
  credited,   \* challenges the platform is known to count as solved
  posts,      \* [Challenge \X Flag -> 0..2]: live posts, 2 = two or more
  contended,  \* <<challenge, flag>> two sessions were submitting at once
  unanswered, \* <<challenge, flag>> posted without a verdict being recorded
  orphaned,   \* challenges locked by a session that died
  begun

ledgers == <<solved, external, stalled, judged>>
ghosts  == <<credited, posts, contended, unanswered>>
file == <<board, blank>>
vars == <<file, locks, ledgers, pc, mem, holding, ghosts, orphaned, begun>>

\* A challenge of the board: its status, claimed_by, and platform_solved.
Statuses == {"absent", "todo", "claimed", "stalled", "solved", "external_solved"}
Row == [st : Statuses, by : Agent \cup {Nobody}, plat : BOOLEAN]
Missing == [st |-> "absent", by |-> Nobody, plat |-> FALSE]
Fresh   == [st |-> "todo", by |-> Nobody, plat |-> FALSE]

\* _default_board, which _read_board also makes of an empty or garbled file.
DefaultBoard == [c \in Challenge |-> Missing]

\* A lock file; full is FALSE between its creation and the write of its payload.
Lock == [ch : Challenge, by : Agent, dup : BOOLEAN, full : BOOLEAN]

Blank == [cmd |-> "none", target |-> Nobody, flag |-> Correct, board |-> DefaultBoard,
          settled |-> {}, stalls |-> {}, known |-> {}, freed |-> FALSE]

Init ==
  /\ board = [c \in Challenge |-> Fresh] /\ blank = FALSE
  /\ locks = {}
  /\ solved = {} /\ external = {} /\ stalled = {} /\ judged = {}
  /\ pc = [a \in Agent |-> "idle"]
  /\ mem = [a \in Agent |-> Blank]
  /\ holding = [a \in Agent |-> {}]
  /\ credited = {}
  /\ posts = [p \in Challenge \X Flag |-> 0]
  /\ contended = {} /\ unanswered = {} /\ orphaned = {}
  /\ begun = 0
-----------------------------------------------------------------------------
(* What the code reads off a row and off the lock files.                   *)

\* _challenge_status: several marks of a row outrank its status.
StatusOf(row) == IF row.st = "external_solved" \/ row.plat THEN "solved" ELSE row.st

\* _item_solved_by_platform_or_external
SolvedElsewhere(row) == row.st = "external_solved" \/ row.plat

\* _claimed_ids: lock files that are still empty name no challenge.
ClaimedIds == {l.ch : l \in {k \in locks : k.full}}

\* Faulty: external_solved.txt is not consulted.
WithoutExternal(row, c) ==
  IF c \in solved THEN "solved" ELSE IF row.plat THEN "solved" ELSE row.st

\* _apply_runtime_statuses, from the ledgers of verdicts.
VerdictOn(row, c) ==
  IF c \in solved THEN "solved"
  ELSE IF c \in external THEN "external_solved"
  ELSE IF row.plat THEN "solved" ELSE row.st

Settled(b) == {c \in Challenge : c \in solved \cup external \/ b[c].plat}

\* For the others: the lock files, the stalled entries read before them, and
\* last what the row said (a row can show "claimed" with no lock behind it).
MarkOn(row, c, m) ==
  IF c \in m.settled THEN row.st
  ELSE IF c \in ClaimedIds THEN "claimed"
  ELSE IF c \in m.stalls THEN "stalled" ELSE row.st

Present(b) == {c \in Challenge : b[c].st # "absent"}
Restamped(b, st) == [c \in Challenge |-> IF c \in Present(b) THEN [b[c] EXCEPT !.st = st[c]]
                                         ELSE b[c]]

\* Faulty: an agent's locks go together.
AllLocksOf(a, C) == {l \in locks : l.full /\ l.by = a}

\* _release_locks: a lock that is still empty names neither agent nor challenge.
LocksOf(a, C) == {l \in locks : l.full /\ l.by = a /\ l.ch \in C}
LocksOn(C)    == {l \in locks : l.full /\ l.ch \in C}
-----------------------------------------------------------------------------
(* Steps of a command.                                                     *)

Goto(a, l) == pc' = [pc EXCEPT ![a] = l]

Leave(a) == /\ Goto(a, "idle")
            /\ mem' = [mem EXCEPT ![a] = Blank]

\* What two sessions do to one challenge and flag at the same time.
Submitting(a, c, f) == mem[a].cmd = "submit" /\ mem[a].target = c /\ mem[a].flag = f

Unnamed == {"status", "sync", "config", "claim"}

\* A session starts a command.  release may name no challenge: it means all.
Begin(a, cmd, c, f) ==
  /\ pc[a] = "idle" /\ begun < MaxBegun /\ cmd \in Commands
  /\ cmd \in Unnamed => c = Nobody
  /\ cmd \notin Unnamed \cup {"release"} => c # Nobody
  /\ cmd # "submit" => f = Correct
  /\ Goto(a, IF cmd = "release" THEN "unlock" ELSE "read")
  /\ mem' = [mem EXCEPT ![a] = [Blank EXCEPT !.cmd = cmd, !.target = c, !.flag = f,
                                             !.known = solved \cup external]]
  /\ begun' = begun + 1
  /\ contended' = IF cmd = "submit" /\ \E b \in Agent : Submitting(b, c, f)
                  THEN contended \cup {<<c, f>>} ELSE contended
  /\ UNCHANGED <<file, locks, ledgers, holding, credited, posts, unanswered, orphaned>>

\* release_claim, in memory: claims that are the agent's or nobody's are open again.
Reopen(b, m, a) ==
  [c \in Challenge |->
     IF /\ m.target \in {c, Nobody} /\ (m.target # Nobody => m.freed)
        /\ b[c].st = "claimed" /\ b[c].by \in {a, Nobody}
     THEN [b[c] EXCEPT !.st = "todo", !.by = Nobody]
     ELSE b[c]]

AfterRead(cmd) == CASE cmd \in Claiming \cup {"status", "sync"} -> "ledgers"
                    [] cmd \in {"release", "config"} -> "truncate"
                    [] cmd \in {"stall", "external"} -> "append"
                    [] cmd = "submit" -> "decide"

\* mark_stalled and mark_external_solved end when the board has no such row.
NotFound(a) == /\ mem[a].cmd \in {"stall", "external"}
               /\ mem[a].target \notin Present(board)

ReadBoard(a) ==
  /\ pc[a] = "read"
  /\ IF NotFound(a) THEN Leave(a)
     ELSE /\ Goto(a, AfterRead(mem[a].cmd))
          /\ mem' = [mem EXCEPT ![a].board =
                       IF mem[a].cmd = "release" THEN Reopen(board, mem[a], a)
                       ELSE board]
  /\ UNCHANGED <<file, locks, ledgers, holding, ghosts, orphaned, begun>>

\* The reads of solved.jsonl, of the platform's solves and of stalled.jsonl,
\* files that only grow, are taken as one.
ReadLedgers(a) ==
  LET b == mem[a].board IN
  /\ pc[a] \in {"ledgers", "ledgers again"}
  /\ Goto(a, IF pc[a] = "ledgers" THEN "locks" ELSE "locks again")
  /\ mem' = [mem EXCEPT
       ![a].board = Restamped(b, [c \in Challenge |-> VerdictOn(b[c], c)]),
       ![a].settled = Settled(b),
       ![a].stalls = stalled]
  /\ UNCHANGED <<file, locks, ledgers, holding, ghosts, orphaned, begun>>

AfterLocks(a) == CASE pc[a] = "locks again"      -> "unlock"
                   [] mem[a].cmd = "sync"        -> "ask"
                   [] mem[a].cmd = "status"      -> "truncate"
                   [] mem[a].cmd \in Claiming    -> "choose"

ReadLocks(a) ==
  LET b == mem[a].board IN
  /\ pc[a] \in {"locks", "locks again"}
  /\ Goto(a, AfterLocks(a))
  /\ mem' = [mem EXCEPT
       ![a].board = Restamped(b, [c \in Challenge |-> MarkOn(b[c], c, mem[a])]),
       ![a].settled = {}, ![a].stalls = {}]
  /\ UNCHANGED <<file, locks, ledgers, holding, ghosts, orphaned, begun>>
-----------------------------------------------------------------------------
(* claim_challenge.                                                        *)

\* Faulty: a claim by name looks only for the row.
AnyNamed(a) == LET b == mem[a].board IN
  IF mem[a].cmd = "claim" THEN {c \in Challenge : StatusOf(b[c]) = "todo"}
  ELSE {mem[a].target} \cap Present(b)

\* By name, a row shown as claimed is not refused: the lock decides.
Candidates(a) ==
  LET b == mem[a].board
      Accepted == {"todo", "claimed"} \cup (IF mem[a].cmd = "retry" THEN {"stalled"} ELSE {})
  IN IF mem[a].cmd = "claim" THEN {c \in Challenge : StatusOf(b[c]) = "todo"}
     ELSE {mem[a].target} \cap {c \in Challenge : StatusOf(b[c]) \in Accepted}

\* Faulty: a lock file that is still empty does not count.
TakenInFull(c) == \E l \in locks : l.ch = c /\ ~l.dup /\ l.full

\* Only claims without --allow-duplicate use the challenge's own lock file.
Taken(c) == \E l \in locks : l.ch = c /\ ~l.dup

\* os.open with O_EXCL, or the creation of one more file for a duplicate.
TakeLock(a) == \E c \in Candidates(a) :
  LET dup == mem[a].cmd = "race" IN
  /\ pc[a] = "choose" /\ (dup \/ ~Taken(c))
  /\ locks' = locks \cup {[ch |-> c, by |-> a, dup |-> dup, full |-> FALSE]}
  /\ holding' = [holding EXCEPT ![a] = IF dup THEN @ ELSE @ \cup {c}]
  /\ mem' = [mem EXCEPT ![a].target = c]
  /\ Goto(a, "payload")
  /\ UNCHANGED <<file, ledgers, ghosts, orphaned, begun>>

\* Nothing to claim, or already_claimed_on_this_machine.
ClaimRefused(a) ==
  /\ pc[a] = "choose"
  /\ Candidates(a) = {} \/ (mem[a].cmd # "race" /\ \E c \in Candidates(a) : Taken(c))
  /\ Leave(a)
  /\ UNCHANGED <<file, locks, ledgers, holding, ghosts, orphaned, begun>>

WritePayload(a) ==
  LET c == mem[a].target
      l == [ch |-> c, by |-> a, dup |-> mem[a].cmd = "race", full |-> FALSE]
  IN /\ pc[a] = "payload"
     /\ locks' = (locks \ {l}) \cup {[l EXCEPT !.full = TRUE]}
     /\ mem' = [mem EXCEPT ![a].board = [@ EXCEPT ![c].st = "claimed", ![c].by = a]]
     /\ Goto(a, "truncate")
     /\ UNCHANGED <<file, ledgers, holding, ghosts, orphaned, begun>>
-----------------------------------------------------------------------------
(* mark_stalled, mark_external_solved, submit_flag_file.                   *)

\* The row a command read is changed in memory; a submit may have found none.
\* stalled leaves solved_by_external alone, which outranks it in every reader.
SetRow(a, st) ==
  LET c == mem[a].target
      old == mem[a].board[c].st
  IN IF old = "absent" \/ (old = "external_solved" /\ st = "stalled") THEN mem[a].board
     ELSE [mem[a].board EXCEPT ![c].st = st]

AppendLedger(a) ==
  LET c == mem[a].target IN
  /\ pc[a] = "append"
  /\ \/ /\ mem[a].cmd = "stall"
        /\ stalled' = stalled \cup {c} /\ UNCHANGED external
        /\ mem' = [mem EXCEPT ![a].board = SetRow(a, "stalled")]
     \/ /\ mem[a].cmd = "external"
        /\ external' = external \cup {c} /\ UNCHANGED stalled
        /\ mem' = [mem EXCEPT ![a].board = SetRow(a, "external_solved")]
  /\ Goto(a, "unlock")
  /\ UNCHANGED <<file, locks, solved, judged, holding, ghosts, orphaned, begun>>

\* Faulty: the earlier submissions are not consulted.
UnsolvedRow(a) == StatusOf(mem[a].board[mem[a].target]) # "solved"

\* should_submit: the row as it was read, with no look at solved.jsonl or
\* external_solved.txt, and the earlier submissions.
Submittable(a) == /\ StatusOf(mem[a].board[mem[a].target]) # "solved"
                  /\ <<mem[a].target, mem[a].flag>> \notin judged

Decide(a) ==
  /\ pc[a] = "decide" /\ Submittable(a)
  /\ Goto(a, "post")
  /\ UNCHANGED <<file, locks, ledgers, mem, holding, ghosts, orphaned, begun>>

\* Refused for these reasons, or for the others of SubmitPolicy and the run mode.
SubmitRefused(a) ==
  /\ pc[a] = "decide"
  /\ Leave(a)
  /\ UNCHANGED <<file, locks, ledgers, holding, ghosts, orphaned, begun>>

\* The platform's verdict on a flag: of a solved challenge it may take any.
SaysOf(c, f) == (IF f = Correct \/ c \in credited THEN {"accepted"} ELSE {})
                \cup (IF f = Correct THEN {} ELSE {"rejected"})

\* The platform answers with a verdict, or the answer says nothing.
Post(a) ==
  LET p == <<mem[a].target, mem[a].flag>>
      hit == mem[a].flag = Correct
  IN /\ pc[a] = "post"
     /\ posts' = [posts EXCEPT ![p] = IF @ < 2 THEN @ + 1 ELSE 2]
     /\ credited' = IF hit THEN credited \cup {p[1]} ELSE credited
     /\ \/ /\ \E v \in SaysOf(p[1], p[2]) : Goto(a, v)
           /\ UNCHANGED <<mem, unanswered>>
        \/ /\ Leave(a)
           /\ unanswered' = unanswered \cup {p}
     /\ UNCHANGED <<file, locks, ledgers, holding, contended, orphaned, begun>>

RecordVerdict(a) ==
  /\ pc[a] \in {"accepted", "rejected"}
  /\ judged' = judged \cup {<<mem[a].target, mem[a].flag>>}
  /\ IF pc[a] = "accepted" THEN Goto(a, "credit") /\ UNCHANGED mem ELSE Leave(a)
  /\ UNCHANGED <<file, locks, solved, external, stalled, holding, ghosts, orphaned, begun>>

RecordSolved(a) ==
  /\ pc[a] = "credit"
  /\ solved' = solved \cup {mem[a].target}
  /\ mem' = [mem EXCEPT ![a].board = SetRow(a, "solved")]
  /\ Goto(a, "unlock")
  /\ UNCHANGED <<file, locks, external, stalled, judged, holding, ghosts, orphaned, begun>>
-----------------------------------------------------------------------------
(* Releasing locks, rewriting the board, and sync_operator.                *)

Wanted(a) == IF mem[a].target = Nobody THEN Challenge ELSE {mem[a].target}

\* Faulty: release and stalled do not ask whose lock it is.
ReleasedOfAll(a) ==
  CASE mem[a].cmd \in {"release", "stall"}   -> LocksOn(Wanted(a))
    [] mem[a].cmd \in {"external", "submit"} -> LocksOn({mem[a].target})
    [] mem[a].cmd = "sync" -> LocksOn({c \in Challenge : SolvedElsewhere(mem[a].board[c])})

\* _release_locks with an agent's name, and without.
Released(a) ==
  CASE mem[a].cmd \in {"release", "stall"}   -> LocksOf(a, Wanted(a))
    [] mem[a].cmd \in {"external", "submit"} -> LocksOn({mem[a].target})
    [] mem[a].cmd = "sync" -> LocksOn({c \in Challenge : SolvedElsewhere(mem[a].board[c])})

Unlock(a) ==
  /\ pc[a] = "unlock"
  /\ locks' = locks \ Released(a)
  /\ mem' = [mem EXCEPT ![a].freed = Released(a) # {}]
  /\ holding' = IF mem[a].cmd \in {"release", "stall"}
                THEN [holding EXCEPT ![a] = @ \ Wanted(a)] ELSE holding
  /\ Goto(a, IF mem[a].cmd = "release" THEN "read" ELSE "truncate")
  /\ UNCHANGED <<file, ledgers, ghosts, orphaned, begun>>

\* Path.write_text: the file is truncated, then written.
Truncate(a) ==
  /\ pc[a] = "truncate"
  /\ board' = DefaultBoard /\ blank' = TRUE
  /\ Goto(a, "fill")
  /\ UNCHANGED <<locks, ledgers, mem, holding, ghosts, orphaned, begun>>

\* If another session wrote in between, the end of a longer text may stay behind.
Fill(a) ==
  /\ pc[a] = "fill"
  /\ board' \in {mem[a].board} \cup (IF blank THEN {} ELSE {DefaultBoard})
  /\ blank' = FALSE
  /\ Leave(a)
  /\ UNCHANGED <<locks, ledgers, holding, ghosts, orphaned, begun>>

\* _merge_challenge_entry for the challenges L the platform lists, and
\* _apply_platform_solved_records for those it reports solved.
Merged(row, c, L, S) ==
  IF c \in L
  THEN [st   |-> IF c \in S THEN "solved"
                 ELSE IF row.st \in {"solved", "external_solved", "stalled", "claimed"}
                 THEN row.st ELSE "todo",
        by   |-> row.by,
        plat |-> c \in S]
  ELSE IF row.st # "absent" /\ c \in S THEN [row EXCEPT !.st = "solved", !.plat = TRUE]
  ELSE row

\* S is what the platform reports solved, by teammates too, or empty when the
\* sync does not pull solved states.
AskPlatform(a) == \E L \in SUBSET Challenge, S \in SUBSET Challenge :
  /\ pc[a] = "ask"
  /\ S = {} \/ credited \subseteq S
  /\ credited' = credited \cup S
  /\ mem' = [mem EXCEPT ![a].board =
               [c \in Challenge |-> Merged(mem[a].board[c], c, L, S)]]
  /\ Goto(a, "ledgers again")
  /\ UNCHANGED <<file, locks, ledgers, holding, posts, contended, unanswered, orphaned, begun>>
-----------------------------------------------------------------------------
\* A session dies, in the middle of a command or between two; another one may
\* take its name.
Die(a) ==
  /\ a \in Mortal /\ (pc[a] # "idle" \/ holding[a] # {})
  /\ Leave(a)
  /\ holding' = [holding EXCEPT ![a] = {}]
  /\ orphaned' = orphaned \cup {<<l.by, l.ch>> : l \in {k \in locks : k.by = a}}
  /\ unanswered' = IF pc[a] \in {"accepted", "rejected"}
                   THEN unanswered \cup {<<mem[a].target, mem[a].flag>>} ELSE unanswered
  /\ UNCHANGED <<file, locks, ledgers, credited, posts, contended, begun>>
-----------------------------------------------------------------------------
Step(a) ==
  \/ ReadBoard(a) \/ ReadLedgers(a) \/ ReadLocks(a)
  \/ TakeLock(a) \/ ClaimRefused(a) \/ WritePayload(a)
  \/ AppendLedger(a)
  \/ Decide(a) \/ SubmitRefused(a) \/ Post(a) \/ RecordVerdict(a) \/ RecordSolved(a)
  \/ Unlock(a) \/ Truncate(a) \/ Fill(a) \/ AskPlatform(a)

Next ==
  \/ \E a \in Agent, cmd \in CommandNames, c \in Challenge \cup {Nobody}, f \in Flag :
       Begin(a, cmd, c, f)
  \/ \E a \in Agent : Step(a) \/ Die(a)

Spec == Init /\ [][Next]_vars
-----------------------------------------------------------------------------
Boards == [Challenge -> Row]
Locals == [cmd : CommandNames \cup {"none"}, target : Challenge \cup {Nobody}, flag : Flag,
           board : Boards, settled : SUBSET Challenge, stalls : SUBSET Challenge,
           known : SUBSET Challenge, freed : BOOLEAN]
Labels == {"idle", "read", "ledgers", "locks", "ledgers again", "locks again", "choose",
           "payload", "append", "decide", "post", "accepted", "rejected", "credit",
           "unlock", "truncate", "fill", "ask"}

(* The files and the sessions' locals are well-typed.                      *)
TypeOK ==
  /\ board \in Boards /\ blank \in BOOLEAN
  /\ locks \subseteq Lock
  /\ solved \subseteq Challenge /\ external \subseteq Challenge /\ stalled \subseteq Challenge
  /\ judged \subseteq Challenge \X Flag
  /\ pc \in [Agent -> Labels]
  /\ mem \in [Agent -> Locals]
  /\ holding \in [Agent -> SUBSET Challenge]

(* What takes a lock away from the session that holds it: a verdict.       *)
Decided(c) == c \in solved \cup external \cup credited

(* Two sessions never work on one challenge that is still open, whatever   *)
(* the board says meanwhile: it may be read half-written, overwritten by   *)
(* older copies or lost.  Only --allow-duplicate gives a challenge to two. *)
SoleWorker ==
  \A a, b \in Agent : \A c \in holding[a] \cap holding[b] : a = b \/ Decided(c)

(* The lock files are what the sessions believe: a session that was        *)
(* granted an open challenge has its lock, and a lock belongs to a session *)
(* that holds the challenge or died.  release, stalled, external-solved,   *)
(* submit and sync delete exactly the right files.                         *)
LocksMatchWork ==
  /\ \A a \in Agent : \A c \in holding[a] :
       Decided(c) \/ \E l \in locks : l.ch = c /\ l.by = a /\ ~l.dup
  /\ \A l \in locks : l.dup \/ l.ch \in holding[l.by] \/ <<l.by, l.ch>> \in orphaned

\* Whose the challenge's own lock file is.
OwnersOf(c) == {l.by : l \in {k \in locks : k.ch = c /\ ~k.dup}}

ClaimLock == INSTANCE ChallengeLock
  WITH Session <- Agent, Item <- Challenge,
       owners <- [c \in Challenge |-> OwnersOf(c)],
       settled <- solved \cup external \cup credited

(* The files under claims/ implement ChallengeLock: a challenge is locked  *)
(* only while no session has its lock, and a live session's lock is        *)
(* deleted only as the session gives the challenge back, or after a        *)
(* verdict, in the ledgers or by the platform's word.  Opening the file,   *)
(* its payload and its deletion are steps with anybody's in between.       *)
LocksAreHonoured == ClaimLock!LockSpec

(* A challenge that was in solved.jsonl or external_solved.txt when the    *)
(* claim began is never handed out, by name or not, whatever the board     *)
(* said of it (tests/test_interactive.py, external-solved prevents a       *)
(* future claim).                                                          *)
NoClaimOfKnown ==
  [][\A a \in Agent : pc[a] = "choose" /\ pc'[a] = "payload"
                        => mem'[a].target \notin mem[a].known]_vars

(* The board forgets verdicts when a command writes an older copy back,    *)
(* but status, claims and syncs restore them: what they write shows every  *)
(* verdict that was in the ledgers when they began.                        *)
VerdictsResurface ==
  \A a \in Agent :
    pc[a] = "fill" /\ mem[a].cmd \in Claiming \cup {"status", "sync"} =>
      \A c \in mem[a].known \cap Present(mem[a].board) : StatusOf(mem[a].board[c]) = "solved"

(* No flag is posted twice unless two sessions were submitting it at once  *)
(* or the first one died or got no verdict before it could record one.     *)
NoRepeatedPost ==
  \A p \in Challenge \X Flag : posts[p] > 1 => p \in contended \cup unanswered

(* Submit policy blocks already solved challenges (docs/threat-model.md):  *)
(* nothing is posted for a challenge that was in solved.jsonl or           *)
(* external_solved.txt when the submit command began.                      *)
NoPostWhenSolved ==
  [][\A a \in Agent : pc[a] = "post" /\ posts' # posts /\ pc'[a] # "post"
                        => mem[a].target \notin mem[a].known]_vars
=============================================================================
