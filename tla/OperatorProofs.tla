--------------------------- MODULE OperatorProofs ---------------------------
(***************************************************************************)
(* Proofs about what an interactive operator works with: the solve-loop    *)
(* of a challenge and the commands beside it (SolveLoop), the settings the *)
(* commands carry from file to file (OperatorConfig), and the rows of the  *)
(* board from sync to sync (BoardSync), for every number of sessions,      *)
(* flags, attempts, commands, deaths, tasks, names and syncs.              *)
(***************************************************************************)
EXTENDS MCWorkQueue, WorkQueueProofs, FiniteSetTheorems, TLAPS

USE SolveLoopAssumption
-----------------------------------------------------------------------------
(* Where a command of SolveLoop is, and what it holds there.               *)

\* The commands that run a solve-loop.
LoopCommands == {"loop", "loop_named"}
\* The places of a command: before the first attempt, ...
Starting == {"target", "triage", "save triage", "starter", "save starter"}
\* ... while a flag is offered, ...
Offering == {"submit", "decide", "post", "record"}
\* ... and during an upload.
Uploading == {"upload", "save upload", "send", "uploaded"}
Points   == {"idle", "attempt", "judge", "solve", "credit", "writeup", "stall", "stalled"}
              \cup Starting \cup Offering \cup Uploading

\* The locals of a command.
Frames == [cmd : CommandNames \cup {"none"}, n : 0..MaxAttempts, queue : SUBSET Flag,
           flag : Flag \cup {NoFlag}, row : Rows,
           verdict : Answers \cup {"none", "missing_tool", "blocked"}, due : SUBSET Flag]

\* What a command may come back with.
Results == {"none", "empty", "not_found", "solved", "stalled", "stalled_unmarked", "planned",
            "error", "died"}

\* What a command at place l may hold.
Fits(l, m) ==
  /\ l = "idle" <=> m.cmd = "none"
  /\ m.queue \subseteq m.due
  /\ l \in Starting => m.cmd \in LoopCommands /\ m.due = {} /\ m.n = 0
  /\ l \in Starting \cup {"attempt", "stall"} => m.queue = {}
  /\ l = "attempt" => m.cmd \in LoopCommands /\ m.n < MaxAttempts
  /\ l = "judge" => m.cmd \in LoopCommands \cup {"verify", "verify_file"}
  /\ l \in {"submit", "decide", "post"} => m.flag # NoFlag /\ m.cmd \in LoopCommands \cup {"submit"}
  /\ l = "record" => m.verdict \in Answers /\ (m.flag = NoFlag <=> m.cmd = "upload")
  /\ l \in Uploading => m.cmd = "upload" /\ m.flag = NoFlag
  /\ l = "uploaded" => m.verdict \in Answers \cup {"blocked"}

\* The types of the files, the platform and the history.
Files == /\ row \in Rows /\ lock \in Agent \cup {Nobody}
         /\ solvedLog \in BOOLEAN /\ stalledLog \in BOOLEAN /\ writeup \in BOOLEAN
         /\ credited \in BOOLEAN /\ muddled \in BOOLEAN
         /\ cands \in [Flag -> Origins] /\ hot \subseteq {"flag", "upload"}
         /\ subs \subseteq Answered /\ IsFiniteSet(subs)
         /\ refused \in Nat /\ begun \in 0..MaxBegun /\ outcome \in [Agent -> Results]

\* With the place and locals of every session.
SolveBase == /\ Files /\ pc \in [Agent -> Points] /\ mem \in [Agent -> Frames]
             /\ \A a \in Agent : Fits(pc[a], mem[a])

\* An acceptance is the platform's, and every flag a loop found is still to be
\* verified, being submitted, or has the platform's word.
Sound(l, m, won, listed) ==
  /\ l \in {"solve", "credit"} \/ (l \in {"record", "uploaded"} /\ m.verdict = "accepted") => won
  /\ /\ m.cmd \in LoopCommands
     /\ l \in Starting \cup Offering \cup {"attempt", "judge"}
          \/ (l = "stall" /\ m.verdict # "missing_tool")
     => m.due \subseteq m.queue \cup listed \cup (IF l \in Offering THEN {m.flag} ELSE {})

\* The flags solve_state has a row of.
Offered == {e.flag : e \in subs}

\* What is written down, or about to be, is what the platform said.
Told == /\ solvedLog \/ writeup => credited
        /\ \A a \in Agent : Sound(pc[a], mem[a], credited, Offered)

\* The rejections of one flag are numbered, so that each is a row of its own.
Numbered == \A e \in Wrong(subs) : e.id < Cardinality({x \in Wrong(subs) : x.flag = e.flag})

Submits(a)    == pc[a] \in {"post", "record"} /\ mem[a].flag # NoFlag
\* A rejection that session a has not written down yet.
Unrecorded(a) == pc[a] = "record" /\ mem[a].flag # NoFlag /\ mem[a].verdict = "rejected"

\* One session at a time posts flags, with one refusal to spare; what was
\* refused is in the rows but for the answer that is being recorded.
Limited ==
  Policy.maxWrong >= 0 /\ ~muddled =>
    /\ \A a, b \in Agent : Submits(a) /\ Submits(b) => a = b
    /\ refused <= Policy.maxWrong
    /\ \A a \in Agent : pc[a] = "post" => refused < Policy.maxWrong
    /\ refused <= Cardinality(Wrong(subs)) + 1
    /\ (\A a \in Agent : ~Unrecorded(a)) => refused <= Cardinality(Wrong(subs))

\* The inductive invariant.
SolveInv == SolveBase /\ Told /\ Numbered /\ Limited
-----------------------------------------------------------------------------
(* The steps of a session.                                                 *)

\* One session moves.
Shift(a) ==
  /\ pc' \in [Agent -> Points] /\ mem' \in [Agent -> Frames]
  /\ Fits(pc'[a], mem'[a])
  /\ \A b \in Agent \ {a} : pc'[b] = pc[b] /\ mem'[b] = mem[b]

\* A session goes to place l with locals m.
Goes(a, l, m) == pc' = [pc EXCEPT ![a] = l] /\ mem' = [mem EXCEPT ![a] = m]

\* After GoTo the place is a place.
LEMMA GoesThere ==
  ASSUME SolveBase, NEW a \in Agent, NEW l \in Points, NEW m \in Frames, Fits(l, m),
         Goes(a, l, m), Files'
  PROVE  SolveBase' /\ Shift(a) /\ pc'[a] = l /\ mem'[a] = m
  BY DEF SolveBase, Shift, Goes

\* The place and locals of every session fit.
LEMMA Here ==
  ASSUME SolveBase, NEW a \in Agent
  PROVE  /\ mem[a] \in Frames /\ pc[a] \in Points /\ Fits(pc[a], mem[a])
         /\ mem[a].cmd \in CommandNames \cup {"none"} /\ mem[a].n \in 0..MaxAttempts
         /\ mem[a].queue \in SUBSET Flag /\ mem[a].due \in SUBSET Flag
         /\ mem[a].flag \in Flag \cup {NoFlag} /\ mem[a].row \in Rows
         /\ mem[a].verdict \in Answers \cup {"none", "missing_tool", "blocked"}
  <1>1. mem[a] \in Frames /\ pc[a] \in Points /\ Fits(pc[a], mem[a])
    BY DEF SolveBase
  <1> QED
    BY <1>1 DEF Frames

\* The command ends.
LEMMA BlankFits ==
  Blank \in Frames /\ Fits("idle", Blank) /\ Blank.cmd = "none" /\ Blank.flag = NoFlag
  BY DEF Blank, Frames, Fits, Rows, Starting, Offering, Uploading

\* A session that comes back fits.
LEMMA Returns ==
  ASSUME SolveBase, NEW a \in Agent, NEW result \in Results, Return(a, result)
  PROVE  Goes(a, "idle", Blank) /\ outcome' \in [Agent -> Results]
  BY DEF Return, Goto, Set, Goes, SolveBase, Files

\* A step that concerns neither what is solved nor what was submitted.
Quiet(a) ==
  /\ UNCHANGED <<solvedLog, writeup, credited, refused, subs, muddled>>
  /\ \E l \in Points, m \in Frames :
       /\ Fits(l, m) /\ Goes(a, l, m)
       /\ Sound(l, m, credited, Offered)
       /\ l # "post" /\ (l = "record" => m.flag = NoFlag)
  /\ pc[a] = "record" => mem[a].flag = NoFlag

\* A step that records nothing and rejects nothing keeps the invariant if the
\* session fits, and holds only what it was told, at the place it goes to.
LEMMA QuietKeeps ==
  ASSUME SolveInv, NEW a \in Agent, Quiet(a), Files'
  PROVE  SolveInv'
  <1>1. PICK l \in Points, m \in Frames :
          /\ Fits(l, m) /\ Goes(a, l, m) /\ Sound(l, m, credited, Offered)
          /\ l # "post" /\ (l = "record" => m.flag = NoFlag)
    BY DEF Quiet
  <1>2. SolveBase' /\ Shift(a) /\ pc'[a] = l /\ mem'[a] = m
    BY <1>1, GoesThere DEF SolveInv
  <1>3. UNCHANGED <<solvedLog, writeup, credited, refused, subs, muddled>>
        /\ (pc[a] = "record" => mem[a].flag = NoFlag)
    BY DEF Quiet
  <1>4. Told'
    <2>1. Offered' = Offered
      BY <1>3 DEF Offered
    <2>2. \A b \in Agent : Sound(pc'[b], mem'[b], credited, Offered)
      BY <1>1, <1>2 DEF SolveInv, Told, Shift
    <2> QED
      BY <1>3, <2>1, <2>2 DEF SolveInv, Told
  <1>5. Numbered'
    BY <1>3 DEF SolveInv, Numbered
  <1>6. Limited'
    <2>1. \A b \in Agent : Submits(b)' => b # a /\ Submits(b)
      BY <1>1, <1>2 DEF Submits, Shift
    <2>2. \A b \in Agent : Unrecorded(b) => Unrecorded(b)'
      BY <1>2, <1>3 DEF Unrecorded, Shift
    <2>3. \A b \in Agent : pc'[b] = "post" => pc[b] = "post"
      BY <1>1, <1>2 DEF Shift
    <2> HIDE DEF Shift
    <2> QED
      BY <1>3, <2>1, <2>2, <2>3 DEF SolveInv, Limited
  <1> QED
    BY <1>2, <1>4, <1>5, <1>6 DEF SolveInv

\* A session that goes on elsewhere, its locals as they were.
LEMMA SameFrame ==
  ASSUME SolveBase, NEW a \in Agent, NEW l, Goto(a, l), UNCHANGED mem
  PROVE  Goes(a, l, mem[a])
  BY DEF SolveBase, Goto, Goes

\* A command that ends is quiet, unless it was recording a flag's answer.
LEMMA EndsQuietly ==
  ASSUME SolveBase, NEW a \in Agent, NEW result \in Results, Return(a, result),
         UNCHANGED <<solvedLog, writeup, credited, refused, subs, muddled>>,
         pc[a] = "record" => mem[a].flag = NoFlag
  PROVE  Quiet(a) /\ outcome' \in [Agent -> Results]
  <1>1. Goes(a, "idle", Blank) /\ outcome' \in [Agent -> Results]
    BY Returns
  <1>2. Blank \in Frames /\ Fits("idle", Blank) /\ Sound("idle", Blank, credited, Offered)
    BY BlankFits DEF Sound, LoopCommands
  <1>3. "idle" \in Points
    BY DEF Points
  <1> QED
    BY <1>1, <1>2, <1>3 DEF Quiet

\* The steps that record nothing, one by one: a command begins, ...
LEMMA BeginQuiet ==
  ASSUME SolveBase, NEW a \in Agent, NEW cmd \in CommandNames, NEW f \in Flag \cup {NoFlag},
         Begin(a, cmd, f)
  PROVE  Quiet(a) /\ Files'
  <1> DEFINE m == [Blank EXCEPT !.cmd = cmd, !.flag = f]
  <1>1. m \in Frames /\ m.cmd = cmd /\ m.flag = f /\ m.queue = {} /\ m.due = {} /\ m.n = 0
        /\ m.verdict = "none"
    BY BlankFits DEF Frames, Blank
  <1>2. /\ pc[a] = "idle" /\ Goes(a, Entrance(cmd), m)
        /\ (cmd \in {"verify", "verify_file", "submit"}) = (f # NoFlag)
        /\ begun < MaxBegun /\ begun' = begun + 1 /\ outcome' = [outcome EXCEPT ![a] = "none"]
        /\ UNCHANGED <<files, credited, refused, muddled>>
    BY DEF Begin, Goto, Set, Goes
  <1>3. \/ cmd \in LoopCommands /\ Entrance(cmd) = "target"
        \/ cmd \in {"verify", "verify_file"} /\ Entrance(cmd) = "judge"
        \/ cmd \in {"submit", "upload", "writeup", "stall"} /\ Entrance(cmd) = cmd
    BY Zenon DEF Entrance, CommandNames, LoopCommands
  <1> HIDE DEF m
  <1>4. Entrance(cmd) \in Points /\ Fits(Entrance(cmd), m)
    BY <1>1, <1>2, <1>3 DEF Fits, Points, Starting, Offering, Uploading, LoopCommands
  <1>5. Sound(Entrance(cmd), m, credited, Offered)
    BY <1>1, <1>3 DEF Sound
  <1>6. Files'
    BY <1>2 DEF SolveBase, Files, files, Results
  <1>7. Entrance(cmd) \notin {"post", "record"}
    BY <1>3
  <1> QED
    BY <1>1, <1>2, <1>4, <1>5, <1>6, <1>7 DEF Quiet, files
\* ... the target is looked up, ...
LEMMA TargetQuiet ==
  ASSUME SolveBase, Told, NEW a \in Agent, Target(a)
  PROVE  Quiet(a) /\ Files'
  <1>1. /\ pc[a] = "target" /\ mem[a] \in Frames /\ Fits("target", mem[a])
        /\ Sound("target", mem[a], credited, Offered)
    BY Here DEF Target, Told
  <1>2. UNCHANGED <<solvedLog, stalledLog, cands, subs, hot, writeup, credited, refused, muddled, begun>>
    BY DEF Target
  <1>3. CASE Goto(a, "triage") /\ UNCHANGED <<mem, outcome>>
    <2>1. "triage" \in Points /\ Fits("triage", mem[a])
      BY <1>1 DEF Fits, Points, Starting, Offering, Uploading
    <2>2. Sound("triage", mem[a], credited, Offered)
      BY <1>1 DEF Sound, Starting, Offering
    <2>3. Goes(a, "triage", mem[a])
      BY <1>3, SameFrame
    <2>4. Quiet(a)
      BY <1>1, <1>2, <2>1, <2>2, <2>3 DEF Quiet
    <2>5. lock' \in Agent \cup {Nobody} /\ row' \in Rows
      BY DEF Target, NextChallenge, SolveBase, Files, Rows
    <2> QED
      BY <1>2, <1>3, <2>4, <2>5 DEF SolveBase, Files
  <1>4. CASE Return(a, "empty") /\ UNCHANGED <<lock, row>>
    <2>1. "empty" \in Results
      BY DEF Results
    <2>2. Quiet(a) /\ outcome' \in [Agent -> Results]
      BY <1>1, <1>2, <1>4, <2>1, EndsQuietly
    <2> QED
      BY <1>2, <1>4, <2>2 DEF SolveBase, Files
  <1> QED
    BY <1>3, <1>4 DEF Target, NextChallenge

\* ... the row is read, ...
LEMMA ReadTargetQuiet ==
  ASSUME SolveBase, Told, NEW a \in Agent, ReadTarget(a)
  PROVE  Quiet(a) /\ Files'
  <1>1. /\ pc[a] \in {"triage", "starter"} /\ mem[a] \in Frames /\ Fits(pc[a], mem[a])
        /\ Sound(pc[a], mem[a], credited, Offered)
    BY Here DEF ReadTarget, Told
  <1>2. UNCHANGED <<files, credited, refused, muddled, begun>>
    BY DEF ReadTarget
  <1>3. CASE Return(a, "not_found")
    <2>1. "not_found" \in Results
      BY DEF Results
    <2>2. Quiet(a) /\ outcome' \in [Agent -> Results]
      BY <1>1, <1>2, <1>3, <2>1, EndsQuietly DEF files
    <2> QED
      BY <1>2, <2>2 DEF SolveBase, Files, files
  <1>4. CASE /\ Goto(a, IF pc[a] = "triage" THEN "save triage" ELSE "save starter")
             /\ Set(a, [mem[a] EXCEPT !.row = Restamped])
             /\ UNCHANGED outcome
    <2> DEFINE l == IF pc[a] = "triage" THEN "save triage" ELSE "save starter"
               m == [mem[a] EXCEPT !.row = Restamped]
    <2>1. Restamped \in Rows
      BY DEF Restamped, SolveBase, Files, Rows
    <2>2. m \in Frames /\ m.cmd = mem[a].cmd /\ m.queue = mem[a].queue /\ m.due = mem[a].due
          /\ m.n = mem[a].n /\ m.flag = mem[a].flag
      BY <1>1, <2>1 DEF Frames
    <2>3. Goes(a, l, m) /\ UNCHANGED outcome /\ l \in {"save triage", "save starter"}
      BY <1>4 DEF Goto, Set, Goes
    <2> HIDE DEF l, m
    <2>4. l \in Points /\ Fits(l, m)
      BY <1>1, <2>2, <2>3 DEF Fits, Points, Starting, Offering, Uploading, LoopCommands
    <2>5. Sound(l, m, credited, Offered)
      BY <1>1, <2>2, <2>3 DEF Sound, Fits, Starting
    <2>6. Quiet(a)
      BY <1>1, <1>2, <2>2, <2>3, <2>4, <2>5 DEF Quiet, files
    <2> QED
      BY <1>2, <2>3, <2>6 DEF SolveBase, Files, files
  <1> QED
    BY <1>3, <1>4 DEF ReadTarget

\* ... written back under the lock, ...
LEMMA SaveTargetQuiet ==
  ASSUME SolveBase, Told, NEW a \in Agent, SaveTarget(a)
  PROVE  Quiet(a) /\ Files'
  <1>1. /\ pc[a] \in {"save triage", "save starter"} /\ mem[a] \in Frames /\ Fits(pc[a], mem[a])
        /\ mem[a].row \in Rows
    BY Here DEF SaveTarget
  <1> DEFINE l == IF pc[a] = "save triage" THEN "starter" ELSE "attempt"
             m == [mem[a] EXCEPT !.row = "absent"]
  <1>2. m \in Frames /\ m.cmd = mem[a].cmd /\ m.queue = mem[a].queue /\ m.due = mem[a].due
        /\ m.n = mem[a].n /\ m.flag = mem[a].flag
    BY <1>1 DEF Frames, Rows
  <1>3. Goes(a, l, m) /\ l \in {"starter", "attempt"} /\ row' = mem[a].row
        /\ UNCHANGED <<lock, solvedLog, stalledLog, cands, subs, hot, writeup, credited, refused,
                       ghosts, begun>>
    BY DEF SaveTarget, Goto, Set, Goes
  <1> HIDE DEF l, m
  <1>4. m.cmd \in LoopCommands /\ m.due = {} /\ m.queue = {} /\ m.n = 0
    BY <1>1, <1>2 DEF Fits, Starting
  <1>5. l \in Points /\ Fits(l, m)
    BY <1>3, <1>4, 0 < MaxAttempts DEF Fits, Points, Starting, Offering, Uploading, LoopCommands
  <1>6. Sound(l, m, credited, Offered)
    BY <1>3, <1>4 DEF Sound
  <1>7. Quiet(a)
    BY <1>1, <1>2, <1>3, <1>5, <1>6 DEF Quiet, ghosts
  <1> QED
    BY <1>1, <1>3, <1>7 DEF SolveBase, Files, ghosts

\* The flags an attempt shows are taken up to be verified.
LEMMA AttemptQuiet ==
  ASSUME SolveBase, Told, NEW a \in Agent, NEW F \in SUBSET Flag, Attempt(a, F)
  PROVE  Quiet(a) /\ Files'
  <1>1. /\ pc[a] = "attempt" /\ mem[a] \in Frames /\ Fits("attempt", mem[a])
        /\ Sound("attempt", mem[a], credited, Offered) /\ mem[a].due \in SUBSET Flag
        /\ mem[a].n \in 0..MaxAttempts
    BY Here DEF Attempt, Told
  <1>2. cands' \in {cands, Stored(F)}
        /\ UNCHANGED <<row, lock, solvedLog, stalledLog, subs, hot, writeup, credited, refused, ghosts, begun>>
    BY DEF Attempt
  <1>3. /\ mem[a].n + 1 \in 0..MaxAttempts /\ mem[a].cmd \in LoopCommands /\ mem[a].queue = {}
        /\ mem[a].due \subseteq Offered
    BY <1>1 DEF Fits, Sound, Offering
  <1>4. Files'
    <2>1. Stored(F) \in [Flag -> Origins]
      BY DEF Stored, SolveBase, Files, Origins
    <2> QED
      BY <1>2, <2>1 DEF SolveBase, Files, ghosts
  <1>5. CASE /\ Goto(a, "judge")
             /\ Set(a, [mem[a] EXCEPT !.n = @ + 1, !.queue = F, !.due = @ \cup F])
    <2> DEFINE m == [mem[a] EXCEPT !.n = @ + 1, !.queue = F, !.due = @ \cup F]
    <2>1. m \in Frames /\ m.cmd = mem[a].cmd /\ m.queue = F /\ m.due = mem[a].due \cup F
      BY <1>1, <1>3 DEF Frames
    <2>2. Goes(a, "judge", m)
      BY <1>5 DEF Goto, Set, Goes
    <2> HIDE DEF m
    <2>3. "judge" \in Points /\ Fits("judge", m)
      BY <1>3, <2>1 DEF Fits, Points, Starting, Offering, Uploading, LoopCommands
    <2>4. Sound("judge", m, credited, Offered)
      BY <1>3, <2>1 DEF Sound
    <2> QED
      BY <1>1, <1>2, <1>4, <2>1, <2>2, <2>3, <2>4 DEF Quiet, ghosts
  <1>6. CASE /\ Goto(a, "stall")
             /\ Set(a, [mem[a] EXCEPT !.n = @ + 1, !.verdict = "missing_tool"])
    <2> DEFINE m == [mem[a] EXCEPT !.n = @ + 1, !.verdict = "missing_tool"]
    <2>1. m \in Frames /\ m.cmd = mem[a].cmd /\ m.queue = {} /\ m.verdict = "missing_tool"
          /\ m.due = mem[a].due
      BY <1>1, <1>3 DEF Frames
    <2>2. Goes(a, "stall", m)
      BY <1>6 DEF Goto, Set, Goes
    <2> HIDE DEF m
    <2>3. "stall" \in Points /\ Fits("stall", m)
      BY <1>3, <2>1 DEF Fits, Points, Starting, Offering, Uploading, LoopCommands
    <2>4. Sound("stall", m, credited, Offered)
      BY <2>1 DEF Sound, Starting, Offering
    <2> QED
      BY <1>1, <1>2, <1>4, <2>1, <2>2, <2>3, <2>4 DEF Quiet, ghosts
  <1> QED
    BY <1>5, <1>6 DEF Attempt

\* A flag that is verified is refused, or the one to submit.
LEMMA JudgeQuiet ==
  ASSUME SolveBase, Told, NEW a \in Agent, NEW f \in Flag, Judge(a, f)
  PROVE  Quiet(a) /\ Files'
  <1>1. /\ pc[a] = "judge" /\ mem[a] \in Frames /\ Fits("judge", mem[a])
        /\ Sound("judge", mem[a], credited, Offered) /\ mem[a].due \in SUBSET Flag
        /\ mem[a].queue \in SUBSET Flag
    BY Here DEF Judge, Told
  <1> DEFINE Ready(o, s) == ClassOf(f, o) = "high" /\ Allowed(f, "high", s)
             Takes(o, s) ==
               /\ cands' = IF s = "absent" THEN cands ELSE [cands EXCEPT ![f] = o]
               /\ IF Looping(a)
                  THEN /\ Set(a, [mem[a] EXCEPT
                            !.queue = Remaining(a, f),
                            !.flag = IF Ready(o, s) THEN f ELSE NoFlag,
                            !.due = IF Ready(o, s) THEN @ ELSE @ \ {f}])
                       /\ Goto(a, IF Ready(o, s) THEN "submit" ELSE "judge")
                       /\ UNCHANGED outcome
                  ELSE Return(a, "none")
  <1>2. PICK view \in Seen : \E origin \in OriginsBy(a, f, view) : Takes(origin, view)
    BY Zenon DEF Judge
  <1>3. PICK origin \in OriginsBy(a, f, view) : Takes(origin, view)
    BY <1>2, Zenon
  <1> HIDE DEF Ready
  <1>4. /\ f \in (IF Looping(a) THEN mem[a].queue ELSE {mem[a].flag})
        /\ UNCHANGED <<row, lock, solvedLog, stalledLog, subs, hot, writeup, credited, refused, muddled,
                       begun>>
    BY DEF Judge
  <1>5. cands' \in [Flag -> Origins]
    <2>1. origin \in Origins
      BY DEF OriginsBy, Origin, SolveBase, Files, Origins
    <2> QED
      BY <1>3, <2>1 DEF SolveBase, Files
  <1>6. CASE Looping(a)
    <2> DEFINE ready == Ready(origin, view)
               l == IF ready THEN "submit" ELSE "judge"
               m == [mem[a] EXCEPT !.queue = Remaining(a, f), !.flag = IF ready THEN f ELSE NoFlag,
                                   !.due = IF ready THEN @ ELSE @ \ {f}]
    <2>1. Goes(a, l, m) /\ UNCHANGED outcome /\ f \in mem[a].queue
      BY <1>4, <1>6, <1>3 DEF Goto, Set, Goes
    <2>2. Remaining(a, f) = mem[a].queue \ {f}
      BY DEF Remaining
    <2> HIDE DEF ready
    <2>3. m \in Frames /\ m.cmd = mem[a].cmd /\ m.queue = mem[a].queue \ {f} /\ m.n = mem[a].n
          /\ m.flag = (IF ready THEN f ELSE NoFlag)
          /\ m.due = (IF ready THEN mem[a].due ELSE mem[a].due \ {f})
      BY <1>1, <2>2 DEF Frames
    <2> HIDE DEF m
    <2>4. mem[a].cmd \in LoopCommands /\ mem[a].queue \subseteq mem[a].due
          /\ mem[a].due \subseteq mem[a].queue \cup Offered
      BY <1>1, <1>6 DEF Looping, LoopCommands, Fits, Sound, Offering
    <2>5. l \in Points /\ Fits(l, m)
      BY <2>3, <2>4 DEF Fits, Points, Starting, Offering, Uploading, LoopCommands
    <2>6. Sound(l, m, credited, Offered)
      BY <2>3, <2>4 DEF Sound, Offering
    <2>7. Quiet(a)
      BY <1>1, <1>4, <2>1, <2>3, <2>5, <2>6 DEF Quiet
    <2> QED
      BY <1>4, <1>5, <2>1, <2>7 DEF SolveBase, Files
  <1>7. CASE ~Looping(a)
    <2>1. Return(a, "none") /\ "none" \in Results
      BY <1>7, <1>3 DEF Results
    <2>2. Quiet(a) /\ outcome' \in [Agent -> Results]
      BY <1>1, <1>4, <2>1, EndsQuietly
    <2> QED
      BY <1>4, <1>5, <2>2 DEF SolveBase, Files
  <1> QED
    BY <1>6, <1>7

\* Only a loop whose candidates are all verified gives up.
LEMMA NextAttemptQuiet ==
  ASSUME SolveBase, Told, NEW a \in Agent, NextAttempt(a)
  PROVE  Quiet(a) /\ Files'
  <1>1. /\ pc[a] = "judge" /\ mem[a] \in Frames /\ Fits("judge", mem[a])
        /\ Sound("judge", mem[a], credited, Offered) /\ mem[a].n \in 0..MaxAttempts
        /\ Looping(a) /\ mem[a].queue = {}
    BY Here DEF NextAttempt, Told
  <1> DEFINE l == IF mem[a].n < MaxAttempts THEN "attempt" ELSE "stall"
  <1>2. UNCHANGED <<files, credited, refused, mem, ghosts, begun>> /\ Goes(a, l, mem[a])
    BY SameFrame DEF NextAttempt
  <1>3. l \in Points /\ Fits(l, mem[a])
    BY <1>1 DEF Fits, Points, Starting, Offering, Uploading, LoopCommands, Looping
  <1>4. Sound(l, mem[a], credited, Offered)
    BY <1>1 DEF Sound, Offering, Looping, LoopCommands
  <1>5. Quiet(a)
    BY <1>1, <1>2, <1>3, <1>4 DEF Quiet, files, ghosts
  <1> QED
    BY <1>2, <1>5 DEF SolveBase, Files, files, ghosts
\* ... a submission reads the row again, ...
LEMMA ReadRowQuiet ==
  ASSUME SolveBase, Told, NEW a \in Agent, ReadRow(a)
  PROVE  Quiet(a) /\ Files'
  <1>1. /\ pc[a] = "submit" /\ mem[a] \in Frames /\ Fits("submit", mem[a])
        /\ Sound("submit", mem[a], credited, Offered)
    BY Here DEF ReadRow, Told
  <1>0. PICK view \in Seen : Set(a, [mem[a] EXCEPT !.row = view])
    BY DEF ReadRow
  <1> DEFINE m == [mem[a] EXCEPT !.row = view]
  <1>2. m \in Frames /\ m.cmd = mem[a].cmd /\ m.queue = mem[a].queue /\ m.due = mem[a].due
        /\ m.n = mem[a].n /\ m.flag = mem[a].flag
    BY <1>1 DEF Frames, SolveBase, Files, Seen, Rows
  <1>3. Goes(a, "decide", m) /\ UNCHANGED <<files, credited, refused, ghosts, begun>>
    BY <1>0 DEF ReadRow, Goto, Set, Goes
  <1> HIDE DEF m
  <1>4. "decide" \in Points /\ Fits("decide", m)
    BY <1>1, <1>2 DEF Fits, Points, Starting, Offering, Uploading, LoopCommands
  <1>5. Sound("decide", m, credited, Offered)
    BY <1>1, <1>2 DEF Sound, Offering
  <1>6. Quiet(a)
    BY <1>1, <1>2, <1>3, <1>4, <1>5 DEF Quiet, files, ghosts
  <1> QED
    BY <1>3, <1>6 DEF SolveBase, Files, files, ghosts

\* A submission that the policy holds up.
LEMMA PlannedQuiet ==
  ASSUME SolveBase, Told, NEW a \in Agent, Decide(a), Return(a, "planned"), UNCHANGED muddled
  PROVE  Quiet(a) /\ Files'
  <1>1. UNCHANGED <<files, credited, refused, begun>> /\ pc[a] = "decide" /\ "planned" \in Results
    BY DEF Decide, Results
  <1>2. Quiet(a) /\ outcome' \in [Agent -> Results]
    BY <1>1, EndsQuietly DEF files
  <1> QED
    BY <1>1, <1>2 DEF SolveBase, Files, files

\* ... and one that the adapter does not send, ...
LEMMA HeldBackQuiet ==
  ASSUME SolveBase, Told, NEW a \in Agent, HeldBack(a)
  PROVE  Quiet(a) /\ Files'
  <1>1. /\ pc[a] = "post" /\ Return(a, "planned") /\ "planned" \in Results
        /\ UNCHANGED <<files, credited, refused, muddled, begun>>
    BY DEF HeldBack, Results
  <1>2. Quiet(a) /\ outcome' \in [Agent -> Results]
    BY <1>1, EndsQuietly DEF files
  <1> QED
    BY <1>1, <1>2 DEF SolveBase, Files, files

\* ... the row of a solved challenge is written and the claim given up, ...
LEMMA CreditQuiet ==
  ASSUME SolveBase, Told, NEW a \in Agent, CreditRow(a)
  PROVE  Quiet(a) /\ Files'
  <1>1. pc[a] = "credit" /\ mem[a] \in Frames /\ Fits("credit", mem[a]) /\ mem[a].row \in Rows
    BY Here DEF CreditRow
  <1>2. lock' = Nobody /\ row' = Rewritten(mem[a].row, "solved")
        /\ UNCHANGED <<solvedLog, stalledLog, cands, subs, hot, writeup, credited, refused, muddled, begun>>
    BY DEF CreditRow
  <1>3. row' \in Rows
    BY <1>1, <1>2 DEF Rewritten, Rows
  <1>4. CASE Goto(a, "writeup") /\ UNCHANGED <<mem, outcome>>
    <2>1. Goes(a, "writeup", mem[a])
      BY <1>4, SameFrame
    <2>2. "writeup" \in Points /\ Fits("writeup", mem[a]) /\ Sound("writeup", mem[a], credited, Offered)
      BY <1>1 DEF Fits, Sound, Points, Starting, Offering, Uploading
    <2>3. Quiet(a)
      BY <1>1, <1>2, <2>1, <2>2 DEF Quiet
    <2> QED
      BY <1>2, <1>3, <1>4, <2>3 DEF SolveBase, Files
  <1>5. CASE Return(a, "none")
    <2>1. Quiet(a) /\ outcome' \in [Agent -> Results]
      BY <1>1, <1>2, <1>5, EndsQuietly DEF Results
    <2> QED
      BY <1>2, <1>3, <2>1 DEF SolveBase, Files
  <1> QED
    BY <1>4, <1>5 DEF CreditRow

\* ... an upload reads the row, ...
LEMMA ReadUploadQuiet ==
  ASSUME SolveBase, Told, NEW a \in Agent, ReadUpload(a)
  PROVE  Quiet(a) /\ Files'
  <1>1. pc[a] = "upload" /\ mem[a] \in Frames /\ Fits("upload", mem[a])
    BY Here DEF ReadUpload
  <1>2. UNCHANGED <<files, credited, refused, muddled, begun>>
    BY DEF ReadUpload
  <1>3. CASE Uploads
    <2>0. PICK view \in Seen : Set(a, [mem[a] EXCEPT !.row = view])
      BY <1>3 DEF ReadUpload
    <2> DEFINE m == [mem[a] EXCEPT !.row = view]
    <2>1. m \in Frames /\ m.cmd = mem[a].cmd /\ m.queue = mem[a].queue /\ m.due = mem[a].due
          /\ m.n = mem[a].n /\ m.flag = mem[a].flag
      BY <1>1 DEF Frames, SolveBase, Files, Seen, Rows
    <2>2. Goes(a, "save upload", m) /\ UNCHANGED outcome
      BY <1>3, <2>0 DEF ReadUpload, Goto, Set, Goes
    <2> HIDE DEF m
    <2>3. "save upload" \in Points /\ Fits("save upload", m) /\ Sound("save upload", m, credited, Offered)
      BY <1>1, <2>1 DEF Fits, Sound, Points, Starting, Offering, Uploading, LoopCommands
    <2>4. Quiet(a)
      BY <1>1, <1>2, <2>1, <2>2, <2>3 DEF Quiet, files
    <2> QED
      BY <1>2, <2>2, <2>4 DEF SolveBase, Files, files
  <1>4. CASE ~Uploads
    <2>1. Return(a, "none") /\ "none" \in Results
      BY <1>4 DEF ReadUpload, Results
    <2>2. Quiet(a) /\ outcome' \in [Agent -> Results]
      BY <1>1, <1>2, <2>1, EndsQuietly DEF files
    <2> QED
      BY <1>2, <2>2 DEF SolveBase, Files, files
  <1> QED
    BY <1>3, <1>4

\* ... writes it, ...
LEMMA SaveUploadQuiet ==
  ASSUME SolveBase, Told, NEW a \in Agent, SaveUpload(a)
  PROVE  Quiet(a) /\ Files'
  <1>1. pc[a] = "save upload" /\ mem[a] \in Frames /\ Fits("save upload", mem[a])
        /\ mem[a].row \in Rows
    BY Here DEF SaveUpload
  <1>2. Goes(a, "send", mem[a]) /\ row' \in {row, mem[a].row}
        /\ UNCHANGED <<lock, solvedLog, stalledLog, cands, subs, hot, writeup, credited, refused, mem,
                       ghosts, begun>>
    BY SameFrame DEF SaveUpload
  <1>3. "send" \in Points /\ Fits("send", mem[a]) /\ Sound("send", mem[a], credited, Offered)
    BY <1>1 DEF Fits, Sound, Points, Starting, Offering, Uploading, LoopCommands
  <1>4. Quiet(a)
    BY <1>1, <1>2, <1>3 DEF Quiet, ghosts
  <1> QED
    BY <1>1, <1>2, <1>4 DEF SolveBase, Files, ghosts

\* ... and learns its answer, ...
LEMMA UploadedQuiet ==
  ASSUME SolveBase, Told, NEW a \in Agent, Uploaded(a)
  PROVE  Quiet(a) /\ Files'
  <1>1. pc[a] = "uploaded" /\ mem[a] \in Frames /\ Fits("uploaded", mem[a])
        /\ Sound("uploaded", mem[a], credited, Offered)
    BY Here DEF Uploaded, Told
  <1>2. UNCHANGED <<files, credited, refused, muddled, begun>>
    BY DEF Uploaded
  <1>3. CASE mem[a].verdict = "blocked"
    <2>1. Return(a, "none") /\ "none" \in Results
      BY <1>3 DEF Uploaded, Results
    <2>2. Quiet(a) /\ outcome' \in [Agent -> Results]
      BY <1>1, <1>2, <2>1, EndsQuietly DEF files
    <2> QED
      BY <1>2, <2>2 DEF SolveBase, Files, files
  <1>4. CASE mem[a].verdict # "blocked"
    <2>1. Goes(a, "record", mem[a]) /\ UNCHANGED <<mem, outcome>>
      BY <1>4, SameFrame DEF Uploaded
    <2>2. "record" \in Points /\ Fits("record", mem[a]) /\ mem[a].flag = NoFlag
      BY <1>1, <1>4 DEF Fits, Points, Starting, Offering, Uploading
    <2>3. Sound("record", mem[a], credited, Offered)
      BY <1>1 DEF Sound, Fits, Uploading, LoopCommands
    <2>4. Quiet(a)
      BY <1>1, <1>2, <2>1, <2>2, <2>3 DEF Quiet, files
    <2> QED
      BY <1>2, <2>1, <2>4 DEF SolveBase, Files, files
  <1> QED
    BY <1>3, <1>4

\* ... and the loop gives up.
LEMMA StallQuiet ==
  ASSUME SolveBase, Told, NEW a \in Agent, Stall(a) \/ StallRow(a)
  PROVE  Quiet(a) /\ Files'
  <1>1. pc[a] \in {"stall", "stalled"} /\ mem[a] \in Frames /\ Fits(pc[a], mem[a])
    BY Here DEF Stall, StallRow
  <1>2. /\ UNCHANGED <<solvedLog, cands, subs, hot, writeup, credited, refused, muddled, begun>>
        /\ lock' \in Agent \cup {Nobody} /\ row' \in Rows /\ stalledLog' \in BOOLEAN
    BY DEF Stall, StallRow, Released, SolveBase, Files, Rows
  <1>3. CASE Return(a, "stalled") \/ Return(a, "stalled_unmarked")
    <2>1. Quiet(a) /\ outcome' \in [Agent -> Results]
      BY <1>1, <1>2, <1>3, EndsQuietly DEF Results
    <2> QED
      BY <1>2, <2>1 DEF SolveBase, Files
  <1>4. CASE pc[a] = "stall" /\ Goto(a, "stalled") /\ UNCHANGED <<mem, outcome>>
    <2>1. Goes(a, "stalled", mem[a])
      BY <1>4, SameFrame
    <2>2. "stalled" \in Points /\ Fits("stalled", mem[a]) /\ Sound("stalled", mem[a], credited, Offered)
      BY <1>1, <1>4 DEF Fits, Sound, Points, Starting, Offering, Uploading
    <2>3. Quiet(a)
      BY <1>1, <1>2, <1>4, <2>1, <2>2 DEF Quiet
    <2> QED
      BY <1>2, <1>4, <2>3 DEF SolveBase, Files
  <1> QED
    BY <1>3, <1>4 DEF Stall, StallRow
-----------------------------------------------------------------------------
(* The steps that submit, and those that tell of a solve.                  *)

\* Of a challenge it does not count the platform says neither accepted nor active.
LEMMA UploadsEarned ==
  ASSUME NEW counts \in BOOLEAN, NEW v \in UploadVerdicts(counts)
  PROVE  v \in Answers \cup {"blocked"} /\ (v = "accepted" => counts)
  <1>1. PICK up \in Replies(counts), page \in Replies(counts) \cup {NoPage} :
          v = Judged(Merged(up, page))
    BY DEF UploadVerdicts
  <1>2. v \in Answers \cup {"blocked"}
    BY <1>1 DEF Judged, Answers
  <1>3. ASSUME v = "accepted" PROVE counts
    <2>1. Merged(up, page).active = "active"
      BY <1>1, <1>3 DEF Judged
    <2>2. \/ Merged(up, page) = [response |-> "accepted", active |-> "active"]
             /\ (page.response = "accepted" \/ page.active = "active")
          \/ Merged(up, page) = page
          \/ Merged(up, page) = up
      BY DEF Merged
    <2>3. page.response = "accepted" => page.active = "active"
      BY DEF Replies, NoPage
    <2>4. up.active = "active" \/ page.active = "active"
      BY <2>1, <2>2, <2>3
    <2> QED
      BY <2>4 DEF Replies, NoPage
  <1> QED
    BY <1>2, <1>3

\* A row is new: the rejections of a flag are numbered.
LEMMA RowCounts ==
  ASSUME SolveBase, Numbered, NEW f \in Flag \cup {NoFlag}, NEW r \in Answers,
         subs' = subs \cup {Verdict(f, r)}
  PROVE  /\ subs' \subseteq Answered /\ IsFiniteSet(subs') /\ Numbered'
         /\ Offered' = Offered \cup {f}
         /\ Cardinality(Wrong(subs)) \in Nat
         /\ r = "rejected" => Cardinality(Wrong(subs')) = Cardinality(Wrong(subs)) + 1
         /\ r # "rejected" => Wrong(subs') = Wrong(subs)
  <1> DEFINE Same(S, g) == {x \in Wrong(S) : x.flag = g}
             e == Verdict(f, r)
  <1>1. subs \subseteq Answered /\ IsFiniteSet(subs)
    BY DEF SolveBase, Files
  <1>2. IsFiniteSet(Wrong(subs)) /\ Cardinality(Wrong(subs)) \in Nat
    BY <1>1, FS_Subset, FS_CardinalityType DEF Wrong
  <1>3. \A g : IsFiniteSet(Same(subs, g)) /\ Cardinality(Same(subs, g)) \in Nat
    BY <1>2, FS_Subset, FS_CardinalityType
  <1>4. {x \in subs : x.flag = f /\ x.status = "rejected"} = Same(subs, f)
    BY DEF Wrong
  <1>5. e.flag = f /\ e.status = r /\ e \in Answered
        /\ (r = "rejected" => e.id = Cardinality(Same(subs, f)))
    <2> DEFINE k == IF r = "rejected" THEN Cardinality({x \in subs : x.flag = f /\ x.status = r}) ELSE 0
    <2>1. k \in Nat /\ (r = "rejected" => k = Cardinality(Same(subs, f)))
      BY <1>3, <1>4
    <2>2. e = [flag |-> f, status |-> r, id |-> k]
      BY DEF Verdict
    <2> HIDE DEF k, e
    <2> QED
      BY <2>1, <2>2 DEF Answered
  <1> HIDE DEF e
  <1>6. subs' = subs \cup {e}
    BY DEF e
  <1>7. subs' \subseteq Answered /\ IsFiniteSet(subs') /\ Offered' = Offered \cup {f}
    BY <1>1, <1>5, <1>6, FS_AddElement DEF Offered
  <1>8. CASE r # "rejected"
    <2>1. Wrong(subs') = Wrong(subs)
      BY <1>5, <1>6, <1>8 DEF Wrong
    <2> QED
      BY <1>2, <1>7, <1>8, <2>1 DEF Numbered
  <1>9. CASE r = "rejected"
    <2>1. Wrong(subs') = Wrong(subs) \cup {e}
      BY <1>5, <1>6, <1>9 DEF Wrong
    <2>2. e \notin Wrong(subs)
      <3>1. SUFFICES ASSUME e \in Wrong(subs) PROVE FALSE
        OBVIOUS
      <3>2. e.id < Cardinality(Same(subs, f)) /\ e.id = Cardinality(Same(subs, f))
        BY <1>5, <1>9, <3>1 DEF Numbered
      <3>3. Cardinality(Same(subs, f)) \in Nat
        BY <1>3
      <3> HIDE DEF Same
      <3> QED
        BY <3>2, <3>3
    <2>3. Cardinality(Wrong(subs')) = Cardinality(Wrong(subs)) + 1
      BY <1>2, <2>1, <2>2, FS_AddElement
    <2>4. ASSUME NEW x \in Wrong(subs') PROVE x.id < Cardinality(Same(subs', x.flag))
      <3>1. CASE x.flag = f
        <4>1. Same(subs', f) = Same(subs, f) \cup {e}
          BY <1>5, <2>1
        <4>2. e \notin Same(subs, f)
          BY <2>2
        <4>3. Cardinality(Same(subs', f)) = Cardinality(Same(subs, f)) + 1
          <5>1. IsFiniteSet(Same(subs, f))
            BY <1>3
          <5> HIDE DEF Same
          <5> QED
            BY <4>1, <4>2, <5>1, FS_AddElement
        <4>4. x = e \/ x.id < Cardinality(Same(subs, f))
          BY <2>1, <2>4, <3>1 DEF Numbered
        <4>5. x.id \in Nat
          BY <1>7, <2>4 DEF Wrong, Answered
        <4>6. Cardinality(Same(subs, f)) \in Nat /\ e.id = Cardinality(Same(subs, f))
          BY <1>3, <1>5, <1>9
        <4> HIDE DEF Same
        <4>7. x.id < Cardinality(Same(subs', f))
          BY <4>3, <4>4, <4>5, <4>6
        <4> QED
          BY <3>1, <4>7 DEF Same
      <3>2. CASE x.flag # f
        <4>1. Same(subs', x.flag) = Same(subs, x.flag) /\ x \in Wrong(subs)
          BY <1>5, <2>1, <2>4, <3>2
        <4> QED
          BY <4>1 DEF Numbered
      <3> QED
        BY <3>1, <3>2
    <2>5. Numbered'
      BY <2>4 DEF Numbered
    <2> QED
      BY <1>2, <1>7, <1>9, <2>3, <2>5
  <1> QED
    BY <1>8, <1>9
\* Others keep what they have while credit and rows only grow.
LEMMA ToldOn ==
  ASSUME SolveInv, NEW a \in Agent, Shift(a), credited => credited', Offered \subseteq Offered',
         Sound(pc'[a], mem'[a], credited', Offered'), solvedLog' \/ writeup' => credited'
  PROVE  Told'
  <1>1. \A b \in Agent \ {a} : Sound(pc'[b], mem'[b], credited', Offered')
    <2> SUFFICES ASSUME NEW b \in Agent \ {a} PROVE Sound(pc[b], mem[b], credited', Offered')
      BY DEF Shift
    <2>1. Sound(pc[b], mem[b], credited, Offered)
      BY DEF SolveInv, Told
    <2> QED
      BY <2>1 DEF Sound
  <1> QED
    BY <1>1 DEF Told

\* The policy allows the post, and if nobody else submits no refusal is unrecorded.
LEMMA PostIsAllowed ==
  ASSUME SolveInv, NEW a \in Agent, Decide(a), Goto(a, "post"), UNCHANGED <<mem, outcome>>,
         muddled' = (muddled \/ \E b \in Agent : pc[b] \in {"post", "record"}),
         Allowed(mem[a].flag, ClassOf(mem[a].flag, "attempt"), mem[a].row)
  PROVE  SolveInv'
  <1>1. /\ pc[a] = "decide" /\ mem[a] \in Frames /\ Fits("decide", mem[a])
        /\ Sound("decide", mem[a], credited, Offered)
    BY Here DEF Decide, SolveInv, Told
  <1>2. Goes(a, "post", mem[a]) /\ UNCHANGED <<files, credited, refused, begun>>
    BY SameFrame DEF SolveInv, Decide
  <1>3. "post" \in Points /\ Fits("post", mem[a]) /\ Sound("post", mem[a], credited, Offered)
    BY <1>1 DEF Fits, Sound, Points, Starting, Offering, Uploading
  <1>4. Files'
    BY <1>2 DEF SolveInv, SolveBase, Files, files
  <1>5. SolveBase' /\ Shift(a) /\ pc'[a] = "post" /\ mem'[a] = mem[a]
    BY <1>1, <1>2, <1>3, <1>4, GoesThere DEF SolveInv
  <1>6. Offered' = Offered /\ Wrong(subs') = Wrong(subs) /\ subs' = subs
    BY <1>2 DEF Offered, files
  <1>7. Told'
    BY <1>2, <1>3, <1>5, <1>6, ToldOn DEF SolveInv, Told, files
  <1>8. Numbered'
    BY <1>6 DEF SolveInv, Numbered
  <1>9. Limited'
    <2>1. SUFFICES ASSUME Policy.maxWrong >= 0, ~muddled' PROVE Limited'
      BY DEF Limited
    <2>2. ~muddled /\ \A b \in Agent : pc[b] \notin {"post", "record"}
      BY <2>1
    <2>3. \A b \in Agent : ~Unrecorded(b)
      BY <2>2 DEF Unrecorded
    <2>4. refused <= Cardinality(Wrong(subs)) /\ refused <= Policy.maxWrong
      BY <2>1, <2>2, <2>3 DEF SolveInv, Limited
    <2>5. ~(Cardinality(Wrong(subs)) >= Policy.maxWrong)
      BY <2>1 DEF Allowed, ShouldSubmit, WrongLimitReached
    <2>6. Cardinality(Wrong(subs)) \in Nat /\ refused \in Nat /\ Policy.maxWrong \in Int
      <3>1. IsFiniteSet(subs) /\ refused \in Nat
        BY DEF SolveInv, SolveBase, Files
      <3>2. Wrong(subs) \subseteq subs
        BY DEF Wrong
      <3>3. Policy.maxWrong \in Int
        BY DEF PolicyType
      <3> QED
        BY <3>1, <3>2, <3>3, FS_Subset, FS_CardinalityType
    <2>7. refused < Policy.maxWrong
      BY <2>4, <2>5, <2>6
    <2>8. \A b \in Agent : Submits(b)' => b = a
      BY <1>5, <2>2 DEF Submits, Shift
    <2>9. \A b \in Agent : pc'[b] = "post" => b = a
      BY <1>5, <2>2 DEF Shift
    <2>10. refused' = refused
      BY <1>2
    <2>11. refused' <= Cardinality(Wrong(subs')) + 1
      BY <1>6, <2>4, <2>6, <2>10
    <2> QED
      BY <1>6, <2>4, <2>7, <2>8, <2>9, <2>10, <2>11 DEF Limited
  <1> QED
    BY <1>5, <1>7, <1>8, <1>9 DEF SolveInv

\* The platform's answer to a flag.
LEMMA PostKeeps ==
  ASSUME SolveInv, NEW a \in Agent, Post(a)
  PROVE  SolveInv'
  <1>1. /\ pc[a] = "post" /\ mem[a] \in Frames /\ Fits("post", mem[a])
        /\ Sound("post", mem[a], credited, Offered)
    BY Here DEF Post, SolveInv, Told
  <1>2. PICK r \in Says(mem[a].flag) : Counted(a, r) /\ Set(a, [mem[a] EXCEPT !.verdict = r])
    BY DEF Post
  <1>3. r \in Answers
    BY DEF Says, Answers
  <1> DEFINE m == [mem[a] EXCEPT !.verdict = r]
  <1>4. m \in Frames /\ m.cmd = mem[a].cmd /\ m.queue = mem[a].queue /\ m.due = mem[a].due
        /\ m.n = mem[a].n /\ m.flag = mem[a].flag /\ m.verdict = r
    BY <1>1, <1>3 DEF Frames
  <1>5. Goes(a, "record", m) /\ UNCHANGED <<files, ghosts, begun>>
        /\ credited' = (credited \/ r = "accepted")
        /\ refused' = IF r = "rejected" THEN refused + 1 ELSE refused
    BY <1>2 DEF Post, Goto, Set, Goes, Counted
  <1> HIDE DEF m
  <1>6. "record" \in Points /\ Fits("record", m)
    BY <1>1, <1>3, <1>4 DEF Fits, Points, Starting, Offering, Uploading, LoopCommands
  <1>7. Sound("record", m, credited', Offered)
    BY <1>1, <1>4, <1>5 DEF Sound, Offering
  <1>8. Files'
    BY <1>5 DEF SolveInv, SolveBase, Files, files, ghosts
  <1>9. SolveBase' /\ Shift(a) /\ pc'[a] = "record" /\ mem'[a] = m
    BY <1>4, <1>5, <1>6, <1>8, GoesThere DEF SolveInv
  <1>10. Offered' = Offered /\ subs' = subs
    BY <1>5 DEF Offered, files
  <1>11. Told'
    BY <1>5, <1>7, <1>9, <1>10, ToldOn DEF SolveInv, Told, files
  <1>12. Numbered'
    BY <1>10 DEF SolveInv, Numbered
  <1>13. Limited'
    <2>1. SUFFICES ASSUME Policy.maxWrong >= 0, ~muddled' PROVE Limited'
      BY DEF Limited
    <2>2. ~muddled /\ Submits(a)
      BY <1>1, <1>5, <2>1 DEF ghosts, Submits, Fits
    <2>3. \A b \in Agent : Submits(b) => b = a
      BY <2>1, <2>2 DEF SolveInv, Limited
    <2>4. \A b \in Agent : ~Unrecorded(b)
      BY <1>1, <2>3 DEF Unrecorded, Submits
    <2>5. refused <= Cardinality(Wrong(subs)) /\ refused < Policy.maxWrong
      BY <1>1, <2>1, <2>2, <2>4 DEF SolveInv, Limited
    <2>6. Cardinality(Wrong(subs)) \in Nat /\ refused \in Nat /\ Policy.maxWrong \in Int
      <3>1. IsFiniteSet(subs) /\ refused \in Nat
        BY DEF SolveInv, SolveBase, Files
      <3>2. Wrong(subs) \subseteq subs
        BY DEF Wrong
      <3>3. Policy.maxWrong \in Int
        BY DEF PolicyType
      <3> QED
        BY <3>1, <3>2, <3>3, FS_Subset, FS_CardinalityType
    <2>7. \A b \in Agent : Submits(b)' => b = a
      BY <1>9, <2>3 DEF Submits, Shift
    <2>8. \A b \in Agent : pc'[b] # "post"
      <3>1. \A b \in Agent : pc[b] = "post" => Submits(b)
        BY DEF SolveInv, SolveBase, Fits, Submits
      <3> QED
        BY <1>9, <2>3, <3>1 DEF Shift
    <2>9. refused' <= Policy.maxWrong /\ refused' <= Cardinality(Wrong(subs)) + 1
      BY <1>5, <2>5, <2>6
    <2>10. (\A b \in Agent : ~Unrecorded(b)') => refused' <= Cardinality(Wrong(subs))
      <3>1. r = "rejected" => Unrecorded(a)'
        BY <1>4, <1>9, <2>2 DEF Unrecorded, Submits
      <3> QED
        BY <1>5, <2>5, <3>1
    <2> QED
      BY <1>10, <2>7, <2>8, <2>9, <2>10 DEF Limited
  <1> QED
    BY <1>9, <1>11, <1>12, <1>13 DEF SolveInv

\* A request that fails: the platform's answer, if any, is lost.
LEMMA PostFailsKeeps ==
  ASSUME SolveInv, NEW a \in Agent, PostFails(a)
  PROVE  SolveInv'
  <1>1. pc[a] = "post" /\ Return(a, "error") /\ UNCHANGED <<files, begun>> /\ "error" \in Results
    BY DEF PostFails, Results
  <1>2. CASE UNCHANGED <<credited, refused, muddled>>
    <2>1. Quiet(a) /\ outcome' \in [Agent -> Results]
      BY <1>1, <1>2, EndsQuietly DEF SolveInv, files
    <2>2. Files'
      BY <1>1, <1>2, <2>1 DEF SolveInv, SolveBase, Files, files
    <2> QED
      BY <2>1, <2>2, QuietKeeps
  <1>3. CASE \E r \in Says(mem[a].flag) : Counted(a, r) /\ muddled' = TRUE
    <2>1. credited \in BOOLEAN /\ credited' \in BOOLEAN /\ (credited => credited') /\ refused' \in Nat
          /\ muddled' = TRUE
      BY <1>3 DEF Counted, SolveInv, SolveBase, Files
    <2>2. Goes(a, "idle", Blank) /\ outcome' \in [Agent -> Results]
      BY <1>1, Returns DEF SolveInv
    <2>3. Files'
      BY <1>1, <2>1, <2>2 DEF SolveInv, SolveBase, Files, files
    <2>4. SolveBase' /\ Shift(a) /\ pc'[a] = "idle" /\ mem'[a] = Blank
      BY <2>2, <2>3, BlankFits, GoesThere DEF SolveInv, Points
    <2>5. Offered' = Offered /\ subs' = subs /\ UNCHANGED <<solvedLog, writeup>>
      BY <1>1 DEF Offered, files
    <2>6. Sound("idle", Blank, credited', Offered)
      BY BlankFits DEF Sound, LoopCommands
    <2>7. Told'
      BY <2>1, <2>4, <2>5, <2>6, ToldOn DEF SolveInv, Told
    <2>8. Numbered' /\ Limited'
      BY <2>1, <2>5 DEF SolveInv, Numbered, Limited
    <2> QED
      BY <2>4, <2>7, <2>8 DEF SolveInv
  <1> QED
    BY <1>2, <1>3 DEF PostFails
\* The row with the answer is written.
LEMMA RecordKeeps ==
  ASSUME SolveInv, NEW a \in Agent, Record(a)
  PROVE  SolveInv'
  <1> DEFINE f == mem[a].flag
             r == mem[a].verdict
  <1>1. /\ pc[a] = "record" /\ mem[a] \in Frames /\ Fits("record", mem[a])
        /\ Sound("record", mem[a], credited, Offered)
        /\ f \in Flag \cup {NoFlag} /\ r \in Answers
    <2>1. /\ pc[a] = "record" /\ mem[a] \in Frames /\ Fits("record", mem[a])
          /\ Sound("record", mem[a], credited, Offered) /\ f \in Flag \cup {NoFlag}
      BY Here DEF Record, SolveInv, Told
    <2> QED
      BY <2>1 DEF Fits
  <1>2. /\ subs' = subs \cup {Verdict(f, r)}
        /\ UNCHANGED <<row, lock, solvedLog, stalledLog, cands, writeup, credited, refused, muddled, begun>>
        /\ hot' = IF r = "rejected" THEN hot \cup {IF f = NoFlag THEN "upload" ELSE "flag"} ELSE hot
    BY DEF Record
  <1>3. /\ subs' \subseteq Answered /\ IsFiniteSet(subs') /\ Numbered'
        /\ Offered' = Offered \cup {f}
        /\ Cardinality(Wrong(subs)) \in Nat
        /\ r = "rejected" => Cardinality(Wrong(subs')) = Cardinality(Wrong(subs)) + 1
        /\ r # "rejected" => Wrong(subs') = Wrong(subs)
    BY <1>1, <1>2, RowCounts DEF SolveInv
  <1>4. PICK l \in Points, m \in Frames :
          /\ Fits(l, m) /\ Goes(a, l, m) /\ Sound(l, m, credited, Offered \cup {f})
          /\ l \notin {"post", "record"} /\ outcome' \in [Agent -> Results]
    <2>1. CASE r = "accepted"
      <3>1. Goes(a, "solve", mem[a]) /\ UNCHANGED outcome
        BY <2>1, SameFrame DEF Record, SolveInv
      <3>2. "solve" \in Points /\ Fits("solve", mem[a]) /\ Sound("solve", mem[a], credited, Offered \cup {f})
        BY <1>1, <2>1 DEF Fits, Sound, Points, Starting, Offering, Uploading
      <3> QED
        BY <1>1, <3>1, <3>2 DEF SolveInv, SolveBase, Files
    <2>2. CASE r # "accepted" /\ Looping(a)
      <3> DEFINE m == [mem[a] EXCEPT !.flag = NoFlag, !.row = "absent", !.verdict = "none"]
      <3>1. m \in Frames /\ m.cmd = mem[a].cmd /\ m.queue = mem[a].queue /\ m.due = mem[a].due
            /\ m.n = mem[a].n
        BY <1>1 DEF Frames, Rows
      <3>2. Goes(a, "judge", m) /\ UNCHANGED outcome
        BY <2>2 DEF Record, Goto, Set, Goes
      <3> HIDE DEF m
      <3>3. "judge" \in Points /\ Fits("judge", m)
        BY <1>1, <2>2, <3>1 DEF Fits, Points, Starting, Offering, Uploading, LoopCommands, Looping
      <3>4. Sound("judge", m, credited, Offered \cup {f})
        BY <1>1, <3>1 DEF Sound, Offering
      <3> QED
        BY <3>1, <3>2, <3>3, <3>4 DEF SolveInv, SolveBase, Files
    <2>3. CASE r # "accepted" /\ ~Looping(a)
      <3>1. Return(a, "none") /\ "none" \in Results
        BY <2>3 DEF Record, Results
      <3>2. Goes(a, "idle", Blank) /\ outcome' \in [Agent -> Results]
        BY <3>1, Returns DEF SolveInv
      <3>3. "idle" \in Points /\ Blank \in Frames /\ Fits("idle", Blank)
            /\ Sound("idle", Blank, credited, Offered \cup {f})
        BY BlankFits DEF Points, Sound, LoopCommands
      <3> QED
        BY <3>2, <3>3
    <2> QED
      BY <2>1, <2>2, <2>3
  <1>5. Files'
    <2>1. hot' \subseteq {"flag", "upload"}
      BY <1>2 DEF SolveInv, SolveBase, Files
    <2> QED
      BY <1>2, <1>3, <1>4, <2>1 DEF SolveInv, SolveBase, Files
  <1>6. SolveBase' /\ Shift(a) /\ pc'[a] = l /\ mem'[a] = m
    BY <1>4, <1>5, GoesThere DEF SolveInv
  <1>7. Told'
    <2>1. credited' = credited /\ (solvedLog' \/ writeup' => credited')
      BY <1>2 DEF SolveInv, Told
    <2> QED
      BY <1>3, <1>4, <1>6, <2>1, ToldOn
  <1>8. Limited'
    <2>1. SUFFICES ASSUME Policy.maxWrong >= 0, ~muddled' PROVE Limited'
      BY DEF Limited
    <2>2. ~muddled /\ refused' = refused /\ refused \in Nat
      BY <1>2, <2>1 DEF SolveInv, SolveBase, Files
    <2>3. \A b \in Agent : Submits(b)' => b # a /\ Submits(b)
      BY <1>4, <1>6 DEF Submits, Shift
    <2>4. \A b \in Agent : pc'[b] = "post" => pc[b] = "post"
      BY <1>4, <1>6 DEF Shift
    <2>5. \A b \in Agent \ {a} : Unrecorded(b)' <=> Unrecorded(b)
      BY <1>6 DEF Unrecorded, Shift
    <2>6. /\ \A b, c \in Agent : Submits(b) /\ Submits(c) => b = c
          /\ refused <= Policy.maxWrong
          /\ \A b \in Agent : pc[b] = "post" => refused < Policy.maxWrong
          /\ refused <= Cardinality(Wrong(subs)) + 1
          /\ (\A b \in Agent : ~Unrecorded(b)) => refused <= Cardinality(Wrong(subs))
      BY <2>1, <2>2 DEF SolveInv, Limited
    <2>7. refused <= Cardinality(Wrong(subs')) + 1
      BY <1>3, <2>2, <2>6
    <2>8. (\A b \in Agent : ~Unrecorded(b)') => refused <= Cardinality(Wrong(subs'))
      <3>1. CASE r = "rejected"
        BY <1>3, <2>6, <3>1
      <3>2. CASE r # "rejected"
        <4>1. ~Unrecorded(a)
          BY <3>2 DEF Unrecorded
        <4> QED
          BY <1>3, <2>5, <2>6, <3>2, <4>1
      <3> QED
        BY <3>1, <3>2
    <2> QED
      BY <2>2, <2>3, <2>4, <2>6, <2>7, <2>8 DEF Limited
  <1> QED
    BY <1>3, <1>6, <1>7, <1>8 DEF SolveInv

\* The limit looks neither at the solves nor at who is outside a post.
LEMMA LimitedOn ==
  ASSUME SolveInv, NEW a \in Agent, Shift(a), UNCHANGED <<refused, subs>>,
         muddled => muddled', pc'[a] \notin {"post", "record"},
         muddled' \/ pc[a] # "record" \/ mem[a].flag = NoFlag
  PROVE  Limited'
  <1>1. \A b \in Agent : Submits(b)' => b # a /\ Submits(b)
    BY DEF Submits, Shift
  <1>2. \A b \in Agent : Unrecorded(b) => Unrecorded(b)' \/ muddled'
    BY DEF Unrecorded, Shift
  <1>3. \A b \in Agent : pc'[b] = "post" => pc[b] = "post"
    BY DEF Shift
  <1> HIDE DEF Shift
  <1> QED
    BY <1>1, <1>2, <1>3 DEF SolveInv, Limited

\* The row of solved.jsonl keeps the invariant.
LEMMA AppendKeeps ==
  ASSUME SolveInv, NEW a \in Agent, AppendSolved(a)
  PROVE  SolveInv'
  <1>1. /\ pc[a] = "solve" /\ mem[a] \in Frames /\ Fits("solve", mem[a])
        /\ Sound("solve", mem[a], credited, Offered)
    BY Here DEF AppendSolved, SolveInv, Told
  <1>2. Goes(a, "credit", mem[a]) /\ solvedLog' = TRUE
        /\ UNCHANGED <<row, lock, stalledLog, cands, subs, hot, writeup, credited, refused, mem, ghosts, begun>>
    BY SameFrame DEF AppendSolved, SolveInv
  <1>3. "credit" \in Points /\ Fits("credit", mem[a]) /\ Sound("credit", mem[a], credited, Offered)
        /\ credited
    BY <1>1 DEF Fits, Sound, Points, Starting, Offering, Uploading
  <1>4. Files'
    BY <1>2 DEF SolveInv, SolveBase, Files, ghosts
  <1>5. SolveBase' /\ Shift(a) /\ pc'[a] = "credit" /\ mem'[a] = mem[a]
    BY <1>1, <1>2, <1>3, <1>4, GoesThere DEF SolveInv
  <1>6. Offered' = Offered /\ subs' = subs /\ muddled' = muddled
    BY <1>2 DEF Offered, ghosts
  <1>7. Told'
    BY <1>2, <1>3, <1>5, <1>6, ToldOn
  <1>8. Numbered'
    BY <1>6 DEF SolveInv, Numbered
  <1>9. Limited'
    BY <1>1, <1>2, <1>5, <1>6, LimitedOn
  <1> QED
    BY <1>5, <1>7, <1>8, <1>9 DEF SolveInv

\* An upload counts if the platform says so.
LEMMA SendKeeps ==
  ASSUME SolveInv, NEW a \in Agent, Send(a)
  PROVE  SolveInv'
  <1>1. /\ pc[a] = "send" /\ mem[a] \in Frames /\ Fits("send", mem[a])
    BY Here DEF Send, SolveInv
  <1>2. PICK good \in BOOLEAN, v \in Answers \cup {"blocked"} :
          /\ credited' = (credited \/ good) /\ Set(a, [mem[a] EXCEPT !.verdict = v])
          /\ v = "accepted" => credited \/ good
    <2>1. PICK good \in BOOLEAN :
            /\ credited' = (credited \/ good)
            /\ \/ \E v \in UploadVerdicts(credited \/ good) : Set(a, [mem[a] EXCEPT !.verdict = v])
               \/ Set(a, [mem[a] EXCEPT !.verdict = "rejected"])
      BY DEF Send
    <2>2. PICK counts \in BOOLEAN : counts = (credited \/ good)
      OBVIOUS
    <2>3. CASE \E v \in UploadVerdicts(counts) : Set(a, [mem[a] EXCEPT !.verdict = v])
      BY <2>1, <2>2, <2>3, UploadsEarned
    <2>4. CASE Set(a, [mem[a] EXCEPT !.verdict = "rejected"])
      BY <2>1, <2>4 DEF Answers
    <2> QED
      BY <2>1, <2>2, <2>3, <2>4
  <1> DEFINE m == [mem[a] EXCEPT !.verdict = v]
  <1>3. m \in Frames /\ m.cmd = mem[a].cmd /\ m.queue = mem[a].queue /\ m.due = mem[a].due
        /\ m.n = mem[a].n /\ m.flag = mem[a].flag /\ m.verdict = v
    BY <1>1 DEF Frames
  <1>4. Goes(a, "uploaded", m) /\ UNCHANGED <<files, refused, ghosts, begun>>
    BY <1>2 DEF Send, Goto, Set, Goes
  <1> HIDE DEF m
  <1>5. "uploaded" \in Points /\ Fits("uploaded", m)
    BY <1>1, <1>3 DEF Fits, Points, Starting, Offering, Uploading, LoopCommands
  <1>6. credited' \in BOOLEAN /\ (credited => credited')
    BY <1>2
  <1>7. Sound("uploaded", m, credited', Offered)
    BY <1>1, <1>2, <1>3 DEF Sound, Fits, Starting, Offering, Uploading, LoopCommands
  <1>8. Files'
    BY <1>4, <1>6 DEF SolveInv, SolveBase, Files, files, ghosts
  <1>9. SolveBase' /\ Shift(a) /\ pc'[a] = "uploaded" /\ mem'[a] = m
    BY <1>3, <1>4, <1>5, <1>8, GoesThere DEF SolveInv
  <1>10. Offered' = Offered /\ subs' = subs /\ muddled' = muddled /\ refused' = refused
         /\ UNCHANGED <<solvedLog, writeup>>
    BY <1>4 DEF Offered, files, ghosts
  <1>11. Told'
    BY <1>6, <1>7, <1>9, <1>10, ToldOn DEF SolveInv, Told
  <1>12. Numbered'
    BY <1>10 DEF SolveInv, Numbered
  <1>13. Limited'
    BY <1>1, <1>9, <1>10, LimitedOn
  <1> QED
    BY <1>9, <1>11, <1>12, <1>13 DEF SolveInv

\* So does the write-up, ...
LEMMA WriteUpKeeps ==
  ASSUME SolveInv, NEW a \in Agent, WriteUp(a)
  PROVE  SolveInv'
  <1>1. pc[a] = "writeup" /\ writeup' = (writeup \/ solvedLog) /\ "solved" \in Results
        /\ UNCHANGED <<row, lock, solvedLog, stalledLog, cands, subs, hot, credited, refused, muddled, begun>>
    BY DEF WriteUp, IsAccepted, Results
  <1>2. Goes(a, "idle", Blank) /\ outcome' \in [Agent -> Results]
    BY <1>1, Returns DEF WriteUp, SolveInv
  <1>3. Files'
    BY <1>1, <1>2 DEF SolveInv, SolveBase, Files
  <1>4. SolveBase' /\ Shift(a) /\ pc'[a] = "idle" /\ mem'[a] = Blank
    BY <1>2, <1>3, BlankFits, GoesThere DEF SolveInv, Points
  <1>5. Offered' = Offered /\ Sound("idle", Blank, credited', Offered')
    BY <1>1, BlankFits DEF Offered, Sound, LoopCommands
  <1>6. Told'
    BY <1>1, <1>4, <1>5, ToldOn DEF SolveInv, Told
  <1>7. Numbered'
    BY <1>1 DEF SolveInv, Numbered
  <1>8. Limited'
    BY <1>1, <1>4, LimitedOn
  <1> QED
    BY <1>4, <1>6, <1>7, <1>8 DEF SolveInv

\* ... and a death at any place.
LEMMA DieKeeps ==
  ASSUME SolveInv, NEW a \in Agent, Die(a)
  PROVE  SolveInv'
  <1>1. muddled' = (muddled \/ (pc[a] = "record" /\ mem[a].flag # NoFlag))
        /\ outcome' = [outcome EXCEPT ![a] = "died"] /\ UNCHANGED <<files, credited, refused, begun>>
    BY DEF Die
  <1>2. Goes(a, "idle", Blank) /\ outcome' \in [Agent -> Results] /\ muddled' \in BOOLEAN
    BY <1>1 DEF Die, Goto, Set, Goes, SolveInv, SolveBase, Files, Results
  <1>3. Files'
    BY <1>1, <1>2 DEF SolveInv, SolveBase, Files, files
  <1>4. SolveBase' /\ Shift(a) /\ pc'[a] = "idle" /\ mem'[a] = Blank
    BY <1>2, <1>3, BlankFits, GoesThere DEF SolveInv, Points
  <1>5. Offered' = Offered /\ Sound("idle", Blank, credited', Offered')
    BY <1>1, BlankFits DEF Offered, Sound, LoopCommands, files
  <1>6. Told'
    BY <1>1, <1>4, <1>5, ToldOn DEF SolveInv, Told, files
  <1>7. Numbered'
    BY <1>1 DEF SolveInv, Numbered, files
  <1>8. Limited'
    BY <1>1, <1>4, LimitedOn DEF files
  <1> QED
    BY <1>4, <1>6, <1>7, <1>8 DEF SolveInv
-----------------------------------------------------------------------------
(* The invariant, and what follows.                                        *)

\* The invariant holds before the first command ...
LEMMA SolveInvInit == SolveInit => SolveInv
  <1> SUFFICES ASSUME SolveInit PROVE SolveInv
    OBVIOUS
  <1>1. /\ row \in {"todo", "absent"} /\ lock = Nobody /\ solvedLog = FALSE /\ stalledLog = FALSE
        /\ cands = [f \in Flag |-> "none"] /\ subs = {} /\ hot = {} /\ writeup = FALSE
        /\ credited = FALSE /\ refused = 0 /\ begun = 0 /\ muddled = FALSE
        /\ pc = [a \in Agent |-> "idle"] /\ mem = [a \in Agent |-> Blank]
        /\ outcome = [a \in Agent |-> "none"]
    BY DEF SolveInit
  <1>2. Blank \in Frames /\ Fits("idle", Blank) /\ Blank.cmd = "none" /\ Blank.flag = NoFlag
    BY BlankFits
  <1>3. Files
    <2>1. IsFiniteSet({})
      BY FS_EmptySet
    <2>2. cands \in [Flag -> Origins] /\ outcome \in [Agent -> Results] /\ row \in Rows
      BY <1>1 DEF Origins, Results, Rows
    <2>3. refused \in Nat /\ begun \in 0..MaxBegun
      BY <1>1
    <2> QED
      BY <1>1, <2>1, <2>2, <2>3 DEF Files
  <1>4. SolveBase
    BY <1>1, <1>2, <1>3 DEF SolveBase, Points
  <1>5. Told
    BY <1>1, <1>2 DEF Told, Sound, LoopCommands
  <1>6. Numbered
    BY <1>1 DEF Numbered, Wrong
  <1>7. Limited
    <2>1. Wrong(subs) = {} /\ Cardinality({}) = 0
      BY <1>1, FS_EmptySet DEF Wrong
    <2>2. \A a \in Agent : ~Submits(a) /\ pc[a] # "post"
      BY <1>1 DEF Submits
    <2> QED
      BY <1>1, <2>1, <2>2 DEF Limited
  <1> QED
    BY <1>4, <1>5, <1>6, <1>7 DEF SolveInv

\* ... and is kept by every step of a session ...
LEMMA SolveKeepsInv ==
  ASSUME SolveInv, NEW a \in Agent, Step(a) \/ Die(a)
  PROVE  SolveInv'
  <1>0. SolveBase /\ Told
    BY DEF SolveInv
  <1>1. CASE Target(a) \/ ReadTarget(a) \/ SaveTarget(a) \/ NextAttempt(a) \/ ReadRow(a)
    BY <1>0, <1>1, TargetQuiet, ReadTargetQuiet, SaveTargetQuiet, NextAttemptQuiet, ReadRowQuiet,
       QuietKeeps
  <1>2. CASE CreditRow(a) \/ ReadUpload(a) \/ SaveUpload(a) \/ Uploaded(a) \/ Stall(a) \/ StallRow(a)
    BY <1>0, <1>2, CreditQuiet, ReadUploadQuiet, SaveUploadQuiet, UploadedQuiet, StallQuiet,
       QuietKeeps
  <1>3. CASE (\E F \in SUBSET Flag : Attempt(a, F)) \/ (\E f \in Flag : Judge(a, f))
    BY <1>0, <1>3, AttemptQuiet, JudgeQuiet, QuietKeeps
  <1>4. CASE Decide(a)
    <2>1. CASE Return(a, "planned") /\ UNCHANGED muddled
      BY <1>0, <1>4, <2>1, PlannedQuiet, QuietKeeps
    <2>2. CASE ~(Return(a, "planned") /\ UNCHANGED muddled)
      BY <1>4, <2>2, PostIsAllowed DEF Decide
    <2> QED
      BY <2>1, <2>2
  <1>5. CASE Post(a) \/ PostFails(a) \/ HeldBack(a) \/ Record(a)
    BY <1>0, <1>5, PostKeeps, PostFailsKeeps, HeldBackQuiet, QuietKeeps, RecordKeeps
  <1>6. CASE AppendSolved(a) \/ Send(a) \/ WriteUp(a) \/ Die(a)
    BY <1>6, AppendKeeps, SendKeeps, WriteUpKeeps, DieKeeps
  <1> QED
    BY <1>1, <1>2, <1>3, <1>4, <1>5, <1>6 DEF Step

\* ... and of the whole.
LEMMA SolveInvNext == SolveInv /\ [SolveNext]_solveVars => SolveInv'
  <1> SUFFICES ASSUME SolveInv, [SolveNext]_solveVars PROVE SolveInv'
    OBVIOUS
  <1>1. CASE \E a \in Agent : Step(a) \/ Die(a)
    BY <1>1, SolveKeepsInv
  <1>2. CASE \E a \in Agent, cmd \in CommandNames, f \in Flag \cup {NoFlag} : Begin(a, cmd, f)
    BY <1>2, BeginQuiet, QuietKeeps DEF SolveInv
  <1>3. CASE Pass
    <2>1. hot' = {}
          /\ UNCHANGED <<row, lock, solvedLog, stalledLog, cands, subs, writeup, credited, refused, pc,
                         mem, ghosts, begun>>
      BY <1>3 DEF Pass
    <2>2. SolveBase'
      BY <2>1 DEF SolveInv, SolveBase, Files, ghosts
    <2>3. Told' /\ Numbered' /\ Limited'
      BY <2>1 DEF SolveInv, Told, Offered, Numbered, Limited, Submits, Unrecorded, ghosts
    <2> QED
      BY <2>2, <2>3 DEF SolveInv
  <1>4. CASE UNCHANGED solveVars
    <2>1. UNCHANGED <<row, lock, solvedLog, stalledLog, cands, subs, hot, writeup, credited, refused, pc,
                      mem, outcome, muddled, begun>>
      BY <1>4 DEF solveVars, files, ghosts
    <2>2. SolveBase'
      BY <2>1 DEF SolveInv, SolveBase, Files
    <2>3. Told' /\ Numbered' /\ Limited'
      BY <2>1 DEF SolveInv, Told, Offered, Numbered, Limited, Submits, Unrecorded
    <2> QED
      BY <2>2, <2>3 DEF SolveInv
  <1> QED
    BY <1>1, <1>2, <1>3, <1>4 DEF SolveNext

\* The place and locals of every session, what it may say, the numbering of the
\* rejections and the limit are kept by every step of every session.
THEOREM SolveInvariant == SolveSpec => []SolveInv
  BY SolveInvInit, SolveInvNext, PTL DEF SolveSpec

\* Type correctness of the solve-loop's files, platform and sessions.
THEOREM SolveTypes == SolveSpec => []SolveTypeOK
  <1>1. SolveInv => SolveTypeOK
    <2> SUFFICES ASSUME SolveInv PROVE SolveTypeOK
      OBVIOUS
    <2>1. Files
      BY DEF SolveInv, SolveBase
    <2>2. \A a \in Agent : outcome[a] \in Results
      BY <2>1 DEF Files
    <2>3. \A a \in Agent :
            /\ mem[a].cmd \in CommandNames \cup {"none"} /\ mem[a].n \in 0..MaxAttempts
            /\ mem[a].queue \subseteq mem[a].due /\ mem[a].due \subseteq Flag
            /\ mem[a].flag \in Flag \cup {NoFlag} /\ mem[a].row \in Rows
      BY Here DEF SolveInv, Fits
    <2> QED
      BY <2>1, <2>2, <2>3 DEF SolveTypeOK, Files, Results
  <1> QED
    BY <1>1, SolveInvariant, PTL

\* solved.jsonl and the write-up speak of a challenge the platform counts, and a
\* solve-loop that gives up has the platform's word on every flag it had to offer.
THEOREM VerdictIsEarned == SolveSpec => []VerdictEarned
  <1>1. SolveInv => VerdictEarned
    <2> SUFFICES ASSUME SolveInv PROVE SolvedIsEarned /\ CandidatesJudged
      BY DEF VerdictEarned
    <2>1. SolvedIsEarned
      BY DEF SolveInv, Told, SolvedIsEarned
    <2>2. ASSUME NEW a \in Agent, pc[a] = "stall", Looping(a), mem[a].verdict # "missing_tool"
          PROVE  mem[a].due \subseteq Offered
      <3>1. Sound("stall", mem[a], credited, Offered) /\ Fits("stall", mem[a])
        BY <2>2, Here DEF SolveInv, Told
      <3> QED
        BY <2>2, <3>1 DEF Sound, Fits, Offering, LoopCommands, Looping
    <2>3. CandidatesJudged
      BY <2>2 DEF CandidatesJudged, Offered
    <2> QED
      BY <2>1, <2>3
  <1> QED
    BY <1>1, SolveInvariant, PTL

\* max_wrong_per_challenge bounds the wrong flags of all sessions together, as
\* long as no two submit at once and no answer is lost.
THEOREM WrongLimitHolds == SolveSpec => []WrongLimitKept
  <1>1. SolveInv => WrongLimitKept
    BY DEF SolveInv, Limited, WrongLimitKept
  <1> QED
    BY <1>1, SolveInvariant, PTL
-----------------------------------------------------------------------------
(* The claim file implements ChallengeLock.  Owner, Engaged and Counts are *)
(* what its variables stand for.                                           *)

One     == {"challenge"}
Owner   == [c \in One |-> {lock} \ {Nobody}]
Engaged == [a \in Agent |-> IF OnClaim(a) THEN One ELSE {}]
Counts  == IF credited THEN One ELSE {}

(* A session that goes on stays at work, ...                               *)
LEMMA WorkGoesOn ==
  ASSUME SolveBase, NEW a \in Agent, NEW l, NEW m, Goes(a, l, m),
         (m.cmd = "loop" /\ l # "target") <=> OnClaim(a)
  PROVE  Engaged' = Engaged
  <1>1. \A b \in Agent : OnClaim(b)' <=> OnClaim(b)
    BY DEF SolveBase, Goes, OnClaim
  <1> QED
    BY <1>1 DEF Engaged

(* ... one whose command ended is at work on nothing, ...                  *)
LEMMA WorkEnds ==
  ASSUME SolveBase, NEW a \in Agent, NEW l, NEW m, Goes(a, l, m), m.cmd # "loop"
  PROVE  Engaged' = [Engaged EXCEPT ![a] = @ \ One]
  <1>1. \A b \in Agent \ {a} : OnClaim(b)' <=> OnClaim(b)
    BY DEF SolveBase, Goes, OnClaim
  <1>2. ~OnClaim(a)'
    BY DEF SolveBase, Goes, OnClaim
  <1> QED
    BY <1>1, <1>2 DEF Engaged

(* ... and one that claimed its target begins to work.                     *)
LEMMA WorkBegins ==
  ASSUME SolveBase, NEW a \in Agent, NEW l, NEW m, Goes(a, l, m), m.cmd = "loop", l # "target"
  PROVE  Engaged' = [Engaged EXCEPT ![a] = @ \cup One]
  <1>1. \A b \in Agent \ {a} : OnClaim(b)' <=> OnClaim(b)
    BY DEF SolveBase, Goes, OnClaim
  <1>2. OnClaim(a)'
    BY DEF SolveBase, Goes, OnClaim
  <1> QED
    BY <1>1, <1>2 DEF Engaged

\* The session goes on with its command, or the command ends.
Advances(a) == \E l, m : /\ Goes(a, l, m) /\ l # "target"
                         /\ m = Blank \/ m.cmd = mem[a].cmd

(* A step that leaves the claim file alone is a stutter, a verdict, or the *)
(* end of a loop that leaves its claim behind.                             *)
LEMMA AdvanceMaps ==
  ASSUME SolveInv, SolveInv', NEW a \in Agent, Advances(a), pc[a] # "target",
         lock' = lock, credited => credited'
  PROVE  ClaimLock!LockNext
  <1>1. PICK l, m : Goes(a, l, m) /\ l # "target" /\ (m = Blank \/ m.cmd = mem[a].cmd)
    BY DEF Advances
  <1>2. Owner' = Owner
    BY DEF Owner
  <1>3. Counts' \in {Counts \cup S : S \in SUBSET One}
    BY DEF Counts
  <1>4. SolveBase
    BY DEF SolveInv
  <1>5. CASE m = Blank
    <2>1. Engaged' = [Engaged EXCEPT ![a] = @ \ One]
      BY <1>1, <1>4, <1>5, WorkEnds, BlankFits
    <2>2. ClaimLock!LetGo(a, One, {})
      BY <1>2, <1>3, <2>1
         DEF ClaimLock!LetGo, ClaimLock!SomeSettle, ClaimLock!Without, One, Owner, Engaged, Counts
    <2> QED
      BY <2>2 DEF ClaimLock!LockNext, One
  <1>6. CASE m.cmd = mem[a].cmd
    <2>1. Engaged' = Engaged
      BY <1>1, <1>4, <1>6, WorkGoesOn DEF OnClaim
    <2>2. ClaimLock!Settle
      BY <1>2, <1>3, <2>1 DEF ClaimLock!Settle, ClaimLock!SomeSettle, One, Owner, Engaged, Counts
    <2> QED
      BY <2>2 DEF ClaimLock!LockNext
  <1> QED
    BY <1>1, <1>5, <1>6

(* A command that returns advances, ...                                    *)
LEMMA ReturnAdvances ==
  ASSUME SolveBase, NEW a \in Agent, NEW r, Return(a, r)
  PROVE  Advances(a)
  BY DEF Return, Goto, Set, Goes, Advances

(* ... as does one that goes on with its locals as they were, ...          *)
LEMMA StayingAdvances ==
  ASSUME SolveBase, NEW a \in Agent, NEW l, l # "target", Goto(a, l), UNCHANGED mem
  PROVE  Advances(a)
  BY SameFrame DEF Advances

(* ... or with others of the same command.                                 *)
LEMMA SettingAdvances ==
  ASSUME NEW a \in Agent, NEW l, NEW m, l # "target", Goto(a, l), Set(a, m), m.cmd = mem[a].cmd
  PROVE  Advances(a)
  BY DEF Goto, Set, Goes, Advances

(* The steps that leave the claim file alone.                              *)
LEMMA PlainStep ==
  ASSUME SolveInv, NEW a \in Agent,
         \/ ReadTarget(a) \/ SaveTarget(a) \/ (\E F \in SUBSET Flag : Attempt(a, F))
         \/ (\E f \in Flag : Judge(a, f)) \/ NextAttempt(a) \/ ReadRow(a) \/ Decide(a)
         \/ Post(a) \/ PostFails(a) \/ HeldBack(a) \/ Record(a) \/ AppendSolved(a) \/ ReadUpload(a)
         \/ SaveUpload(a) \/ Send(a) \/ Uploaded(a) \/ WriteUp(a) \/ Stall(a) \/ Die(a)
  PROVE  Advances(a) /\ lock' = lock /\ (credited => credited')
         /\ (pc[a] # "target" \/ Die(a))
  <1>0. SolveBase /\ mem[a] \in Frames
    BY Here DEF SolveInv
  <1>1. CASE ReadTarget(a)
    <2>0. UNCHANGED <<lock, credited>> /\ pc[a] \in {"triage", "starter"}
      BY <1>1 DEF ReadTarget, files
    <2>1. CASE Return(a, "not_found")
      BY <1>0, <2>0, <2>1, ReturnAdvances
    <2>2. CASE /\ Goto(a, IF pc[a] = "triage" THEN "save triage" ELSE "save starter")
               /\ Set(a, [mem[a] EXCEPT !.row = Restamped])
      <3>1. PICK l \in {"save triage", "save starter"} : Goto(a, l)
        BY <2>2
      <3>2. Set(a, [mem[a] EXCEPT !.row = Restamped])
        BY <2>2
      <3>3. [mem[a] EXCEPT !.row = Restamped].cmd = mem[a].cmd
        BY <1>0 DEF Frames
      <3> QED
        BY <2>0, <3>1, <3>2, <3>3, SettingAdvances
    <2> QED
      BY <1>1, <2>1, <2>2 DEF ReadTarget
  <1>11. CASE SaveTarget(a)
    <2>1. PICK l \in {"starter", "attempt"} : Goto(a, l)
      BY <1>11 DEF SaveTarget
    <2>2. Set(a, [mem[a] EXCEPT !.row = "absent"])
      BY <1>11 DEF SaveTarget
    <2>3. [mem[a] EXCEPT !.row = "absent"].cmd = mem[a].cmd
      BY <1>0 DEF Frames
    <2> QED
      BY <1>11, <2>1, <2>2, <2>3, SettingAdvances DEF SaveTarget
  <1>2. ASSUME NEW F \in SUBSET Flag, Attempt(a, F)
        PROVE  Advances(a) /\ lock' = lock /\ (credited => credited') /\ pc[a] # "target"
    <2>1. PICK l \in {"judge", "stall"} : Goto(a, l)
      BY <1>2 DEF Attempt
    <2>2. \E m : Set(a, m) /\ m.cmd = mem[a].cmd
      <3>1. /\ [mem[a] EXCEPT !.n = @ + 1, !.queue = F, !.due = @ \cup F].cmd = mem[a].cmd
            /\ [mem[a] EXCEPT !.n = @ + 1, !.verdict = "missing_tool"].cmd = mem[a].cmd
        BY <1>0 DEF Frames
      <3>2. \/ Set(a, [mem[a] EXCEPT !.n = @ + 1, !.queue = F, !.due = @ \cup F])
            \/ Set(a, [mem[a] EXCEPT !.n = @ + 1, !.verdict = "missing_tool"])
        BY <1>2 DEF Attempt
      <3> QED
        BY <3>1, <3>2
    <2>3. Advances(a)
      BY <2>1, <2>2, SettingAdvances
    <2>4. UNCHANGED <<lock, credited>> /\ pc[a] = "attempt"
      BY <1>2 DEF Attempt
    <2> QED
      BY <2>3, <2>4
  <1>3. ASSUME NEW f \in Flag, Judge(a, f)
        PROVE  Advances(a) /\ lock' = lock /\ (credited => credited') /\ pc[a] # "target"
    <2>0. UNCHANGED <<lock, credited>> /\ pc[a] = "judge"
      BY <1>3 DEF Judge
    <2>1. CASE ~Looping(a)
      BY <1>0, <1>3, <2>1, ReturnAdvances DEF Judge
    <2>2. CASE Looping(a)
      <3>1. PICK l, q, g, d :
              l \in {"submit", "judge"} /\ Goto(a, l)
              /\ Set(a, [mem[a] EXCEPT !.queue = q, !.flag = g, !.due = d])
        BY <1>3, <2>2 DEF Judge
      <3>2. [mem[a] EXCEPT !.queue = q, !.flag = g, !.due = d].cmd = mem[a].cmd
        BY <1>0 DEF Frames
      <3>3. Advances(a)
        BY <3>1, <3>2, SettingAdvances
      <3> QED
        BY <2>0, <3>3
    <2>3. lock' = lock /\ (credited => credited') /\ pc[a] # "target"
      BY <2>0
    <2> QED
      BY <2>1, <2>2, <2>3
  <1>4. CASE AppendSolved(a) \/ SaveUpload(a)
    <2>1. PICK l \in {"credit", "send"} : Goto(a, l) /\ UNCHANGED mem
      BY <1>4 DEF AppendSolved, SaveUpload
    <2>2. Advances(a)
      BY <1>0, <2>1, StayingAdvances
    <2>3. UNCHANGED <<lock, credited>> /\ pc[a] \in {"solve", "save upload"}
      <3>1. CASE AppendSolved(a)
        BY <3>1 DEF AppendSolved
      <3>2. CASE SaveUpload(a)
        BY <3>2 DEF SaveUpload
      <3> QED
        BY <1>4, <3>1, <3>2
    <2> QED
      BY <2>2, <2>3
  <1>12. CASE NextAttempt(a)
    <2>1. PICK l \in {"attempt", "stall"} : Goto(a, l) /\ UNCHANGED mem
      BY <1>12 DEF NextAttempt
    <2>2. Advances(a)
      BY <1>0, <2>1, StayingAdvances
    <2> QED
      BY <1>12, <2>2 DEF NextAttempt, files
  <1>5. CASE ReadRow(a) \/ ReadUpload(a)
    <2>1. UNCHANGED <<lock, credited>> /\ pc[a] \in {"submit", "upload"}
      BY <1>5 DEF ReadRow, ReadUpload, files
    <2>2. \A view : [mem[a] EXCEPT !.row = view].cmd = mem[a].cmd
      BY <1>0 DEF Frames
    <2>3. \/ \E r : Return(a, r)
          \/ \E l \in {"decide", "save upload"}, view \in Seen :
               Goto(a, l) /\ Set(a, [mem[a] EXCEPT !.row = view])
      BY <1>5 DEF ReadRow, ReadUpload
    <2>4. Advances(a)
      BY <1>0, <2>2, <2>3, SettingAdvances, ReturnAdvances
    <2> QED
      BY <2>1, <2>4
  <1>6. CASE Post(a) \/ Send(a)
    BY <1>0, <1>6, SettingAdvances DEF Post, Send, Counted, files, Frames
  <1>7. CASE Decide(a) \/ Uploaded(a) \/ Stall(a)
    BY <1>0, <1>7, StayingAdvances, ReturnAdvances DEF Decide, Uploaded, Stall, files
  <1>8. CASE Record(a)
    <2>1. CASE mem[a].verdict = "accepted"
      <3>1. Goto(a, "solve") /\ UNCHANGED mem
        BY <1>8, <2>1 DEF Record
      <3> QED
        BY <1>0, <1>8, <3>1, StayingAdvances DEF Record
    <2>2. CASE mem[a].verdict # "accepted" /\ Looping(a)
      <3> DEFINE m == [mem[a] EXCEPT !.flag = NoFlag, !.row = "absent", !.verdict = "none"]
      <3>1. Goto(a, "judge") /\ Set(a, m)
        BY <1>8, <2>2 DEF Record
      <3>2. m.cmd = mem[a].cmd
        BY <1>0 DEF Frames
      <3> HIDE DEF m
      <3>3. Advances(a)
        BY <3>1, <3>2, SettingAdvances
      <3> QED
        BY <1>8, <3>3 DEF Record
    <2>3. CASE mem[a].verdict # "accepted" /\ ~Looping(a)
      BY <1>0, <1>8, <2>3, ReturnAdvances DEF Record
    <2> QED
      BY <2>1, <2>2, <2>3
  <1>9. CASE PostFails(a) \/ HeldBack(a) \/ WriteUp(a)
    <2>1. Advances(a)
      BY <1>0, <1>9, ReturnAdvances DEF PostFails, HeldBack, WriteUp
    <2>2. lock' = lock /\ pc[a] \in {"post", "writeup"}
      BY <1>9 DEF PostFails, HeldBack, WriteUp, files
    <2>3. \/ \E r : credited' = (credited \/ r = "accepted")
          \/ UNCHANGED credited
      BY <1>9, Zenon DEF PostFails, Counted, HeldBack, WriteUp
    <2>4. credited => credited'
      BY <2>3
    <2> QED
      BY <2>1, <2>2, <2>4
  <1>10. CASE Die(a)
    BY <1>0, <1>10 DEF Die, files, Goto, Set, Goes, Advances
  <1> QED
    BY <1>1, <1>2, <1>3, <1>4, <1>5, <1>6, <1>7, <1>8, <1>9, <1>10, <1>11, <1>12

(* Who takes the target by name works without the claim.                   *)
LEMMA TargetMaps ==
  ASSUME SolveInv, SolveInv', NEW a \in Agent, Target(a)
  PROVE  [ClaimLock!LockNext]_<<Owner, Engaged, Counts>>
  <1>0. SolveBase /\ mem[a] \in Frames /\ ~OnClaim(a) /\ pc[a] = "target" /\ UNCHANGED credited
    BY Here DEF SolveInv, OnClaim, Target
  <1>1. CASE mem[a].cmd # "loop" \/ (Return(a, "empty") /\ UNCHANGED lock)
    <2>1. \E l, m : Goes(a, l, m) /\ m.cmd # "loop" /\ lock' = lock
      BY <1>0, <1>1, SameFrame, BlankFits DEF Target, NextChallenge, Return, Goto, Set, Goes
    <2>2. UNCHANGED Engaged
      BY <1>0, <2>1, WorkGoesOn
    <2> QED
      BY <1>0, <2>1, <2>2 DEF Owner, Counts
  <1>2. CASE mem[a].cmd = "loop" /\ Open /\ lock' = a /\ Goto(a, "triage") /\ UNCHANGED mem
    <2>1. Goto(a, "triage") /\ UNCHANGED mem /\ lock = Nobody /\ lock' = a
      BY <1>2 DEF Open
    <2>2. Engaged' = [Engaged EXCEPT ![a] = @ \cup One]
      BY <1>0, <1>2, <2>1, SameFrame, WorkBegins
    <2>3. Owner["challenge"] = {} /\ Owner' = [Owner EXCEPT !["challenge"] = {a}]
      BY <2>1 DEF One, Owner
    <2>4. ClaimLock!Grant(a, "challenge")
      BY <1>0, <2>2, <2>3 DEF ClaimLock!Grant, One, Owner, Engaged, Counts
    <2> QED
      BY <2>4 DEF ClaimLock!LockNext
  <1> QED
    BY <1>1, <1>2 DEF Target, NextChallenge

(* The end of a loop that gives up takes its own claim away.               *)
LEMMA StallRowMaps ==
  ASSUME SolveInv, SolveInv', NEW a \in Agent, StallRow(a)
  PROVE  ClaimLock!LockNext
  <1>0. SolveBase /\ UNCHANGED credited /\ Nobody \notin Agent
    BY DEF SolveInv, StallRow
  <1>1. Engaged' = [Engaged EXCEPT ![a] = @ \ One]
    BY <1>0, WorkEnds, BlankFits DEF StallRow, Return, Goto, Set, Goes
  <1>2. Counts' \in {Counts \cup S : S \in SUBSET One}
    BY <1>0 DEF Counts
  <1> DEFINE R == IF lock = a THEN One ELSE {}
  <1>3. /\ \A c \in R : Owner[c] = {a}
        /\ Owner' = [c \in One |-> IF c \in R THEN {} ELSE Owner[c]]
    BY <1>0 DEF StallRow, Released, Owner
  <1>4. R \in SUBSET One
    OBVIOUS
  <1> HIDE DEF R
  <1>5. ClaimLock!LetGo(a, One, R)
    BY <1>1, <1>2, <1>3
       DEF ClaimLock!LetGo, ClaimLock!SomeSettle, ClaimLock!Without, One, Owner, Engaged, Counts
  <1> QED
    BY <1>4, <1>5 DEF ClaimLock!LockNext, One

(* After the platform's word, everybody's claim is deleted.                *)
LEMMA CreditRowMaps ==
  ASSUME SolveInv, SolveInv', NEW a \in Agent, CreditRow(a)
  PROVE  ClaimLock!LockNext
  <1>0. SolveBase /\ mem[a] \in Frames /\ pc[a] = "credit" /\ lock' = Nobody /\ UNCHANGED credited
    BY Here DEF SolveInv, CreditRow
  <1>1. credited
    BY <1>0 DEF SolveInv, Told, Sound
  <1>2. UNCHANGED Engaged
    <2>1. CASE Looping(a)
      BY <1>0, <2>1, SameFrame, WorkGoesOn DEF CreditRow, OnClaim
    <2>2. CASE ~Looping(a)
      <3>1. Goes(a, "idle", Blank)
        BY <2>2 DEF CreditRow, Return, Goto, Set, Goes
      <3> QED
        BY <1>0, <2>2, <3>1, BlankFits, WorkGoesOn DEF Looping, OnClaim
    <2> QED
      BY <2>1, <2>2
  <1>3. ClaimLock!Close(One)
    BY <1>0, <1>1, <1>2 DEF ClaimLock!Close, ClaimLock!Without, One, Owner, Engaged, Counts
  <1> QED
    BY <1>3 DEF ClaimLock!LockNext, One

(* Every step maps to one of the lock, or to none.                         *)
LEMMA ClaimStepsMap ==
  SolveInv /\ SolveInv' /\ [SolveNext]_solveVars => [ClaimLock!LockNext]_<<Owner, Engaged, Counts>>
  <1> SUFFICES ASSUME SolveInv, SolveInv', [SolveNext]_solveVars
               PROVE  [ClaimLock!LockNext]_<<Owner, Engaged, Counts>>
    OBVIOUS
  <1>1. CASE UNCHANGED solveVars \/ Pass
    BY <1>1 DEF solveVars, files, Pass, Owner, Engaged, OnClaim, Counts
  <1>2. ASSUME NEW a \in Agent, NEW cmd \in CommandNames, NEW f \in Flag \cup {NoFlag},
               Begin(a, cmd, f)
        PROVE  [ClaimLock!LockNext]_<<Owner, Engaged, Counts>>
    <2> DEFINE m == [Blank EXCEPT !.cmd = cmd, !.flag = f]
    <2>1. /\ pc[a] = "idle" /\ Goes(a, Entrance(cmd), m) /\ UNCHANGED <<lock, credited>>
      BY <1>2 DEF Begin, Goto, Set, Goes, files
    <2>2. m.cmd = cmd
      BY DEF Blank
    <2>3. SolveBase /\ mem[a].cmd = "none"
      BY <2>1, Here DEF SolveInv, Fits
    <2>4. cmd = "loop" => Entrance(cmd) = "target"
      BY DEF Entrance
    <2> HIDE DEF m
    <2>5. UNCHANGED Engaged
      BY <2>1, <2>2, <2>3, <2>4, WorkGoesOn DEF OnClaim
    <2> QED
      BY <2>1, <2>5 DEF Owner, Counts
  <1>3. ASSUME NEW a \in Agent, Die(a), pc[a] = "target"
        PROVE  [ClaimLock!LockNext]_<<Owner, Engaged, Counts>>
    <2>1. Goes(a, "idle", Blank) /\ UNCHANGED <<lock, credited>>
      BY <1>3 DEF Die, Goto, Set, Goes, files
    <2>2. UNCHANGED Engaged
      BY <1>3, <2>1, BlankFits, WorkGoesOn DEF SolveInv, OnClaim
    <2> QED
      BY <2>1, <2>2 DEF Owner, Counts
  <1>4. ASSUME NEW a \in Agent, Step(a) \/ Die(a), pc[a] # "target" \/ ~Die(a)
        PROVE  [ClaimLock!LockNext]_<<Owner, Engaged, Counts>>
    <2>1. CASE Target(a)
      BY <2>1, TargetMaps
    <2>2. CASE StallRow(a)
      BY <2>2, StallRowMaps
    <2>3. CASE CreditRow(a)
      BY <2>3, CreditRowMaps
    <2>4. CASE ~(Target(a) \/ StallRow(a) \/ CreditRow(a))
      <3>1. Advances(a) /\ lock' = lock /\ (credited => credited') /\ pc[a] # "target"
        BY <1>4, <2>4, PlainStep DEF Step
      <3> QED
        BY <3>1, AdvanceMaps
    <2> QED
      BY <2>1, <2>2, <2>3, <2>4
  <1> QED
    BY <1>1, <1>2, <1>3, <1>4 DEF SolveNext

(* The claim of a solve-loop keeps the promise of the lock files: while    *)
(* the loop works, only the platform's word lets anybody delete it.        *)
THEOREM LoopImplementsLock == SolveSpec => ClaimIsHonoured
  <1>1. SolveInit => ClaimLock!LockInit
    BY DEF SolveInit, ClaimLock!LockInit, OnClaim, Blank
  <1>2. SolveInv /\ SolveInv' /\ [SolveNext]_solveVars => [ClaimLock!LockNext]_(ClaimLock!lockVars)
    BY ClaimStepsMap DEF ClaimLock!lockVars, Owner, Engaged, Counts, One
  <1> QED
    BY <1>1, <1>2, SolveInvariant, PTL DEF SolveSpec, ClaimIsHonoured, ClaimLock!LockSpec
-----------------------------------------------------------------------------
(* The settings: what the files and the commands of OperatorConfig hold.   *)

\* The contents of operator.json, ...
OperatorFiles == [ok : BOOLEAN, profile : Nat, set : Nat]
\* ... of board.json, ...
BoardFiles    == [ok : BOOLEAN, rows : BOOLEAN, top : Nat, row : Nat]
\* ... the locals of a command ...
Errands == [kind : Kinds \cup {"none"}, no : Nat, cfg : OperatorFiles, brd : BoardFiles, val : Nat]
\* ... and its places.
Stations == {"idle", "empty", "fill", "board", "read", "save", "saved", "rows", "refill"}

\* What a command at place l is about.
Suits(l, j) ==
  /\ l # "idle" => j.kind \in Kinds
  /\ l \in {"board", "read", "save", "saved", "rows", "refill"} => j.kind # "init"
  /\ l \in {"empty", "fill", "board"} => j.val = 0
  /\ l \in {"read", "save", "saved"} => j.val = j.no
  /\ l \in {"rows", "refill"} => j.val \in {0, j.no}

\* The types, and the place and errand of every console.
ConfigBase ==
  /\ operator \in OperatorFiles /\ boardFile \in BoardFiles
  /\ at \in [Console -> Stations] /\ errand \in [Console -> Errands]
  /\ asked \in Nat /\ settled \in Nat /\ commands \in Nat /\ explicit \in SUBSET Nat
  /\ together \in BOOLEAN /\ tornOperator \in BOOLEAN /\ tornBoard \in BOOLEAN
  /\ \A s \in Console : Suits(at[s], errand[s])

\* A content of operator.json that loses nothing: it has the last setting, unless
\* the file was torn, or one given later; and not a derived one for a given one.
Good(o) ==
  /\ o.set = 0 \/ o.set >= settled
  /\ ~tornOperator => o.set >= settled /\ o.profile = asked
  /\ ~(tornOperator /\ tornBoard) /\ settled \in explicit => o.set = 0 \/ o.set \in explicit

\* The command at place l on errand j, the only one that runs: it holds a good
\* content of operator.json and the board with its last setting.
Doing(l, j) ==
  /\ settled < j.no /\ j.no <= commands
  /\ l \in {"empty", "fill", "save", "saved"} => Good(j.cfg)
  /\ l \in {"fill", "saved"} => operator.set = 0
  /\ l \in {"board", "read", "save", "saved", "rows"} => boardFile.ok \/ tornBoard
  /\ l \in {"read", "save", "saved", "rows", "refill"} =>
       /\ tornBoard \/ j.brd.top = settled
       /\ j.val = 0 \/ j.val \in explicit \/ (tornOperator /\ tornBoard) \/ settled = 0
  /\ l \in {"rows", "refill"} => j.val = 0 \/ operator.set = j.val

\* As long as no two commands ran at once.
Alone ==
  together \/
    /\ \A s, t \in Console : at[s] # "idle" /\ at[t] # "idle" => s = t
    /\ \A s \in Console : at[s] # "idle" => Doing(at[s], errand[s])
    /\ (\A s \in Console : at[s] \notin {"fill", "saved"}) => Good(operator)
    /\ (\A s \in Console : at[s] # "refill") => tornBoard \/ boardFile.top = settled
    /\ settled <= commands /\ explicit \subseteq 1..commands

\* The inductive invariant of the settings.
ConfigInv == ConfigBase /\ Alone
\* A step of session s, to place l with errand j, keeps the invariant if the new
\* files are well typed and, unless two commands ran at once, what Doing and Good
\* ask of the place it is now at holds.
LEMMA StepKeepsConfig ==
  ASSUME ConfigInv, NEW s \in Console, at[s] # "idle",
         NEW l \in Stations, NEW j \in Errands, To(s, l), Locals(s, j), Suits(l, j),
         operator' \in OperatorFiles, boardFile' \in BoardFiles, asked' \in Nat, settled' \in Nat,
         explicit' \in SUBSET Nat, tornOperator' \in BOOLEAN, tornBoard' \in BOOLEAN,
         UNCHANGED <<together, commands>>,
         ~together => /\ l # "idle" => Doing(l, j)'
                      /\ l \notin {"fill", "saved"} => Good(operator)'
                      /\ l # "refill" => tornBoard' \/ boardFile'.top = settled'
                      /\ settled' <= commands /\ explicit' \subseteq 1..commands
  PROVE  ConfigInv'
  <1>1. /\ at' \in [Console -> Stations] /\ errand' \in [Console -> Errands]
        /\ at'[s] = l /\ errand'[s] = j
        /\ \A t \in Console : t # s => at'[t] = at[t] /\ errand'[t] = errand[t]
    BY DEF ConfigInv, ConfigBase, To, Locals
  <1>2. ConfigBase'
    <2>1. \A t \in Console : Suits(at[t], errand[t])'
      BY <1>1 DEF ConfigInv, ConfigBase, Suits
    <2> QED
      BY <1>1, <2>1 DEF ConfigInv, ConfigBase
  <1>3. ASSUME ~together PROVE Alone'
    <2>1. \A t \in Console : t # s => at[t] = "idle"
      BY <1>3 DEF ConfigInv, Alone
    <2>2. \A t \in Console : at'[t] # "idle" => t = s
      BY <1>1, <2>1
    <2>3. \A t \in Console : at'[t] # "idle" => Doing(at[t], errand[t])'
      BY <1>1, <1>3, <2>2 DEF Doing, Good
    <2>4. (\A t \in Console : at'[t] \notin {"fill", "saved"}) => Good(operator)'
      BY <1>1, <1>3
    <2>5. (\A t \in Console : at'[t] # "refill") => tornBoard' \/ boardFile'.top = settled'
      BY <1>1, <1>3
    <2> QED
      BY <1>3, <2>2, <2>3, <2>4, <2>5 DEF Alone
  <1>4. together => Alone'
    BY DEF Alone
  <1> QED
    BY <1>2, <1>3, <1>4 DEF ConfigInv

\* What a busy session may rely on, when no two commands ran at once.
LEMMA Undisturbed ==
  ASSUME ConfigInv, NEW s \in Console, at[s] # "idle", ~together
  PROVE  /\ Doing(at[s], errand[s])
         /\ at[s] \notin {"fill", "saved"} => Good(operator)
         /\ at[s] # "refill" => tornBoard \/ boardFile.top = settled
         /\ settled <= commands /\ explicit \subseteq 1..commands
  <1>1. \A t \in Console : t # s => at[t] = "idle"
    BY DEF ConfigInv, Alone
  <1> QED
    BY <1>1 DEF ConfigInv, Alone

\* It holds when there are no files yet.
LEMMA ConfigInvInit == ConfigInit => ConfigInv
  <1> SUFFICES ASSUME ConfigInit PROVE ConfigInv
    OBVIOUS
  <1>1. ConfigBase
    <2>1. Idle \in Errands
      BY DEF Idle, Errands, OperatorFiles, BoardFiles, Lost, Unread
    <2>2. \A s \in Console : Suits(at[s], errand[s])
      BY DEF ConfigInit, Suits
    <2> QED
      BY <2>1, <2>2 DEF ConfigInit, ConfigBase, OperatorFiles, BoardFiles, Lost, Unread, Stations
  <1>2. Alone
    BY DEF ConfigInit, Alone, Good, Lost, Unread
  <1> QED
    BY <1>1, <1>2 DEF ConfigInv

\* The steps keep it, one by one: a command begins with what it read of
\* operator.json, ...
LEMMA StartKeepsConfig ==
  ASSUME ConfigInv, NEW s \in Console, NEW k \in Kinds, StartCommand(s, k)
  PROVE  ConfigInv'
  <1>1. PICK j : j = [Idle EXCEPT !.kind = k, !.no = commands + 1, !.cfg = operator]
    OBVIOUS
  <1>2. j \in Errands /\ j.kind = k /\ j.no = commands + 1 /\ j.cfg = operator /\ j.val = 0
    <2>1. j = [kind |-> k, no |-> commands + 1, cfg |-> operator, brd |-> Unread, val |-> 0]
      BY <1>1 DEF Idle
    <2>2. Unread \in BoardFiles
      BY DEF Unread, BoardFiles
    <2>3. commands + 1 \in Nat /\ operator \in OperatorFiles
      BY DEF ConfigInv, ConfigBase
    <2> QED
      BY <2>1, <2>2, <2>3 DEF Errands
  <1>3. /\ at[s] = "idle" /\ commands' = commands + 1 /\ commands' \in Nat
        /\ at' = [at EXCEPT ![s] = "empty"] /\ errand' = [errand EXCEPT ![s] = j]
        /\ together' = (together \/ \E t \in Console : at[t] # "idle") /\ together' \in BOOLEAN
        /\ UNCHANGED <<operator, boardFile, asked, settled, explicit, tornOperator, tornBoard>>
    BY <1>1 DEF StartCommand, To, Locals, ConfigInv, ConfigBase
  <1>4. /\ at' \in [Console -> Stations] /\ errand' \in [Console -> Errands]
        /\ at'[s] = "empty" /\ errand'[s] = j
        /\ \A t \in Console : t # s => at'[t] = at[t] /\ errand'[t] = errand[t]
    BY <1>2, <1>3 DEF ConfigInv, ConfigBase, Stations
  <1>5. ConfigBase'
    <2>1. \A t \in Console : Suits(at[t], errand[t])'
      BY <1>2, <1>4 DEF ConfigInv, ConfigBase, Suits
    <2> QED
      BY <1>3, <1>4, <2>1 DEF ConfigInv, ConfigBase
  <1>6. ASSUME ~together' PROVE Alone'
    <2>1. ~together /\ \A t \in Console : at[t] = "idle"
      BY <1>3, <1>6
    <2>2. /\ Good(operator) /\ settled <= commands /\ explicit \subseteq 1..commands
          /\ tornBoard \/ boardFile.top = settled
      BY <2>1 DEF ConfigInv, Alone
    <2>3. \A t \in Console : at'[t] # "idle" => t = s
      BY <1>4, <2>1
    <2>4. settled < commands + 1 /\ explicit \subseteq 1..(commands + 1)
      BY <2>2 DEF ConfigInv, ConfigBase
    <2>5. Doing("empty", j)'
      BY <1>2, <1>3, <2>2, <2>4 DEF Doing, Good, ConfigInv, ConfigBase
    <2>6. \A t \in Console : at'[t] # "idle" => Doing(at[t], errand[t])'
      BY <1>4, <2>3, <2>5
    <2>7. settled' <= commands' /\ explicit' \subseteq 1..commands'
      BY <1>3, <2>2, <2>4 DEF ConfigInv, ConfigBase
    <2>8. Good(operator)'
      BY <1>3, <2>2 DEF Good
    <2> QED
      BY <1>3, <2>2, <2>3, <2>6, <2>7, <2>8 DEF Alone
  <1>7. together' => Alone'
    BY DEF Alone
  <1> QED
    BY <1>5, <1>6, <1>7 DEF ConfigInv
\* ... empties the file, ...
LEMMA EmptyOperatorKeepsConfig ==
  ASSUME ConfigInv, NEW s \in Console, EmptyOperator(s)
  PROVE  ConfigInv'
  <1>1. PICK j \in Errands : j = errand[s]
    BY DEF ConfigInv, ConfigBase
  <1>2. PICK l \in {"fill", "saved"} : l = IF at[s] = "empty" THEN "fill" ELSE "saved"
    OBVIOUS
  <1>3. /\ at[s] \in {"empty", "save"} /\ operator' = Lost
        /\ To(s, l) /\ errand' = errand
        /\ UNCHANGED <<boardFile, asked, settled, explicit, together, tornOperator, tornBoard, commands>>
    BY <1>2 DEF EmptyOperator, To
  <1>4. Locals(s, j)
    BY <1>1, <1>3 DEF Locals, ConfigInv, ConfigBase
  <1>5. Suits(l, j)
    BY <1>1, <1>2, <1>3 DEF Suits, ConfigInv, ConfigBase
  <1>6. Lost \in OperatorFiles
    BY DEF Lost, OperatorFiles
  <1>7. ~together => Doing(at[s], j) /\ (tornBoard \/ boardFile.top = settled)
                     /\ settled <= commands /\ explicit \subseteq 1..commands
    BY <1>1, <1>3, Undisturbed
  <1>8. ~together => Doing(l, j)'
    BY <1>2, <1>3, <1>7 DEF Doing, Good, Lost
  <1> QED
    BY <1>2, <1>3, <1>4, <1>5, <1>6, <1>7, <1>8, StepKeepsConfig DEF ConfigInv, ConfigBase, Stations

\* ... reads it again for the setting it is to save, ...
LEMMA ReadOperatorKeepsConfig ==
  ASSUME ConfigInv, NEW s \in Console, ReadOperator(s)
  PROVE  ConfigInv'
  <1>1. PICK j \in Errands : j = errand[s]
    BY DEF ConfigInv, ConfigBase
  <1>2. PICK n : n = [j EXCEPT !.cfg = operator]
    OBVIOUS
  <1>3. n \in Errands /\ n.kind = j.kind /\ n.no = j.no /\ n.brd = j.brd /\ n.val = j.val /\ n.cfg = operator
    BY <1>2 DEF Errands, ConfigInv, ConfigBase
  <1>4. /\ at[s] = "read" /\ To(s, "save") /\ Locals(s, n)
        /\ UNCHANGED <<operator, boardFile, asked, settled, explicit, together, tornOperator, tornBoard, commands>>
    BY <1>1, <1>2 DEF ReadOperator
  <1>5. Suits("save", n)
    BY <1>1, <1>3, <1>4 DEF Suits, ConfigInv, ConfigBase
  <1>6. ~together => /\ Doing("read", j) /\ Good(operator) /\ (tornBoard \/ boardFile.top = settled)
                     /\ settled <= commands /\ explicit \subseteq 1..commands
    BY <1>1, <1>4, Undisturbed
  <1>7. ~together => Doing("save", n)' /\ Good(operator)'
    BY <1>3, <1>4, <1>6 DEF Doing, Good
  <1> QED
    BY <1>3, <1>4, <1>5, <1>6, <1>7, StepKeepsConfig DEF ConfigInv, ConfigBase, Stations

\* ... saves the setting, ...
LEMMA SaveOperatorKeepsConfig ==
  ASSUME ConfigInv, NEW s \in Console, SaveOperator(s)
  PROVE  ConfigInv'
  <1>1. PICK j \in Errands : j = errand[s]
    BY DEF ConfigInv, ConfigBase
  <1>2. PICK c \in OperatorFiles : c = j.cfg
    BY DEF Errands
  <1>3. /\ at[s] = "saved" /\ operator' = [c EXCEPT !.ok = TRUE, !.set = j.val] /\ To(s, "rows") /\ errand' = errand
        /\ UNCHANGED <<boardFile, asked, settled, explicit, together, tornOperator, tornBoard, commands>>
    BY <1>1, <1>2 DEF SaveOperator
  <1>4. operator' \in OperatorFiles /\ operator'.set = j.val /\ operator'.profile = c.profile
    BY <1>2, <1>3 DEF OperatorFiles, Errands
  <1>5. Locals(s, j)
    BY <1>1, <1>3 DEF Locals, ConfigInv, ConfigBase
  <1>6. Suits("saved", j)
    BY <1>1, <1>3 DEF ConfigInv, ConfigBase
  <1>7. Suits("rows", j) /\ j.val = j.no
    BY <1>6 DEF Suits
  <1>8. ~together => /\ Doing("saved", j) /\ (tornBoard \/ boardFile.top = settled)
                     /\ settled <= commands /\ explicit \subseteq 1..commands
    BY <1>1, <1>3, Undisturbed
  <1>9. ~together => Doing("rows", j)'
    BY <1>3, <1>4, <1>8 DEF Doing
  <1>10. ASSUME ~together PROVE Good(operator)'
    <2>1. /\ Good(c) /\ settled < j.no
          /\ j.val = 0 \/ j.val \in explicit \/ (tornOperator /\ tornBoard) \/ settled = 0
      BY <1>2, <1>8, <1>10 DEF Doing
    <2>2. operator'.set \in Nat /\ settled \in Nat /\ operator'.set > settled
      BY <1>4, <1>7, <2>1 DEF ConfigInv, ConfigBase, OperatorFiles
    <2>3. settled \in explicit => settled # 0
      BY <1>8, <1>10
    <2>4. ~tornOperator => operator'.profile = asked
      BY <1>4, <2>1 DEF Good
    <2> QED
      BY <1>3, <1>4, <2>1, <2>2, <2>3, <2>4 DEF Good
  <1> QED
    BY <1>3, <1>4, <1>5, <1>7, <1>8, <1>9, <1>10, StepKeepsConfig DEF ConfigInv, ConfigBase, Stations

\* ... empties the board ...
LEMMA EmptyBoardKeepsConfig ==
  ASSUME ConfigInv, NEW s \in Console, EmptyBoard(s)
  PROVE  ConfigInv'
  <1>1. PICK j \in Errands : j = errand[s]
    BY DEF ConfigInv, ConfigBase
  <1>2. /\ at[s] = "rows" /\ boardFile' = Unread /\ To(s, "refill") /\ errand' = errand
        /\ UNCHANGED <<operator, asked, settled, explicit, together, tornOperator, tornBoard, commands>>
    BY DEF EmptyBoard
  <1>3. Locals(s, j)
    BY <1>1, <1>2 DEF Locals, ConfigInv, ConfigBase
  <1>4. Suits("rows", j)
    BY <1>1, <1>2 DEF ConfigInv, ConfigBase
  <1>5. Suits("refill", j) /\ Unread \in BoardFiles
    BY <1>4 DEF Suits, Unread, BoardFiles
  <1>6. ~together => Doing("rows", j) /\ Good(operator) /\ settled <= commands /\ explicit \subseteq 1..commands
    BY <1>1, <1>2, Undisturbed
  <1>7. ~together => Doing("refill", j)' /\ Good(operator)'
    BY <1>2, <1>6 DEF Doing, Good
  <1> QED
    BY <1>2, <1>3, <1>5, <1>6, <1>7, StepKeepsConfig DEF ConfigInv, ConfigBase, Stations

\* ... and fills it, by which the setting is saved, ...
LEMMA FillBoardKeepsConfig ==
  ASSUME ConfigInv, NEW s \in Console, FillBoard(s)
  PROVE  ConfigInv'
  <1>1. PICK j \in Errands : j = errand[s]
    BY DEF ConfigInv, ConfigBase
  <1>2. PICK b \in BoardFiles : b = j.brd
    BY DEF Errands
  <1>3. /\ at[s] = "refill" /\ boardFile' = WithCopy(j) /\ To(s, "idle") /\ Locals(s, Idle)
        /\ settled' = (IF j.val = 0 THEN settled ELSE j.val)
        /\ UNCHANGED <<operator, asked, explicit, together, tornOperator, tornBoard, commands>>
    BY <1>1 DEF FillBoard, EndCommand
  <1>4. boardFile' \in BoardFiles /\ boardFile'.top = IF j.val = 0 THEN b.top ELSE j.val
    BY <1>2, <1>3 DEF WithCopy, BoardFiles, Errands
  <1>5. Idle \in Errands /\ Suits("idle", Idle)
    BY DEF Idle, Errands, OperatorFiles, BoardFiles, Lost, Unread, Suits
  <1>6. j.val \in Nat /\ j.no \in Nat /\ settled' \in Nat /\ settled \in Nat /\ commands \in Nat
    BY <1>3 DEF Errands, ConfigInv, ConfigBase
  <1>7. Suits("refill", j)
    BY <1>1, <1>3 DEF ConfigInv, ConfigBase
  <1>8. j.val \in {0, j.no}
    BY <1>7 DEF Suits
  <1>9. ~together => /\ Doing("refill", j) /\ Good(operator)
                     /\ settled <= commands /\ explicit \subseteq 1..commands
    BY <1>1, <1>3, Undisturbed
  <1>10. ASSUME ~together
         PROVE  /\ Good(operator)' /\ settled' <= commands
                /\ tornBoard' \/ boardFile'.top = settled'
    <2>1. /\ settled < j.no /\ j.no <= commands
          /\ tornBoard \/ b.top = settled
          /\ j.val = 0 \/ j.val \in explicit \/ (tornOperator /\ tornBoard) \/ settled = 0
          /\ j.val = 0 \/ operator.set = j.val
      BY <1>2, <1>9, <1>10 DEF Doing
    <2>2. settled' <= commands /\ (tornBoard' \/ boardFile'.top = settled')
      BY <1>3, <1>4, <1>6, <1>8, <1>9, <1>10, <2>1
    <2>3. Good(operator)'
      <3>1. CASE j.val = 0
        BY <1>3, <1>9, <1>10, <3>1 DEF Good
      <3>2. CASE j.val # 0
        BY <1>3, <1>6, <1>9, <1>10, <2>1, <3>2 DEF Good
      <3> QED
        BY <3>1, <3>2
    <2> QED
      BY <2>2, <2>3
  <1> QED
    BY <1>3, <1>4, <1>5, <1>6, <1>9, <1>10, StepKeepsConfig DEF ConfigInv, ConfigBase, Stations
\* ... writes what it had read, with the profile it was given, ...
LEMMA FillOperatorKeepsConfig ==
  ASSUME ConfigInv, NEW s \in Console, FillOperator(s)
  PROVE  ConfigInv'
  <1>1. PICK j \in Errands : j = errand[s]
    BY DEF ConfigInv, ConfigBase
  <1>2. PICK c \in OperatorFiles : c = j.cfg
    BY DEF Errands
  <1>3. PICK p \in Nat : /\ p \in {0, j.no}
                         /\ operator' = Carried(j, p) /\ asked' = IF p = 0 THEN asked ELSE p
    <2>1. j.no \in Nat
      BY DEF Errands
    <2> QED
      BY <1>1, <2>1 DEF FillOperator
  <1>4. /\ at[s] = "fill"
        /\ boardFile' = IF ~boardFile.ok /\ ~tornBoard THEN [boardFile EXCEPT !.ok = TRUE] ELSE boardFile
        /\ IF j.kind = "init" THEN EndCommand(s) ELSE To(s, "board") /\ UNCHANGED errand
        /\ UNCHANGED <<settled, explicit, together, tornOperator, tornBoard, commands>>
    BY <1>1 DEF FillOperator
  <1>5. /\ operator' \in OperatorFiles /\ operator'.set = c.set
        /\ operator'.profile = IF p = 0 THEN c.profile ELSE p
    <2>1. operator' = [c EXCEPT !.ok = TRUE, !.profile = IF p = 0 THEN @ ELSE p]
      BY <1>2, <1>3 DEF Carried
    <2> QED
      BY <1>2, <1>3, <2>1 DEF OperatorFiles
  <1>6. /\ boardFile' \in BoardFiles /\ boardFile'.top = boardFile.top
        /\ boardFile'.ok \/ tornBoard
    BY <1>4 DEF BoardFiles, ConfigInv, ConfigBase
  <1>7. asked' \in Nat
    BY <1>3 DEF ConfigInv, ConfigBase
  <1>8. ~together => /\ Doing("fill", j) /\ settled <= commands /\ explicit \subseteq 1..commands
                     /\ tornBoard \/ boardFile.top = settled
    BY <1>1, <1>4, Undisturbed
  <1>9. ASSUME ~together
        PROVE  /\ Good(operator)'
               /\ tornBoard' \/ boardFile'.top = settled'
    <2>1. Good(c)
      BY <1>2, <1>8, <1>9 DEF Doing
    <2>2. ~tornOperator => operator'.profile = asked'
      BY <1>3, <1>5, <2>1 DEF Good
    <2> QED
      BY <1>4, <1>5, <1>6, <1>8, <1>9, <2>1, <2>2 DEF Good
  <1>10. CASE j.kind = "init"
    <2>1. Idle \in Errands /\ Suits("idle", Idle)
      BY DEF Idle, Errands, OperatorFiles, BoardFiles, Lost, Unread, Suits
    <2>2. To(s, "idle") /\ Locals(s, Idle)
      BY <1>4, <1>10 DEF EndCommand
    <2> QED
      BY <1>4, <1>5, <1>6, <1>7, <1>8, <1>9, <2>1, <2>2, StepKeepsConfig DEF ConfigInv, ConfigBase, Stations
  <1>11. CASE j.kind # "init"
    <2>1. Suits("board", j)
      <3>1. Suits("fill", j)
        BY <1>1, <1>4 DEF ConfigInv, ConfigBase
      <3> QED
        BY <1>11, <3>1 DEF Suits
    <2>2. To(s, "board") /\ Locals(s, j)
      BY <1>1, <1>4, <1>11 DEF Locals, ConfigInv, ConfigBase
    <2>3. ~together => Doing("board", j)'
      BY <1>4, <1>6, <1>8 DEF Doing
    <2> QED
      BY <1>4, <1>5, <1>6, <1>7, <1>8, <1>9, <2>1, <2>2, <2>3, StepKeepsConfig DEF ConfigInv, ConfigBase, Stations
  <1> QED
    BY <1>10, <1>11

\* The board a command reads.
BoardRead == IF boardFile.ok THEN boardFile ELSE [Unread EXCEPT !.ok = TRUE]

\* LoadBoard leaves session s at place l with errand n: the board it read and, if
\* it saves a setting, its own number.
GoesOn(s, j, b, l, n) ==
  /\ To(s, l) /\ Locals(s, n) /\ n.kind = j.kind /\ n.no = j.no /\ n.brd.top = b.top
  /\ n.val = IF l = "read" THEN j.no ELSE j.val
  /\ l = "read" => \/ j.kind \in {"config", "submit-config"}
                   \/ j.kind = "probe" /\ Lookup(operator, b) = 0

\* After LoadBoard the session has ended or goes on.
LEMMA LoadBoardGoesOn ==
  ASSUME ConfigInv, NEW s \in Console, LoadBoard(s),
         NEW j \in Errands, j = errand[s],
         NEW b \in BoardFiles, b = BoardRead
  PROVE  \/ EndCommand(s)
         \/ \E l \in {"read", "rows"} : \E n \in Errands : GoesOn(s, j, b, l, n)
  <1>1. PICK m : m = [j EXCEPT !.brd = b]
    OBVIOUS
  <1>2. m \in Errands /\ m.kind = j.kind /\ m.no = j.no /\ m.val = j.val /\ m.brd = b
    BY <1>1 DEF Errands
  <1>3. PICK sv : sv = [m EXCEPT !.val = m.no]
    OBVIOUS
  <1>4. sv \in Errands /\ sv.kind = j.kind /\ sv.no = j.no /\ sv.val = j.no /\ sv.brd = b
    BY <1>2, <1>3 DEF Errands
  <1>5. PICK r : r = [m EXCEPT !.brd.rows = TRUE]
    OBVIOUS
  <1>6. r \in Errands /\ r.kind = j.kind /\ r.no = j.no /\ r.val = j.val /\ r.brd.top = b.top
    <2>1. PICK c \in BoardFiles : c = [b EXCEPT !.rows = TRUE]
      BY DEF BoardFiles
    <2>2. c.top = b.top
      BY <2>1 DEF BoardFiles
    <2>3. r = [m EXCEPT !.brd = c]
      BY <1>2, <1>5, <2>1 DEF Errands
    <2> QED
      BY <1>2, <2>1, <2>2, <2>3 DEF Errands
  <1>7. (CASE m.kind = "sync" -> IF operator.profile = 0 THEN EndCommand(s) ELSE To(s, "rows") /\ Locals(s, r)
           [] m.kind = "submit-config" -> To(s, "read") /\ Locals(s, sv)
           [] m.kind = "config" -> WebConfigured(s, m) \/ ServiceConfigured(s, m)
           [] m.kind = "stall" -> IF b.rows THEN To(s, "rows") /\ Locals(s, m) ELSE EndCommand(s)
           [] m.kind = "probe" -> IF b.rows /\ Lookup(operator, b) = 0 /\ Derivable
                                  THEN To(s, "read") /\ Locals(s, sv) ELSE EndCommand(s))
    BY <1>1, <1>2, <1>3, <1>5 DEF LoadBoard, BoardRead, SubmitConfigured, Probed, Derives, Save
  <1>8. j.kind \in Kinds \ {"init"}
    <2>1. at[s] = "board"
      BY DEF LoadBoard
    <2>2. Suits("board", j)
      BY <2>1 DEF ConfigInv, ConfigBase
    <2> QED
      BY <2>2 DEF Suits
  <1>9. CASE j.kind = "sync"
    <2>1. EndCommand(s) \/ (To(s, "rows") /\ Locals(s, r))
      BY <1>2, <1>7, <1>9, Zenon
    <2> QED
      BY <1>6, <2>1 DEF GoesOn
  <1>10. CASE j.kind = "submit-config"
    <2>1. To(s, "read") /\ Locals(s, sv)
      BY <1>2, <1>7, <1>10, Zenon
    <2> QED
      BY <1>4, <1>10, <2>1 DEF GoesOn
  <1>11. CASE j.kind = "config"
    <2>1. EndCommand(s) \/ (To(s, "read") /\ Locals(s, sv))
      <3>1. WebConfigured(s, m) \/ ServiceConfigured(s, m)
        BY <1>2, <1>7, <1>11, Zenon
      <3> QED
        BY <1>2, <1>3, <3>1 DEF WebConfigured, ServiceConfigured, Save
    <2> QED
      BY <1>4, <1>11, <2>1 DEF GoesOn
  <1>12. CASE j.kind = "stall"
    <2>1. EndCommand(s) \/ (To(s, "rows") /\ Locals(s, m))
      BY <1>2, <1>7, <1>12, Zenon
    <2> QED
      BY <1>2, <2>1 DEF GoesOn
  <1>13. CASE j.kind = "probe"
    <2>1. EndCommand(s) \/ (To(s, "read") /\ Locals(s, sv) /\ Lookup(operator, b) = 0)
      BY <1>2, <1>7, <1>13, Zenon
    <2> QED
      BY <1>4, <1>13, <2>1 DEF GoesOn
  <1> QED
    BY <1>8, <1>9, <1>10, <1>11, <1>12, <1>13 DEF Kinds

\* ... takes the setting it is to save from the board it reads, ...
LEMMA LoadBoardKeepsConfig ==
  ASSUME ConfigInv, NEW s \in Console, LoadBoard(s)
  PROVE  ConfigInv'
  <1>1. PICK j \in Errands : j = errand[s]
    BY DEF ConfigInv, ConfigBase
  <1>2. PICK b \in BoardFiles : b = BoardRead
    BY DEF ConfigInv, ConfigBase, BoardFiles, Unread, BoardRead
  <1>3. /\ at[s] = "board"
        /\ explicit' = IF j.kind \in {"config", "submit-config"} THEN explicit \cup {j.no} ELSE explicit
        /\ UNCHANGED <<operator, boardFile, asked, settled, together, tornOperator, tornBoard, commands>>
    BY <1>1 DEF LoadBoard
  <1>4. Suits("board", j)
    BY <1>1, <1>3 DEF ConfigInv, ConfigBase
  <1>5. j.no \in Nat /\ settled \in Nat /\ commands \in Nat /\ operator \in OperatorFiles
        /\ boardFile \in BoardFiles /\ explicit' \in SUBSET Nat
    BY <1>3 DEF Errands, ConfigInv, ConfigBase
  <1>6. ASSUME ~together
        PROVE  /\ Good(operator) /\ settled < j.no /\ j.no <= commands
               /\ boardFile.ok \/ tornBoard
               /\ tornBoard \/ b.top = settled
               /\ tornBoard \/ boardFile.top = settled
               /\ settled <= commands /\ explicit \subseteq 1..commands
    <2>1. /\ Doing("board", j) /\ Good(operator)
          /\ tornBoard \/ boardFile.top = settled
          /\ settled <= commands /\ explicit \subseteq 1..commands
      BY <1>1, <1>3, <1>6, Undisturbed
    <2> QED
      BY <1>2, <2>1 DEF Doing, BoardRead
  <1>7. ASSUME ~together PROVE Good(operator)' /\ explicit' \subseteq 1..commands
    <2>0. j.no \in 1..commands
      BY <1>5, <1>6, <1>7
    <2>1. explicit' \subseteq 1..commands
      BY <1>3, <1>6, <1>7, <2>0
    <2>2. settled \in explicit' => settled \in explicit
      BY <1>3, <1>5, <1>6, <1>7
    <2>3. explicit \subseteq explicit'
      BY <1>3
    <2>4. Good(operator)'
      BY <1>3, <1>6, <1>7, <2>2, <2>3 DEF Good
    <2> QED
      BY <2>1, <2>4
  <1>8. CASE EndCommand(s)
    <2>1. Idle \in Errands /\ Suits("idle", Idle)
      BY DEF Idle, Errands, OperatorFiles, BoardFiles, Lost, Unread, Suits
    <2> QED
      BY <1>3, <1>5, <1>6, <1>7, <1>8, <2>1, StepKeepsConfig DEF EndCommand, ConfigInv, ConfigBase, Stations
  <1>9. ASSUME NEW l \in {"read", "rows"}, NEW n \in Errands,
               GoesOn(s, j, b, l, n)
        PROVE  ConfigInv'
    <2>1. Suits(l, n)
      BY <1>4, <1>9 DEF Suits, GoesOn
    <2>2. ASSUME ~together, l = "read"
          PROVE  n.val \in explicit' \/ (tornOperator /\ tornBoard) \/ settled = 0
      <3>1. CASE j.kind \in {"config", "submit-config"}
        BY <1>3, <1>9, <2>2, <3>1 DEF GoesOn
      <3>2. CASE Lookup(operator, b) = 0
        <4>1. operator.set = 0 /\ b.top = 0
          BY <3>2 DEF Lookup
        <4> QED
          BY <1>5, <1>6, <2>2, <4>1 DEF Good
      <3> QED
        BY <1>9, <2>2, <3>1, <3>2 DEF GoesOn
    <2>3. ASSUME ~together PROVE Doing(l, n)'
      <3>1. j.val = 0
        BY <1>4 DEF Suits
      <3> QED
        BY <1>3, <1>6, <1>9, <2>2, <2>3, <3>1 DEF Doing, GoesOn
    <2> QED
      BY <1>3, <1>5, <1>6, <1>7, <1>9, <2>1, <2>3, StepKeepsConfig DEF GoesOn, ConfigInv, ConfigBase, Stations
  <1>10. EndCommand(s) \/ \E l \in {"read", "rows"} : \E n \in Errands : GoesOn(s, j, b, l, n)
    BY <1>1, <1>2, LoadBoardGoesOn
  <1> QED
    BY <1>8, <1>9, <1>10

\* ... or dies.
LEMMA FallKeepsConfig ==
  ASSUME ConfigInv, NEW s \in Console, Fall(s)
  PROVE  ConfigInv'
  <1>1. /\ at[s] # "idle" /\ To(s, "idle") /\ Locals(s, Idle)
        /\ tornOperator' = (tornOperator \/ at[s] \in {"fill", "saved"})
        /\ tornBoard' = (tornBoard \/ at[s] = "refill")
        /\ tornOperator' \in BOOLEAN /\ tornBoard' \in BOOLEAN
        /\ UNCHANGED <<operator, boardFile, asked, settled, explicit, together, commands>>
    BY DEF Fall, EndCommand, ConfigInv, ConfigBase
  <1>2. Idle \in Errands /\ Suits("idle", Idle)
    BY DEF Idle, Errands, OperatorFiles, BoardFiles, Lost, Unread, Suits
  <1>3. ASSUME ~together
        PROVE  /\ Good(operator)' /\ settled <= commands /\ explicit \subseteq 1..commands
               /\ tornBoard' \/ boardFile.top = settled
    <2>1. /\ settled <= commands /\ explicit \subseteq 1..commands
          /\ at[s] # "refill" => tornBoard \/ boardFile.top = settled
          /\ at[s] \notin {"fill", "saved"} => Good(operator)
          /\ Doing(at[s], errand[s])
      BY <1>1, <1>3, Undisturbed
    <2>2. ASSUME at[s] \in {"fill", "saved"} PROVE Good(operator)'
      <3>1. operator.set = 0 /\ settled < errand[s].no /\ errand[s].no <= commands
        BY <2>1, <2>2 DEF Doing
      <3>2. settled \in Nat
        BY DEF ConfigInv, ConfigBase
      <3> QED
        BY <1>1, <2>2, <3>1, <3>2 DEF Good
    <2> QED
      BY <1>1, <2>1, <2>2 DEF Good
  <1> QED
    BY <1>1, <1>2, <1>3, StepKeepsConfig DEF ConfigInv, ConfigBase, Stations
\* Every step of every console keeps the invariant.
LEMMA ConfigInvNext == ConfigInv /\ [ConfigNext]_configVars => ConfigInv'
  <1> SUFFICES ASSUME ConfigInv, [ConfigNext]_configVars PROVE ConfigInv'
    OBVIOUS
  <1>1. CASE UNCHANGED configVars
    <2>1. UNCHANGED <<operator, boardFile, at, errand, asked, settled, explicit, together,
                      tornOperator, tornBoard, commands>>
      BY <1>1 DEF configVars
    <2>2. ConfigBase'
      BY <2>1 DEF ConfigInv, ConfigBase, Suits
    <2>3. Alone'
      BY <2>1 DEF ConfigInv, Alone, Doing, Good
    <2> QED
      BY <2>2, <2>3 DEF ConfigInv
  <1>2. ASSUME NEW s \in Console, NEW k \in Kinds, StartCommand(s, k) PROVE ConfigInv'
    BY <1>2, StartKeepsConfig
  <1>3. ASSUME NEW s \in Console,
               \/ EmptyOperator(s) \/ FillOperator(s) \/ LoadBoard(s) \/ ReadOperator(s) \/ SaveOperator(s)
               \/ EmptyBoard(s) \/ FillBoard(s) \/ Fall(s)
        PROVE  ConfigInv'
    BY <1>3, EmptyOperatorKeepsConfig, FillOperatorKeepsConfig, LoadBoardKeepsConfig, ReadOperatorKeepsConfig,
       SaveOperatorKeepsConfig, EmptyBoardKeepsConfig, FillBoardKeepsConfig, FallKeepsConfig
  <1> QED
    BY <1>1, <1>2, <1>3 DEF ConfigNext

\* Every file and every console's locals are well typed, and the command that runs
\* alone holds nothing that would lose a setting.
THEOREM ConfigInvariant == ConfigSpec => []ConfigInv
  BY ConfigInvInit, ConfigInvNext, PTL DEF ConfigSpec

\* Type correctness of the operator's settings and of the commands that keep them.
THEOREM ConfigTypes == ConfigSpec => []ConfigTypeOK
  <1>1. ConfigInv => ConfigTypeOK
    BY DEF ConfigInv, ConfigBase, ConfigTypeOK, OperatorFiles, BoardFiles, Stations
  <1> QED
    BY <1>1, ConfigInvariant, PTL

\* What the operator set is what the commands find: the last setting saved or a
\* later one, the last profile given, never a derived endpoint for a given one,
\* as long as no two commands ran at once, through deaths at any point.
THEOREM SettingsAreKept == ConfigSpec => []SettingsKept
  <1>1. ConfigInv => SettingsKept
    <2> SUFFICES ASSUME ConfigInv PROVE LatestFound /\ ProfileKept /\ GivenOutlasts
      BY DEF SettingsKept
    <2>1. ASSUME Resting, ~together
          PROVE  /\ Good(operator) /\ explicit \subseteq 1..commands
                 /\ tornBoard \/ boardFile.top = settled
      BY <2>1 DEF ConfigInv, Alone, Resting
    <2>2. operator.set \in Nat /\ boardFile.top \in Nat /\ boardFile.row \in Nat /\ settled \in Nat
      BY DEF ConfigInv, ConfigBase, OperatorFiles, BoardFiles
    <2>3. LatestFound
      BY <2>1, <2>2 DEF LatestFound, Lookup, Good
    <2>4. ProfileKept
      BY <2>1 DEF ProfileKept, Good
    <2>5. ASSUME Resting, ~together, ~(tornOperator /\ tornBoard), settled \in explicit
          PROVE  Lookup(operator, boardFile) \in explicit
      <3>1. settled # 0
        BY <2>1, <2>5
      <3>2. CASE operator.set # 0
        BY <2>1, <2>5, <3>2 DEF Good, Lookup
      <3>3. CASE operator.set = 0
        <4>1. tornOperator
          BY <2>1, <2>2, <2>5, <3>1, <3>3 DEF Good
        <4>2. boardFile.top = settled
          BY <2>1, <2>5, <4>1
        <4> QED
          BY <2>5, <3>1, <3>3, <4>2 DEF Lookup
      <3> QED
        BY <3>2, <3>3
    <2> QED
      BY <2>3, <2>4, <2>5 DEF GivenOutlasts
  <1> QED
    BY <1>1, ConfigInvariant, PTL
-----------------------------------------------------------------------------
(* The rows of the board and what they stand for: what is behind a key.    *)

\* How a platform's challenge goes by, and the states of a row.
Forms    == {"number", "slug"}
RowMarks == {"todo", "solved", "external_solved", "stalled", "skipped"}

\* The rows of board.json.
RowType == [id : Id, name : Title, shell : BOOLEAN, also : SUBSET (Id \cup {Named(t) : t \in Title}),
            status : RowMarks, plat : BOOLEAN, ext : BOOLEAN]

\* The tasks of S share no canonical name with one outside it, if each task was
\* listed with those of B.
Closed(B, S) == \A c \in S, d \in Task : B[c] \cap B[d] # {} => d \in S

\* The keys that stand for a task of S.
Tags(B, S) == {k \in Forms \X Task : k[2] \in S}
                \cup {Named(t) : t \in {u \in Title : \E c \in S : Canon[u] \in B[c]}}

\* What row r says is true of every closed set that its task is in: C, D and G are
\* the tasks solved, declared solved and given up.
Sits(B, C, D, G, r, S) ==
  /\ Keys(r) \subseteq Tags(B, S)
  /\ Solved(r) => S \cap (C \cup D) # {}
  /\ r.status = "stalled" => S \cap G # {}

\* A row is a row, a shell by its task, and true.
Fine(B, C, D, G, r) ==
  /\ r \in RowType /\ r.shell = (r.id[2] \in Shells) /\ (r.status = "skipped" => r.shell)
  /\ \A S \in SUBSET Task : Closed(B, S) /\ r.id[2] \in S => Sits(B, C, D, G, r, S)

\* The ledgers V, X and Z hold keys of tasks solved, declared solved, given up.
Ledgers(B, C, D, G, V, X, Z) ==
  /\ V \subseteq Id /\ Z \subseteq Id /\ X \subseteq Tags(B, Task)
  /\ \A k \in V : k[2] \in C
  /\ \A k \in Z : k[2] \in G
  /\ \A S \in SUBSET Task : Closed(B, S) /\ X \cap Tags(B, S) # {} => S \cap D # {}

\* A task that was listed and is no shell has a row that is none either, its own
\* or one of a task it shared a name with.
Covered(B, b) ==
  \A S \in SUBSET Task : Closed(B, S) /\ (\E c \in S \ Shells : B[c] # {}) => \E r \in b : r.id[2] \in S \ Shells

\* The inductive invariant of the rows.
SyncInv ==
  /\ title \in [Task -> Title] /\ form \in [Task -> Forms] /\ bore \in [Task -> SUBSET Title]
  /\ cleared \subseteq Task /\ declared \subseteq Task /\ given \subseteq Task
  /\ \A r \in rows : Fine(bore, cleared, declared, given, r)
  /\ Ledgers(bore, cleared, declared, given, solvedIds, externalKeys, stalledIds)
  /\ Covered(bore, rows)
  /\ \A c \in Task : seen[c] # Unseen => bore[c] # {}
-----------------------------------------------------------------------------
(* Closed sets and the keys that stand for them.                           *)

\* What is outside a closed set is one too, and no key stands for both.
LEMMA Outside ==
  ASSUME NEW B \in [Task -> SUBSET Title], NEW S \in SUBSET Task, Closed(B, S)
  PROVE  Closed(B, Task \ S) /\ Tags(B, S) \cap Tags(B, Task \ S) = {}
  <1>1. Closed(B, Task \ S)
    BY DEF Closed
  <1>2. ASSUME NEW k \in Tags(B, S), k \in Tags(B, Task \ S) PROVE FALSE
    <2>1. CASE k \in Forms \X Task
      <3>1. k[2] \in S
        BY <1>2, <2>1 DEF Tags, Named, Forms
      <3>2. k[2] \in Task \ S
        BY <1>2, <2>1 DEF Tags, Named, Forms
      <3> QED
        BY <3>1, <3>2
    <2>2. CASE k \notin Forms \X Task
      <3>1. PICK t \in Title, c \in S : k = Named(t) /\ Canon[t] \in B[c]
        BY <1>2, <2>2 DEF Tags
      <3>2. PICK u \in Title, d \in Task \ S : k = Named(u) /\ Canon[u] \in B[d]
        BY <1>2, <2>2 DEF Tags
      <3>3. t = u
        BY <3>1, <3>2 DEF Named
      <3> QED
        BY <3>1, <3>2, <3>3 DEF Closed
    <2> QED
      BY <2>1, <2>2
  <1> QED
    BY <1>1, <1>2

\* A number or slug stands for its task alone.
LEMMA IdTag ==
  ASSUME NEW B, NEW S \in SUBSET Task, NEW k \in Forms \X Task
  PROVE  k \in Tags(B, S) <=> k[2] \in S
  BY DEF Tags, Named, Forms

\* When tasks are listed with more names fewer sets are closed, and no key that
\* stood for a task comes to stand for one of another set.
LEMMA Widened ==
  ASSUME NEW B \in [Task -> SUBSET Title], NEW W \in [Task -> SUBSET Title], \A c \in Task : B[c] \subseteq W[c],
         NEW S \in SUBSET Task, Closed(W, S)
  PROVE  /\ Closed(B, S)
         /\ Tags(B, S) \subseteq Tags(W, S)
         /\ Tags(W, S) \cap Tags(B, Task) \subseteq Tags(B, S)
  <1>1. Closed(B, S)
    BY DEF Closed
  <1>2. Tags(B, S) \subseteq Tags(W, S)
    BY DEF Tags
  <1>3. ASSUME NEW k \in Tags(W, S), k \in Tags(B, Task) PROVE k \in Tags(B, S)
    <2>1. CASE k \in Forms \X Task
      BY <1>3, <2>1, IdTag
    <2>2. CASE k \notin Forms \X Task
      <3>1. PICK t \in Title, c \in S : k = Named(t) /\ Canon[t] \in W[c]
        BY <1>3, <2>2 DEF Tags
      <3>2. PICK u \in Title, d \in Task : k = Named(u) /\ Canon[u] \in B[d]
        BY <1>3, <2>2 DEF Tags
      <3>3. t = u
        BY <3>1, <3>2 DEF Named
      <3>4. Canon[t] \in W[c] \cap W[d] /\ c \in S /\ d \in Task
        BY <3>1, <3>2, <3>3
      <3>5. d \in S
        BY <3>4 DEF Closed
      <3> QED
        BY <3>2, <3>5 DEF Tags
    <2> QED
      BY <2>1, <2>2
  <1> QED
    BY <1>1, <1>2, <1>3

\* Kin(c) is the least closed set that c is in.
LEMMA KinClosed ==
  ASSUME bore \in [Task -> SUBSET Title], NEW c \in Task
  PROVE  c \in Kin(c) /\ Kin(c) \subseteq Task /\ Closed(bore, Kin(c))
  <1>1. c \in Kin(c) /\ Kin(c) \subseteq Task
    BY DEF Kin
  <1>2. ASSUME NEW d \in Kin(c), NEW e \in Task, bore[d] \cap bore[e] # {} PROVE e \in Kin(c)
    <2>1. ASSUME NEW S \in SUBSET Task, c \in S, Near(S) \subseteq S PROVE e \in S
      <3>1. d \in S
        BY <2>1 DEF Kin
      <3> QED
        BY <1>2, <2>1, <3>1 DEF Near
    <2> QED
      BY <2>1 DEF Kin
  <1> QED
    BY <1>1, <1>2 DEF Closed

\* All tasks together are closed.
LEMMA AllClosed ==
  ASSUME NEW B
  PROVE  Closed(B, Task) /\ Task \in SUBSET Task
  BY DEF Closed
-----------------------------------------------------------------------------
(* Rows: read, merged and marked.                                          *)

\* What the ledgers make of a row.
LEMMA RuntimeForm ==
  ASSUME NEW r \in RowType, NEW V, NEW X, NEW Z, NEW n, n = Runtime(r, V, X, Z)
  PROVE  /\ n \in RowType /\ n.id = r.id /\ n.shell = r.shell /\ Keys(n) = Keys(r)
         /\ Solved(n) => Solved(r) \/ Keys(r) \cap (V \cup X) # {}
         /\ n.status = "stalled" => r.status = "stalled" \/ Keys(r) \cap Z # {}
         /\ n.status = "skipped" => r.shell \/ r.status = "skipped"
  <1>1. ASSUME NEW m, m.id = r.id, m.name = r.name, m.also = r.also PROVE Keys(m) = Keys(r)
    BY <1>1 DEF Keys
  <1>2. CASE Keys(r) \cap V # {}
    <2>1. n = [r EXCEPT !.status = "solved", !.ext = FALSE]
      BY <1>2 DEF Runtime
    <2>2. n \in RowType /\ n.id = r.id /\ n.shell = r.shell /\ n.name = r.name /\ n.also = r.also
          /\ n.status = "solved"
      BY <2>1 DEF RowType, RowMarks
    <2> QED
      BY <1>1, <1>2, <2>2
  <1>3. CASE Keys(r) \cap V = {} /\ Keys(r) \cap X # {}
    <2>1. n = [r EXCEPT !.status = "external_solved", !.ext = TRUE]
      BY <1>3 DEF Runtime
    <2>2. n \in RowType /\ n.id = r.id /\ n.shell = r.shell /\ n.name = r.name /\ n.also = r.also
          /\ n.status = "external_solved"
      BY <2>1 DEF RowType, RowMarks
    <2> QED
      BY <1>1, <1>3, <2>2
  <1>4. CASE Keys(r) \cap V = {} /\ Keys(r) \cap X = {}
    <2>1. PICK st \in RowMarks : n = [r EXCEPT !.status = st]
      BY <1>4 DEF Runtime, RowMarks, RowType
    <2>2. n \in RowType /\ n.id = r.id /\ n.shell = r.shell /\ n.name = r.name /\ n.also = r.also
          /\ n.status = st /\ n.plat = r.plat /\ n.ext = r.ext
      BY <2>1 DEF RowType
    <2>3. st \in {"solved", "external_solved"} => Solved(r)
      BY <1>4, <2>1, <2>2 DEF Runtime, Solved
    <2>4. st = "stalled" => r.status = "stalled" \/ Keys(r) \cap Z # {}
      BY <1>4, <2>1, <2>2 DEF Runtime
    <2>5. st = "skipped" => r.shell \/ r.status = "skipped"
      BY <1>4, <2>1, <2>2 DEF Runtime
    <2> QED
      BY <1>1, <2>2, <2>3, <2>4, <2>5 DEF Solved
  <1> QED
    BY <1>2, <1>3, <1>4

\* A row that is true stays so when the ledgers are looked up.
LEMMA RuntimeFine ==
  ASSUME NEW B, NEW C, NEW D, NEW G, NEW V, NEW X, NEW Z, NEW r,
         Fine(B, C, D, G, r), Ledgers(B, C, D, G, V, X, Z), NEW n, n = Runtime(r, V, X, Z)
  PROVE  Fine(B, C, D, G, n) /\ n.id = r.id
  <1>1. r \in RowType /\ r.shell = (r.id[2] \in Shells) /\ (r.status = "skipped" => r.shell)
    BY DEF Fine
  <1>2. /\ n \in RowType /\ n.id = r.id /\ n.shell = r.shell /\ Keys(n) = Keys(r)
        /\ Solved(n) => Solved(r) \/ Keys(r) \cap (V \cup X) # {}
        /\ n.status = "stalled" => r.status = "stalled" \/ Keys(r) \cap Z # {}
        /\ n.status = "skipped" => r.shell \/ r.status = "skipped"
    BY <1>1, RuntimeForm
  <1>3. ASSUME NEW S \in SUBSET Task, Closed(B, S), r.id[2] \in S PROVE Sits(B, C, D, G, n, S)
    <2>1. Sits(B, C, D, G, r, S)
      BY <1>3 DEF Fine
    <2>2. ASSUME NEW k \in Keys(r), k \in Id PROVE k[2] \in S
      BY <2>1, <2>2, IdTag DEF Sits, Id, Forms
    <2>3. Keys(r) \cap V # {} => S \cap C # {}
      BY <2>2 DEF Ledgers
    <2>4. Keys(r) \cap X # {} => S \cap D # {}
      BY <1>3, <2>1 DEF Ledgers, Sits
    <2>5. Keys(r) \cap Z # {} => S \cap G # {}
      BY <2>2 DEF Ledgers
    <2>6. Solved(n) => Solved(r) \/ Keys(r) \cap V # {} \/ Keys(r) \cap X # {}
      BY <1>2
    <2> QED
      BY <1>2, <2>1, <2>3, <2>4, <2>5, <2>6 DEF Sits
  <1> QED
    BY <1>1, <1>2, <1>3 DEF Fine
\* A row stays true when tasks are listed with more names and more is solved,
\* declared and given up.
LEMMA FineGrows ==
  ASSUME NEW B \in [Task -> SUBSET Title], NEW W \in [Task -> SUBSET Title], \A c \in Task : B[c] \subseteq W[c],
         NEW C, NEW D, NEW G, NEW C2, NEW D2, NEW G2, C \subseteq C2, D \subseteq D2, G \subseteq G2,
         NEW r, Fine(B, C, D, G, r)
  PROVE  Fine(W, C2, D2, G2, r)
  <1>1. ASSUME NEW S \in SUBSET Task, Closed(W, S), r.id[2] \in S PROVE Sits(W, C2, D2, G2, r, S)
    <2>1. Closed(B, S) /\ Tags(B, S) \subseteq Tags(W, S)
      BY <1>1, Widened
    <2>2. Sits(B, C, D, G, r, S)
      BY <1>1, <2>1 DEF Fine
    <2> QED
      BY <2>1, <2>2 DEF Sits
  <1> QED
    BY <1>1 DEF Fine

\* So do the ledgers.
LEMMA LedgersGrow ==
  ASSUME NEW B \in [Task -> SUBSET Title], NEW W \in [Task -> SUBSET Title], \A c \in Task : B[c] \subseteq W[c],
         NEW C, NEW D, NEW G, NEW V, NEW X, NEW Z, NEW C2, C \subseteq C2,
         Ledgers(B, C, D, G, V, X, Z)
  PROVE  Ledgers(W, C2, D, G, V, X, Z)
  <1>1. X \subseteq Tags(W, Task)
    <2>1. Tags(B, Task) \subseteq Tags(W, Task)
      BY AllClosed, Widened
    <2> QED
      BY <2>1 DEF Ledgers
  <1>2. ASSUME NEW S \in SUBSET Task, Closed(W, S), X \cap Tags(W, S) # {} PROVE S \cap D # {}
    <2>1. Closed(B, S) /\ Tags(W, S) \cap Tags(B, Task) \subseteq Tags(B, S)
      BY <1>2, Widened
    <2>2. X \cap Tags(B, S) # {}
      BY <1>2, <2>1 DEF Ledgers
    <2> QED
      BY <2>1, <2>2 DEF Ledgers
  <1> QED
    BY <1>1, <1>2 DEF Ledgers

\* A row that has a key of a closed set is one of that set.
LEMMA KeyPlaces ==
  ASSUME NEW B \in [Task -> SUBSET Title], NEW C, NEW D, NEW G, NEW r, Fine(B, C, D, G, r),
         NEW S \in SUBSET Task, Closed(B, S), NEW k \in Keys(r), k \in Tags(B, S)
  PROVE  r.id[2] \in S
  <1>1. r.id[2] \in Task
    BY DEF Fine, RowType, Id
  <1>2. SUFFICES ASSUME r.id[2] \in Task \ S PROVE FALSE
    BY <1>1
  <1>3. Closed(B, Task \ S) /\ Tags(B, S) \cap Tags(B, Task \ S) = {}
    BY Outside
  <1>4. Sits(B, C, D, G, r, Task \ S)
    BY <1>2, <1>3 DEF Fine
  <1> QED
    BY <1>3, <1>4 DEF Sits

\* The tasks of listing L carry names that B has them listed with.
Bears(B, L) == /\ B \in [Task -> SUBSET Title] /\ L \subseteq Task
               /\ title \in [Task -> Title] /\ form \in [Task -> Forms]
               /\ \A c \in L : Canon[title[c]] \in B[c]

\* A group of a listing, under a leading source that is a shell only if all are, is
\* a row that is true.
LEMMA EntryFine ==
  ASSUME NEW B, NEW C, NEW D, NEW G, NEW L, Bears(B, L), NEW shows, shows \subseteq C, NEW lead \in L
  PROVE  Fine(B, C, D, G, Entry(L, Canon[title[lead]], lead, shows))
  <1>0. /\ B \in [Task -> SUBSET Title] /\ L \in SUBSET Task
        /\ title \in [Task -> Title] /\ form \in [Task -> Forms]
    BY DEF Bears
  <1>g. PICK g : g = Canon[title[lead]]
    OBVIOUS
  <1>e. PICK e : e = Entry(L, g, lead, shows)
    OBVIOUS
  <1>1. /\ e.id = Ident(lead) /\ e.name = title[lead] /\ e.shell = (lead \in Shells)
        /\ e.also = {Ident(c) : c \in Group(L, g)} \cup UNION {Aliases(c) : c \in Group(L, g) \ {lead}}
        /\ e.status = (IF Won(L, g, shows) THEN "solved" ELSE IF lead \in Shells THEN "skipped" ELSE "todo")
        /\ e.plat = Won(L, g, shows) /\ e.ext = FALSE
    BY <1>e DEF Entry
  <1>2. Group(L, g) \subseteq L /\ \A c \in Group(L, g) : Canon[title[c]] = g
    BY <1>0 DEF Group
  <1>3. \A c \in L : Ident(c) \in Id /\ Slug(c) \in Id /\ title[c] \in Title
                     /\ Ident(c)[2] = c /\ Slug(c)[2] = c
    BY <1>0 DEF Ident, Slug, Id, Forms
  <1>4. Won(L, g, shows) \in BOOLEAN
    BY DEF Won
  <1>5. e.also \in SUBSET (Id \cup {Named(t) : t \in Title})
    BY <1>0, <1>1, <1>2, <1>3 DEF Aliases
  <1>6. e \in RowType
    <2>1. e = [id |-> e.id, name |-> e.name, shell |-> e.shell, also |-> e.also,
               status |-> e.status, plat |-> e.plat, ext |-> e.ext]
      BY <1>e, <1>1 DEF Entry
    <2>2. e.status \in RowMarks
      BY <1>1 DEF RowMarks
    <2>3. e.shell \in BOOLEAN
      <3>1. CASE lead \in Shells
        BY <1>1, <3>1
      <3>2. CASE lead \notin Shells
        BY <1>1, <3>2
      <3> QED
        BY <3>1, <3>2
    <2>4. e.id \in Id /\ e.name \in Title /\ e.plat \in BOOLEAN /\ e.ext \in BOOLEAN
      BY <1>0, <1>1, <1>3, <1>4
    <2> QED
      BY <1>5, <2>1, <2>2, <2>3, <2>4 DEF RowType
  <1>7. ASSUME NEW S \in SUBSET Task, Closed(B, S), lead \in S PROVE Sits(B, C, D, G, e, S)
    <2>1. Group(L, g) \subseteq S
      BY <1>0, <1>g, <1>2, <1>7 DEF Closed, Bears
    <2>2. \A c \in Group(L, g) : Ident(c) \in Tags(B, S) /\ Slug(c) \in Tags(B, S)
      BY <1>0, <1>2, <1>3, <2>1, IdTag DEF Id, Forms
    <2>3. \A c \in L : c \in S => Named(title[c]) \in Tags(B, S) /\ Named(Canon[title[c]]) \in Tags(B, S)
      BY <1>0, <1>3, BoardSyncAssumption DEF Tags, Bears
    <2>4. lead \in Group(L, g)
      BY <1>0, <1>g DEF Group
    <2>5. e.also \subseteq Tags(B, S)
      BY <1>1, <1>2, <2>1, <2>2, <2>3 DEF Aliases
    <2>6. Keys(e) \subseteq Tags(B, S)
      BY <1>1, <1>7, <2>2, <2>3, <2>4, <2>5 DEF Keys
    <2>7. Solved(e) => Won(L, g, shows)
      BY <1>1 DEF Solved
    <2>8. Won(L, g, shows) => S \cap C # {}
      BY <2>1 DEF Won
    <2>9. e.status # "stalled"
      BY <1>1
    <2> QED
      BY <2>6, <2>7, <2>8, <2>9 DEF Sits
  <1>8. e.status = "skipped" => e.shell
    BY <1>1
  <1> QED
    <2>1. Fine(B, C, D, G, e)
      BY <1>0, <1>1, <1>3, <1>6, <1>7, <1>8 DEF Fine
    <2> QED
      BY <1>g, <1>e, <1>1, <2>1
\* The row a group is merged with shares a key with it.
LEMMA PreviousShares ==
  ASSUME NEW b, NEW e, NEW p \in Previous(b, e)
  PROVE  p \in b /\ Keys(p) \cap Keys(e) # {}
  <1> DEFINE with(K) == {r \in b : Keys(r) \cap K # {}}
             ids == {k \in e.also : k[1] # "title"}
  <1>1. {e.id} \subseteq Keys(e) /\ {Named(Canon[e.name])} \subseteq Keys(e) /\ ids \subseteq Keys(e)
    BY DEF Keys
  <1>2. p \in with({e.id}) \/ p \in with({Named(Canon[e.name])}) \/ p \in with(ids) \/ p \in with(Keys(e))
    BY DEF Previous
  <1> HIDE DEF ids
  <1> QED
    BY <1>1, <1>2

\* What stands in for the row to merge with if there is none.
BlankOf(e) == [e EXCEPT !.also = {}, !.status = "none"]

\* Merged with a row it shares a key with, or with none, a group is a row that is true.
LEMMA MergedFine ==
  ASSUME NEW B \in [Task -> SUBSET Title], NEW C, NEW D, NEW G,
         NEW e, Fine(B, C, D, G, e), NEW p,
         \/ p = BlankOf(e)
         \/ Fine(B, C, D, G, p) /\ Keys(p) \cap Keys(e) # {},
         NEW m, m = MergedEntry(p, e)
  PROVE  Fine(B, C, D, G, m) /\ m.id = e.id
  <1>1. e \in RowType /\ e.shell = (e.id[2] \in Shells) /\ (e.status = "skipped" => e.shell)
    BY DEF Fine
  <1>2. p.also \in SUBSET (Id \cup {Named(t) : t \in Title})
    <2>1. CASE p = BlankOf(e)
      BY <1>1, <2>1 DEF RowType, BlankOf
    <2>2. CASE Fine(B, C, D, G, p)
      BY <2>2 DEF Fine, RowType
    <2> QED
      BY <2>1, <2>2
  <1>3. PICK st \in RowMarks :
          st = IF e.plat THEN "solved"
               ELSE IF p.status \in {"solved", "external_solved", "stalled"} THEN p.status ELSE e.status
    BY <1>1 DEF RowType, RowMarks
  <1>4. PICK x \in BOOLEAN : x <=> ~e.plat /\ p.status = "external_solved"
    OBVIOUS
  <1>5. PICK also \in SUBSET (Id \cup {Named(t) : t \in Title}) : also = p.also \cup e.also
    BY <1>1, <1>2 DEF RowType
  <1>6. m = [e EXCEPT !.also = also, !.status = st, !.ext = x]
    BY <1>3, <1>4, <1>5 DEF MergedEntry, BothKeys
  <1>7. /\ m \in RowType /\ m.id = e.id /\ m.name = e.name /\ m.shell = e.shell /\ m.also = also
        /\ m.status = st /\ m.plat = e.plat /\ m.ext = x
    BY <1>1, <1>6 DEF RowType
  <1>8. Keys(m) = Keys(e) \cup p.also
    BY <1>5, <1>7 DEF Keys
  <1>9. m.status = "skipped" => m.shell
    BY <1>1, <1>3, <1>7
  <1>10. ASSUME NEW S \in SUBSET Task, Closed(B, S), e.id[2] \in S PROVE Sits(B, C, D, G, m, S)
    <2>1. Sits(B, C, D, G, e, S)
      BY <1>10 DEF Fine
    <2>2. CASE p = BlankOf(e)
      <3>1. p.also = {} /\ p.status = "none"
        BY <1>1, <2>2 DEF RowType, BlankOf
      <3>2. ~x
        BY <1>4, <3>1
      <3>3. e.plat \/ st = e.status
        BY <1>3, <3>1
      <3>4. e.plat => st # "stalled"
        BY <1>3
      <3> QED
        BY <1>7, <1>8, <2>1, <3>1, <3>2, <3>3, <3>4 DEF Sits, Solved
    <2>3. CASE Fine(B, C, D, G, p) /\ Keys(p) \cap Keys(e) # {}
      <3>1. PICK k \in Keys(p) : k \in Tags(B, S)
        BY <2>1, <2>3 DEF Sits
      <3>2. p.id[2] \in S
        BY <1>10, <2>3, <3>1, KeyPlaces
      <3>3. Sits(B, C, D, G, p, S)
        BY <1>10, <2>3, <3>2 DEF Fine
      <3>4. p.also \subseteq Keys(p)
        BY DEF Keys
      <3>5. Keys(m) \subseteq Tags(B, S)
        BY <1>8, <2>1, <3>3, <3>4 DEF Sits
      <3>6. Solved(m) => Solved(e) \/ Solved(p)
        BY <1>3, <1>4, <1>7 DEF Solved
      <3>7. m.status = "stalled" => e.status = "stalled" \/ p.status = "stalled"
        BY <1>3, <1>7
      <3> QED
        BY <2>1, <3>3, <3>5, <3>6, <3>7 DEF Sits
    <2> QED
      BY <2>2, <2>3
  <1> QED
    BY <1>1, <1>7, <1>9, <1>10 DEF Fine

\* A record of a solved task marks a row of the sets the task is in.
LEMMA MarkedFine ==
  ASSUME NEW B \in [Task -> SUBSET Title], NEW C \in SUBSET Task, NEW D, NEW G, form \in [Task -> Forms],
         NEW b, \A r \in b : Fine(B, C, D, G, r), NEW K, K \subseteq C
  PROVE  /\ \A n \in Marked(b, K) : Fine(B, C, D, G, n)
         /\ \A r \in b : \E n \in Marked(b, K) : n.id = r.id
  <1> DEFINE hit == {CHOOSE r \in Best(b, Ident(d)) : TRUE : d \in {x \in K : Best(b, Ident(x)) # {}}}
             Mark(r) == IF r \in hit THEN [r EXCEPT !.plat = TRUE, !.status = IF r.ext THEN @ ELSE "solved"] ELSE r
  <1>1. Marked(b, K) = {Mark(r) : r \in b}
    BY DEF Marked, Filed
  <1>2. ASSUME NEW r \in b, r \in hit PROVE \E d \in K : Ident(d) \in Keys(r)
    <2>1. PICK d \in K : Best(b, Ident(d)) # {} /\ r = CHOOSE q \in Best(b, Ident(d)) : TRUE
      BY <1>2
    <2>2. r \in Best(b, Ident(d))
      BY <2>1
    <2>3. r \in {q \in b : Ident(d) \in Keys(q)}
      BY <2>2 DEF Best
    <2> QED
      BY <2>3
  <1> HIDE DEF hit
  <1>3. ASSUME NEW r \in b, NEW n, n = Mark(r) PROVE Fine(B, C, D, G, n) /\ n.id = r.id
    <2>1. CASE r \notin hit
      BY <1>3, <2>1
    <2>2. CASE r \in hit
      <3>1. r \in RowType /\ r.shell = (r.id[2] \in Shells) /\ (r.status = "skipped" => r.shell)
        BY DEF Fine
      <3>2. PICK st \in RowMarks : st = IF r.ext THEN r.status ELSE "solved"
        BY <3>1 DEF RowType, RowMarks
      <3>3. n = [r EXCEPT !.plat = TRUE, !.status = st]
        BY <1>3, <2>2, <3>1, <3>2 DEF RowType
      <3>4. /\ n \in RowType /\ n.id = r.id /\ n.name = r.name /\ n.shell = r.shell /\ n.also = r.also
            /\ n.status = st
        BY <3>1, <3>3 DEF RowType
      <3>5. Keys(n) = Keys(r)
        BY <3>4 DEF Keys
      <3>6. ASSUME NEW S \in SUBSET Task, Closed(B, S), r.id[2] \in S PROVE Sits(B, C, D, G, n, S)
        <4>1. Sits(B, C, D, G, r, S)
          BY <3>6 DEF Fine
        <4>2. PICK d \in K : Ident(d) \in Keys(r)
          BY <1>2, <2>2
        <4>3. Ident(d) \in Forms \X Task /\ Ident(d)[2] = d
          BY DEF Ident
        <4>4. d \in S
          BY <4>1, <4>2, <4>3, IdTag DEF Sits
        <4>5. S \cap C # {}
          BY <4>4
        <4>6. n.status = "stalled" => r.status = "stalled"
          BY <3>2, <3>4
        <4> QED
          BY <3>5, <4>1, <4>5, <4>6 DEF Sits
      <3>7. n.status = "skipped" => n.shell
        BY <3>1, <3>2, <3>4
      <3> QED
        BY <3>1, <3>4, <3>6, <3>7 DEF Fine
    <2> QED
      BY <2>1, <2>2
  <1> HIDE DEF Mark
  <1> QED
    BY <1>1, <1>3
-----------------------------------------------------------------------------
(* The steps of BoardSync.                                                 *)

\* The rows a sync finds, the groups of its listing L ...
Before == {Now(r) : r \in rows}
Names(L) == {Canon[title[c]] : c \in L}

\* ... the entry of one of them, and the rows it makes of them.
EntryOf(L, shows, lead, g) == Entry(L, g, lead[g], shows)
MergedRows(L, shows, lead, prev) ==
  {MergedEntry(prev[g], EntryOf(L, shows, lead, g)) : g \in Names(L)} \cup Preserved(Before, L)

\* The leading sources that a sync may choose, ...
Leads(L, lead) ==
  \A g \in Names(L) : lead[g] \in Group(L, g) /\ (lead[g] \in Shells => Group(L, g) \subseteq Shells)

\* ... and the rows it may merge their entries with.
Meets(L, shows, lead, prev) ==
  \A g \in Names(L) :
    IF Previous(Before, EntryOf(L, shows, lead, g)) = {} THEN prev[g] = BlankOf(EntryOf(L, shows, lead, g))
    ELSE prev[g] \in Previous(Before, EntryOf(L, shows, lead, g))

\* What a sync writes.
LEMMA SyncBoardWrites ==
  ASSUME NEW L, NEW shows, NEW pull, SyncBoard(L, shows, pull)
  PROVE  /\ \E lead, prev : /\ Leads(L, lead) /\ Meets(L, shows, lead, prev)
                            /\ rows' = {Now(r) : r \in Marked(MergedRows(L, shows, lead, prev), shows \cup pull)}
         /\ UNCHANGED <<title, form, cleared, solvedIds, externalKeys, stalledIds, declared, given>>
         /\ bore' = [c \in Task |-> IF c \in L THEN bore[c] \cup {Canon[title[c]]} ELSE bore[c]]
         /\ seen' = [c \in Task |-> IF c \in L THEN [id |-> Ident(c), name |-> Canon[title[c]]] ELSE seen[c]]
  <1>1. \E lead, prev : /\ Leads(L, lead) /\ Meets(L, shows, lead, prev)
                        /\ rows' = {Now(r) : r \in Marked(MergedRows(L, shows, lead, prev), shows \cup pull)}
    <2>1. \E lead \in [Names(L) -> Task] :
            /\ Leads(L, lead)
            /\ \E prev \in [Names(L) -> Before \cup {BlankOf(EntryOf(L, shows, lead, g)) : g \in Names(L)}] :
                 /\ Meets(L, shows, lead, prev)
                 /\ rows' = {Now(r) : r \in Marked(MergedRows(L, shows, lead, prev), shows \cup pull)}
      BY Zenon DEF SyncBoard, Leads, Meets, MergedRows, Before, Names, EntryOf, BlankOf
    <2> QED
      BY <2>1, Zenon
  <1>2. /\ bore' = [c \in Task |-> IF c \in L THEN bore[c] \cup {Canon[title[c]]} ELSE bore[c]]
        /\ seen' = [c \in Task |-> IF c \in L THEN [id |-> Ident(c), name |-> Canon[title[c]]] ELSE seen[c]]
    BY Zenon DEF SyncBoard
  <1>3. UNCHANGED <<title, form, cleared, solvedIds, externalKeys, stalledIds, declared, given>>
    BY Zenon DEF SyncBoard
  <1> QED
    BY <1>1, <1>2, <1>3

\* The rows a sync makes of those it finds and of its listing are true.
LEMMA MergedRowsFine ==
  ASSUME SyncInv, NEW L \in SUBSET Task, NEW shows, shows \subseteq cleared, NEW pull, SyncBoard(L, shows, pull),
         NEW lead, NEW prev, Leads(L, lead), Meets(L, shows, lead, prev)
  PROVE  /\ bore' \in [Task -> SUBSET Title] /\ \A c \in Task : bore[c] \subseteq bore'[c]
         /\ \A c \in L : Canon[title[c]] \in bore'[c]
         /\ \A c \in Task \ L : bore'[c] = bore[c]
         /\ Ledgers(bore', cleared, declared, given, solvedIds, externalKeys, stalledIds)
         /\ \A r \in rows : r.id \in Id /\ Now(r).id = r.id /\ Fine(bore', cleared, declared, given, Now(r))
         /\ \A g \in Names(L) : /\ lead[g] \in L /\ Canon[title[lead[g]]] = g
                                /\ MergedEntry(prev[g], EntryOf(L, shows, lead, g)).id = Ident(lead[g])
         /\ \A r \in MergedRows(L, shows, lead, prev) : Fine(bore', cleared, declared, given, r)
  <1>3. /\ UNCHANGED <<title, form, cleared, solvedIds, externalKeys, stalledIds, declared, given>>
        /\ bore' = [c \in Task |-> IF c \in L THEN bore[c] \cup {Canon[title[c]]} ELSE bore[c]]
        /\ seen' = [c \in Task |-> IF c \in L THEN [id |-> Ident(c), name |-> Canon[title[c]]] ELSE seen[c]]
    BY SyncBoardWrites
  <1>4. /\ title \in [Task -> Title] /\ form \in [Task -> Forms] /\ bore \in [Task -> SUBSET Title]
        /\ cleared \in SUBSET Task /\ declared \subseteq Task /\ given \subseteq Task
    BY DEF SyncInv
  <1>5. /\ bore' \in [Task -> SUBSET Title] /\ \A c \in Task : bore[c] \subseteq bore'[c]
        /\ \A c \in L : Canon[title[c]] \in bore'[c]
        /\ \A c \in Task \ L : bore'[c] = bore[c]
    BY <1>3, <1>4, BoardSyncAssumption
  <1>6. Ledgers(bore', cleared, declared, given, solvedIds, externalKeys, stalledIds)
    BY <1>4, <1>5, LedgersGrow DEF SyncInv
  <1>7. ASSUME NEW r, Fine(bore', cleared, declared, given, r)
        PROVE  Fine(bore', cleared, declared, given, Now(r)) /\ Now(r).id = r.id
    BY <1>6, <1>7, RuntimeFine DEF Now
  <1>8. ASSUME NEW r \in rows
        PROVE  Fine(bore', cleared, declared, given, Now(r)) /\ Now(r).id = r.id /\ r.id \in Id
    <2>1. Fine(bore, cleared, declared, given, r)
      BY DEF SyncInv
    <2>2. Fine(bore', cleared, declared, given, r)
      BY <1>4, <1>5, <2>1, FineGrows
    <2> QED
      BY <1>7, <2>1, <2>2 DEF Fine, RowType
  <1>9. \A r \in Before : Fine(bore', cleared, declared, given, r)
    BY <1>8 DEF Before
  <1>10. ASSUME NEW g \in Names(L)
         PROVE  /\ lead[g] \in L /\ Canon[title[lead[g]]] = g
                /\ Fine(bore', cleared, declared, given, MergedEntry(prev[g], EntryOf(L, shows, lead, g)))
                /\ MergedEntry(prev[g], EntryOf(L, shows, lead, g)).id = Ident(lead[g])
    <2>1. lead[g] \in L /\ Canon[title[lead[g]]] = g
      BY DEF Leads, Group
    <2>2. PICK e : e = EntryOf(L, shows, lead, g)
      OBVIOUS
    <2>3. Fine(bore', cleared, declared, given, e) /\ e.id = Ident(lead[g])
      <3>1. PICK l \in L : l = lead[g]
        BY <2>1
      <3>2. e = Entry(L, g, l, shows) /\ g = Canon[title[l]]
        BY <2>1, <2>2, <3>1 DEF EntryOf
      <3>3. Bears(bore', L)
        BY <1>4, <1>5 DEF Bears
      <3>4. Fine(bore', cleared, declared, given, Entry(L, Canon[title[l]], l, shows))
        BY <3>3, EntryFine
      <3>5. Entry(L, Canon[title[l]], l, shows).id = Ident(l)
        BY DEF Entry
      <3> QED
        BY <3>1, <3>2, <3>4, <3>5, Zenon
    <2>4. PICK p : p = prev[g]
      OBVIOUS
    <2>5. \/ p = BlankOf(e)
          \/ Fine(bore', cleared, declared, given, p) /\ Keys(p) \cap Keys(e) # {}
      BY <1>9, <2>2, <2>4, PreviousShares DEF Meets
    <2>6. Fine(bore', cleared, declared, given, MergedEntry(p, e)) /\ MergedEntry(p, e).id = e.id
      BY <1>5, <2>3, <2>5, MergedFine
    <2> QED
      BY <2>1, <2>2, <2>3, <2>4, <2>6
  <1>11. \A r \in MergedRows(L, shows, lead, prev) : Fine(bore', cleared, declared, given, r)
    BY <1>9, <1>10 DEF MergedRows, Preserved
  <1> QED
    BY <1>5, <1>6, <1>8, <1>10, <1>11

\* A sync: every row is true, and every task that was listed is behind one.
LEMMA SyncBoardKeeps ==
  ASSUME SyncInv, NEW L \in SUBSET Task, NEW shows, shows \subseteq cleared, NEW pull, pull \subseteq cleared,
         SyncBoard(L, shows, pull)
  PROVE  SyncInv'
  <1>1. PICK lead : \E prev :
          /\ Leads(L, lead) /\ Meets(L, shows, lead, prev)
          /\ rows' = {Now(r) : r \in Marked(MergedRows(L, shows, lead, prev), shows \cup pull)}
    BY SyncBoardWrites
  <1>2. PICK prev :
          /\ Leads(L, lead) /\ Meets(L, shows, lead, prev)
          /\ rows' = {Now(r) : r \in Marked(MergedRows(L, shows, lead, prev), shows \cup pull)}
    BY <1>1
  <1>a. PICK merged : merged = MergedRows(L, shows, lead, prev)
    OBVIOUS
  <1>3. /\ UNCHANGED <<title, form, cleared, solvedIds, externalKeys, stalledIds, declared, given>>
        /\ bore' = [c \in Task |-> IF c \in L THEN bore[c] \cup {Canon[title[c]]} ELSE bore[c]]
        /\ seen' = [c \in Task |-> IF c \in L THEN [id |-> Ident(c), name |-> Canon[title[c]]] ELSE seen[c]]
    BY SyncBoardWrites
  <1>4. /\ title \in [Task -> Title] /\ form \in [Task -> Forms] /\ bore \in [Task -> SUBSET Title]
        /\ cleared \in SUBSET Task /\ declared \subseteq Task /\ given \subseteq Task
    BY DEF SyncInv
  <1>b. Leads(L, lead) /\ Meets(L, shows, lead, prev)
    BY <1>2
  <1>5. /\ bore' \in [Task -> SUBSET Title] /\ \A c \in Task : bore[c] \subseteq bore'[c]
        /\ \A c \in L : Canon[title[c]] \in bore'[c]
        /\ \A c \in Task \ L : bore'[c] = bore[c]
        /\ Ledgers(bore', cleared, declared, given, solvedIds, externalKeys, stalledIds)
        /\ \A r \in rows : r.id \in Id /\ Now(r).id = r.id /\ Fine(bore', cleared, declared, given, Now(r))
        /\ \A g \in Names(L) : /\ lead[g] \in L /\ Canon[title[lead[g]]] = g
                               /\ MergedEntry(prev[g], EntryOf(L, shows, lead, g)).id = Ident(lead[g])
        /\ \A r \in MergedRows(L, shows, lead, prev) : Fine(bore', cleared, declared, given, r)
    BY <1>b, MergedRowsFine
  <1>7. ASSUME NEW r, Fine(bore', cleared, declared, given, r)
        PROVE  Fine(bore', cleared, declared, given, Now(r)) /\ Now(r).id = r.id
    BY <1>5, <1>7, RuntimeFine DEF Now
  <1>12. rows' = {Now(r) : r \in Marked(merged, shows \cup pull)}
    BY <1>2, <1>a
  <1>13. /\ \A n \in Marked(merged, shows \cup pull) : Fine(bore', cleared, declared, given, n)
         /\ \A r \in merged : \E n \in Marked(merged, shows \cup pull) : n.id = r.id
    BY <1>4, <1>5, <1>a, MarkedFine
  <1>14. /\ \A r \in rows' : Fine(bore', cleared, declared, given, r)
         /\ \A r \in merged : \E n \in rows' : n.id = r.id
    BY <1>7, <1>12, <1>13
  <1>15. ASSUME NEW S \in SUBSET Task, Closed(bore', S), NEW c \in S \ Shells, c \in L
         PROVE  \E r \in rows' : r.id[2] \in S \ Shells
    <2>1. PICK g : g = Canon[title[c]]
      OBVIOUS
    <2>2. g \in Names(L) /\ c \in Group(L, g)
      BY <1>15, <2>1 DEF Names, Group
    <2>3. lead[g] \notin Shells /\ lead[g] \in L /\ Canon[title[lead[g]]] = g
      BY <1>2, <1>5, <2>2 DEF Leads
    <2>4. lead[g] \in S
      BY <1>5, <1>15, <2>1, <2>3 DEF Closed
    <2>5. MergedEntry(prev[g], EntryOf(L, shows, lead, g)) \in merged /\ MergedEntry(prev[g], EntryOf(L, shows, lead, g)).id = Ident(lead[g])
      BY <1>5, <1>a, <2>2 DEF MergedRows
    <2>6. PICK n \in rows' : n.id = Ident(lead[g])
      BY <1>14, <2>5
    <2> QED
      BY <2>3, <2>4, <2>6 DEF Ident
  <1>16. ASSUME NEW S \in SUBSET Task, Closed(bore', S), NEW c \in S \ Shells, bore'[c] # {}
         PROVE  \E r \in rows' : r.id[2] \in S \ Shells
    <2>1. CASE c \in L
      BY <1>15, <1>16, <2>1
    <2>2. CASE c \notin L
      <3>1. Closed(bore, S)
        BY <1>4, <1>5, <1>16, Widened
      <3>2. bore[c] # {}
        BY <1>5, <1>16, <2>2
      <3>3. PICK r \in rows : r.id[2] \in S \ Shells
        BY <3>1, <3>2 DEF SyncInv, Covered
      <3>4. CASE r.id \notin MapIds(L)
        <4>1. Now(r) \in merged /\ Now(r).id = r.id
          BY <1>5, <1>a, <3>4 DEF MergedRows, Before, Preserved
        <4> QED
          BY <1>14, <3>3, <4>1
      <3>5. CASE r.id \in MapIds(L)
        <4>1. r.id[2] \in L
          BY <3>5 DEF MapIds, Ident, Slug
        <4> QED
          BY <1>15, <1>16, <3>3, <4>1
      <3> QED
        BY <3>4, <3>5
    <2> QED
      BY <2>1, <2>2
  <1>17. \A c \in Task : seen'[c] # Unseen => bore'[c] # {}
    <2>1. ASSUME NEW c \in Task, seen'[c] # Unseen PROVE bore'[c] # {}
      <3>1. CASE c \in L
        BY <1>5, <3>1
      <3>2. CASE c \notin L
        BY <1>3, <1>5, <2>1, <3>2 DEF SyncInv
      <3> QED
        BY <3>1, <3>2
    <2> QED
      BY <2>1
  <1> QED
    BY <1>3, <1>4, <1>5, <1>14, <1>16, <1>17 DEF SyncInv, Covered

\* A row whose task is told of stays true, and the ledgers with it: rows are read
\* again and written.
LEMMA RefreshKeeps ==
  ASSUME SyncInv, NEW C \in SUBSET Task, NEW D \in SUBSET Task, NEW G \in SUBSET Task,
         cleared \subseteq C, declared \subseteq D, given \subseteq G,
         cleared' = C, declared' = D, given' = G,
         Ledgers(bore, C, D, G, solvedIds', externalKeys', stalledIds'),
         Refreshed, UNCHANGED <<title, form, seen, bore>>
  PROVE  SyncInv'
  <1>1. bore \in [Task -> SUBSET Title]
    BY DEF SyncInv
  <1>2. ASSUME NEW r \in rows, NEW n, n = Runtime(r, solvedIds', externalKeys', stalledIds')
        PROVE  Fine(bore, C, D, G, n) /\ n.id = r.id
    <2>1. Fine(bore, cleared, declared, given, r)
      BY DEF SyncInv
    <2>2. Fine(bore, C, D, G, r)
      BY <1>1, <2>1, FineGrows
    <2> QED
      BY <1>2, <2>2, RuntimeFine
  <1>3. rows' = {Runtime(r, solvedIds', externalKeys', stalledIds') : r \in rows}
    BY DEF Refreshed
  <1>4. \A n \in rows' : Fine(bore, C, D, G, n)
    BY <1>2, <1>3
  <1>5. \A r \in rows : \E n \in rows' : n.id = r.id
    BY <1>2, <1>3
  <1>6. Covered(bore, rows')
    BY <1>5 DEF SyncInv, Covered
  <1> QED
    BY <1>4, <1>6 DEF SyncInv

\* The keys of a row are declared solved with its task.
LEMMA DeclareKeeps ==
  ASSUME SyncInv, NEW r \in rows
  PROVE  Ledgers(bore, cleared, declared \cup {r.id[2]}, given, solvedIds, externalKeys \cup Keys(r), stalledIds)
  <1>1. bore \in [Task -> SUBSET Title] /\ Fine(bore, cleared, declared, given, r)
        /\ Ledgers(bore, cleared, declared, given, solvedIds, externalKeys, stalledIds)
    BY DEF SyncInv
  <1>2. r.id[2] \in Task
    BY <1>1 DEF Fine, RowType, Id
  <1>3. Keys(r) \subseteq Tags(bore, Task)
    BY <1>1, <1>2, AllClosed DEF Fine, Sits
  <1>4. ASSUME NEW S \in SUBSET Task, Closed(bore, S), (externalKeys \cup Keys(r)) \cap Tags(bore, S) # {}
        PROVE  S \cap (declared \cup {r.id[2]}) # {}
    <2>1. CASE externalKeys \cap Tags(bore, S) # {}
      BY <1>1, <1>4, <2>1 DEF Ledgers
    <2>2. CASE Keys(r) \cap Tags(bore, S) # {}
      <3>1. r.id[2] \in S
        BY <1>1, <1>4, <2>2, KeyPlaces
      <3> QED
        BY <3>1
    <2> QED
      BY <1>4, <2>1, <2>2
  <1> QED
    BY <1>1, <1>3, <1>4 DEF Ledgers

\* What the operator tells the board.
LEMMA TellKeeps ==
  ASSUME SyncInv, Tell
  PROVE  SyncInv'
  <1>1. PICK r \in rows : Accept(r) \/ Declare(r) \/ GiveUp(r)
    BY DEF Tell
  <1>2. Refreshed /\ UNCHANGED <<title, form, seen, bore>>
    BY DEF Tell
  <1>3. /\ Fine(bore, cleared, declared, given, r)
        /\ Ledgers(bore, cleared, declared, given, solvedIds, externalKeys, stalledIds)
        /\ cleared \in SUBSET Task /\ declared \in SUBSET Task /\ given \in SUBSET Task
    BY DEF SyncInv
  <1>4. r.id \in Id /\ r.id[2] \in Task
    BY <1>3 DEF Fine, RowType, Id
  <1>5. CASE Accept(r)
    <2>1. /\ cleared' = cleared \cup {r.id[2]} /\ solvedIds' = solvedIds \cup {r.id}
          /\ UNCHANGED <<externalKeys, stalledIds, declared, given>>
      BY <1>5 DEF Accept
    <2>2. PICK C \in SUBSET Task : C = cleared \cup {r.id[2]}
      BY <1>3, <1>4
    <2>3. cleared' = C /\ cleared \subseteq C /\ UNCHANGED <<declared, given>>
          /\ Ledgers(bore, C, declared, given, solvedIds', externalKeys', stalledIds')
      BY <1>3, <1>4, <2>1, <2>2 DEF Ledgers
    <2> QED
      BY <1>2, <1>3, <2>3, RefreshKeeps
  <1>6. CASE Declare(r)
    <2>1. /\ declared' = declared \cup {r.id[2]} /\ externalKeys' = externalKeys \cup Keys(r)
          /\ UNCHANGED <<cleared, solvedIds, stalledIds, given>>
      BY <1>6 DEF Declare
    <2>2. Ledgers(bore, cleared, declared \cup {r.id[2]}, given, solvedIds', externalKeys', stalledIds')
      BY <2>1, DeclareKeeps
    <2>3. PICK D \in SUBSET Task : D = declared \cup {r.id[2]}
      BY <1>3, <1>4
    <2>4. declared' = D /\ declared \subseteq D /\ UNCHANGED <<cleared, given>>
          /\ Ledgers(bore, cleared, D, given, solvedIds', externalKeys', stalledIds')
      BY <2>1, <2>2, <2>3
    <2> QED
      BY <1>2, <1>3, <2>4, RefreshKeeps
  <1>7. CASE GiveUp(r)
    <2>1. /\ given' = given \cup {r.id[2]} /\ stalledIds' = stalledIds \cup {r.id}
          /\ UNCHANGED <<cleared, solvedIds, externalKeys, declared>>
      BY <1>7 DEF GiveUp
    <2>2. PICK G \in SUBSET Task : G = given \cup {r.id[2]}
      BY <1>3, <1>4
    <2>3. given' = G /\ given \subseteq G /\ UNCHANGED <<cleared, declared>>
          /\ Ledgers(bore, cleared, declared, G, solvedIds', externalKeys', stalledIds')
      BY <1>3, <1>4, <2>1, <2>2 DEF Ledgers
    <2> QED
      BY <1>2, <1>3, <2>3, RefreshKeeps
  <1> QED
    BY <1>1, <1>5, <1>6, <1>7

\* What the platform does.
LEMMA PlatformKeeps ==
  ASSUME SyncInv, Platform
  PROVE  SyncInv'
  <1>1. UNCHANGED <<rows, solvedIds, externalKeys, stalledIds, declared, given, seen, bore>>
    BY DEF Platform
  <1>2. title' \in [Task -> Title] /\ form' \in [Task -> Forms]
    BY DEF Platform, SyncInv, Forms
  <1>3. cleared' \in SUBSET Task /\ cleared \subseteq cleared'
    BY DEF Platform, SyncInv
  <1>4. bore \in [Task -> SUBSET Title] /\ Ledgers(bore, cleared, declared, given, solvedIds, externalKeys, stalledIds)
    BY DEF SyncInv
  <1>5. Ledgers(bore, cleared', declared, given, solvedIds, externalKeys, stalledIds)
    BY <1>3, <1>4, LedgersGrow
  <1>6. ASSUME NEW r \in rows PROVE Fine(bore, cleared', declared, given, r)
    BY <1>3, <1>4, FineGrows DEF SyncInv
  <1> QED
    BY <1>1, <1>2, <1>3, <1>5, <1>6 DEF SyncInv

\* The invariant holds before the first sync ...
LEMMA SyncInvInit == SyncInit => SyncInv
  <1> SUFFICES ASSUME SyncInit PROVE SyncInv
    OBVIOUS
  <1>1. title \in [Task -> Title] /\ form \in [Task -> Forms] /\ bore = [c \in Task |-> {}]
    BY BoardSyncAssumption DEF SyncInit, Forms
  <1>2. Ledgers(bore, cleared, declared, given, solvedIds, externalKeys, stalledIds)
    BY DEF SyncInit, Ledgers
  <1>3. Covered(bore, rows)
    BY <1>1 DEF Covered
  <1> QED
    BY <1>1, <1>2, <1>3 DEF SyncInit, SyncInv

\* ... and is kept by every step.
LEMMA SyncInvNext == SyncInv /\ [SyncNext]_syncVars => SyncInv'
  <1> SUFFICES ASSUME SyncInv, [SyncNext]_syncVars PROVE SyncInv'
    OBVIOUS
  <1>1. CASE Tell
    BY <1>1, TellKeeps
  <1>2. CASE Platform
    BY <1>2, PlatformKeeps
  <1>3. ASSUME NEW L \in SUBSET Task, NEW login \in BOOLEAN, NEW pull \in BOOLEAN,
               SyncBoard(L, Ticked(L, login), Pulled(pull))
        PROVE  SyncInv'
    <2>1. PICK shows : shows = Ticked(L, login)
      OBVIOUS
    <2>2. PICK more : more = Pulled(pull)
      OBVIOUS
    <2>3. shows \subseteq cleared /\ more \subseteq cleared /\ SyncBoard(L, shows, more)
      BY <1>3, <2>1, <2>2 DEF Ticked, Pulled
    <2> QED
      BY <2>3, SyncBoardKeeps
  <1>4. CASE UNCHANGED syncVars
    BY <1>4 DEF syncVars, SyncInv
  <1> QED
    BY <1>1, <1>2, <1>3, <1>4 DEF SyncNext

\* Every row of the board stands for the tasks it says it does, and is true of them.
THEOREM SyncInvariant == SyncSpec => []SyncInv
  BY SyncInvInit, SyncInvNext, PTL DEF SyncSpec

\* Type correctness of the rows of board.json and of the ledgers beside it.
THEOREM SyncTypes == SyncSpec => []SyncTypeOK
  <1>1. SyncInv => SyncTypeOK
    BY DEF SyncInv, Fine, Ledgers, RowType, RowMarks, SyncTypeOK
  <1> QED
    BY <1>1, SyncInvariant, PTL

\* Neither a row nor the stop condition claims more than was done, however tasks
\* are renamed, listed in part, merged and marked.
THEOREM BoardIsTruthful == SyncSpec => []BoardTruthful
  <1>1. SyncInv => BoardTruthful
    <2> SUFFICES ASSUME SyncInv PROVE SolvedIsReal /\ StopIsTrue
      BY DEF BoardTruthful
    <2>1. ASSUME NEW r \in rows
          PROVE  /\ r.id[2] \in Task
                 /\ Solved(r) => \E d \in Kin(r.id[2]) : d \in cleared \cup declared
                 /\ r.status = "stalled" => \E d \in Kin(r.id[2]) : d \in given
                 /\ r.shell = (r.id[2] \in Shells) /\ (r.status = "skipped" => r.shell)
      <3>1. Fine(bore, cleared, declared, given, r) /\ bore \in [Task -> SUBSET Title]
        BY DEF SyncInv
      <3>2. r.id[2] \in Task
        BY <3>1 DEF Fine, RowType, Id
      <3>3. Sits(bore, cleared, declared, given, r, Kin(r.id[2]))
        BY <3>1, <3>2, KinClosed DEF Fine
      <3> QED
        BY <3>1, <3>2, <3>3 DEF Sits, Fine
    <2>2. SolvedIsReal
      BY <2>1 DEF SolvedIsReal
    <2>3. ASSUME NEW c \in Task \ Shells, seen[c] # Unseen
          PROVE  \E r \in Work : r.id[2] \in Kin(c) /\ Kin(r.id[2]) \subseteq Kin(c)
      <3>1. bore \in [Task -> SUBSET Title] /\ bore[c] # {}
        BY <2>3 DEF SyncInv
      <3>2. c \in Kin(c) /\ Kin(c) \in SUBSET Task /\ Closed(bore, Kin(c))
        BY <3>1, KinClosed
      <3>3. PICK r \in rows : r.id[2] \in Kin(c) \ Shells
        BY <3>1, <3>2 DEF SyncInv, Covered
      <3>4. r \in Work
        BY <2>1, <3>3 DEF Work
      <3>5. Near(Kin(c)) \subseteq Kin(c)
        BY <3>2 DEF Near, Closed
      <3>6. Kin(r.id[2]) \subseteq Kin(c)
        BY <3>2, <3>3, <3>5 DEF Kin
      <3> QED
        BY <3>3, <3>4, <3>6
    <2>4. Work \subseteq rows
      BY DEF Work
    <2>5. ASSUME Completion = "all_solved", NEW c \in Task \ Shells, seen[c] # Unseen
          PROVE  \E d \in Kin(c) : d \in cleared \cup declared
      <3>1. PICK r \in Work : r.id[2] \in Kin(c) /\ Kin(r.id[2]) \subseteq Kin(c)
        BY <2>3, <2>5
      <3>2. Solved(r)
        BY <2>5 DEF Completion
      <3> QED
        BY <2>1, <2>4, <3>1, <3>2
    <2>6. ASSUME Completion = "all_solved_or_stalled", NEW c \in Task \ Shells, seen[c] # Unseen
          PROVE  \E d \in Kin(c) : d \in cleared \cup declared \cup given
      <3>1. PICK r \in Work : r.id[2] \in Kin(c) /\ Kin(r.id[2]) \subseteq Kin(c)
        BY <2>3, <2>6
      <3>2. Settled(r)
        BY <2>6 DEF Completion
      <3> QED
        BY <2>1, <2>4, <3>1, <3>2 DEF Settled
    <2>7. StopIsTrue
      BY <2>5, <2>6 DEF StopIsTrue
    <2> QED
      BY <2>2, <2>7
  <1> QED
    BY <1>1, SyncInvariant, PTL
-----------------------------------------------------------------------------
(* Under which id a task stands on the board.                              *)

\* The ids a task may go by.
Shown(c) == {<<f, c>> : f \in Forms}

\* Two states of a row that go by the same.
Same(n, r) == n.id = r.id /\ n.also = r.also /\ Keys(n) = Keys(r)

\* A row goes by its id among the others, its task was listed, and as long as the
\* task never changed its id the row has that id.
Placed(E, M, r) ==
  /\ r.id \in r.also /\ E[r.id[2]] # Unseen
  /\ M[r.id[2]] = "never" => r.id = E[r.id[2]].id

\* What rows b have of a task that shares no name: its one id if it never changed,
\* and beside the second one the first; and one of them is its own.
Stands(E, M, b, c) ==
  /\ M[c] = "never" => \A r \in b : Keys(r) \cap Shown(c) \subseteq {E[c].id}
  /\ M[c] = "once" => \A r \in b : E[c].id \in Keys(r) => Shown(c) \subseteq Keys(r)
  /\ E[c] # Unseen => \E r \in b : E[c].id \in Keys(r) /\ Named(E[c].name) \in Keys(r)

\* A solved id has only solved rows.
SolvedRows(b, V) == \A r \in b : Keys(r) \cap V # {} => Solved(r)

\* The ledger holds an id of a task whose flag was accepted, the present one if it
\* never changed.
PostedKnown ==
  \A c \in posted : /\ c \in Task /\ seen[c] # Unseen /\ Shown(c) \cap solvedIds # {}
                    /\ moved[c] = "never" => seen[c].id \in solvedIds

\* The inductive invariant of the ids, beside that of the rows.
StayInv ==
  /\ SyncInv
  /\ \A c \in Task : IF seen[c] = Unseen THEN moved[c] = "never" ELSE seen[c].id \in Shown(c)
  /\ \A r \in rows : Placed(seen, moved, r)
  /\ \A c \in Task : Closed(bore, {c}) => Stands(seen, moved, rows, c)
  /\ SolvedRows(rows, solvedIds)
  /\ PostedKnown
  /\ \A c \in listing : c \in Task /\ \E r \in rows : seen[c].id \in Keys(r)
-----------------------------------------------------------------------------
\* Reading a row changes neither its id nor what it goes by, and the ledger of
\* solved ids decides first.
LEMMA RuntimeSame ==
  ASSUME NEW r \in RowType, NEW V, NEW X, NEW Z, NEW n, n = Runtime(r, V, X, Z)
  PROVE  /\ n \in RowType /\ Same(n, r)
         /\ Keys(n) \cap V # {} => Solved(n)
  <1>1. n \in RowType /\ n.id = r.id /\ Keys(n) = Keys(r)
    BY RuntimeForm
  <1>2. n.also = r.also
    BY DEF Runtime, RowType
  <1>3. Keys(r) \cap V # {} => n.status = "solved"
    BY DEF Runtime, RowType
  <1> QED
    BY <1>1, <1>2, <1>3 DEF Same, Solved

\* Nor does a record of a solved task.
LEMMA MarkedSame ==
  ASSUME NEW b, b \subseteq RowType, NEW K
  PROVE  /\ Marked(b, K) \subseteq RowType
         /\ \A n \in Marked(b, K) : \E r \in b : Same(n, r)
         /\ \A r \in b : \E n \in Marked(b, K) : Same(n, r)
  <1> DEFINE hit == {CHOOSE r \in Best(b, Ident(d)) : TRUE : d \in {x \in K : Best(b, Ident(x)) # {}}}
             Mark(r) == IF r \in hit THEN [r EXCEPT !.plat = TRUE, !.status = IF r.ext THEN @ ELSE "solved"] ELSE r
  <1>1. Marked(b, K) = {Mark(r) : r \in b}
    BY DEF Marked, Filed
  <1> HIDE DEF hit
  <1>2. ASSUME NEW r \in b, NEW n, n = Mark(r) PROVE n \in RowType /\ Same(n, r)
    <2>1. r \in RowType
      OBVIOUS
    <2>2. CASE r \notin hit
      BY <1>2, <2>1, <2>2 DEF Same
    <2>3. CASE r \in hit
      <3>1. PICK st \in RowMarks : st = IF r.ext THEN r.status ELSE "solved"
        BY <2>1 DEF RowType, RowMarks
      <3>2. n = [r EXCEPT !.plat = TRUE, !.status = st]
        BY <1>2, <2>1, <2>3, <3>1 DEF RowType
      <3>3. n \in RowType /\ n.id = r.id /\ n.name = r.name /\ n.also = r.also
        BY <2>1, <3>2 DEF RowType
      <3> QED
        BY <3>3 DEF Same, Keys
    <2> QED
      BY <2>2, <2>3
  <1> HIDE DEF Mark
  <1> QED
    BY <1>1, <1>2

\* What is said of the ids holds of rows that go by the same.
LEMMA SameStands ==
  ASSUME NEW E, NEW M, NEW b, NEW a, NEW c,
         \A n \in a : \E r \in b : Same(n, r),
         \A r \in b : \E n \in a : Same(n, r)
  PROVE  /\ Stands(E, M, b, c) => Stands(E, M, a, c)
         /\ (\A r \in b : Placed(E, M, r)) => \A n \in a : Placed(E, M, n)
  BY DEF Same, Stands, Placed

\* A task that shares no name is alone in its group.
LEMMA AloneLeads ==
  ASSUME NEW B, NEW L, Bears(B, L), NEW c \in L, Closed(B, {c}), NEW d \in L, Canon[title[d]] = Canon[title[c]]
  PROVE  d = c
  BY DEF Bears, Closed

\* What a group goes by, merged with the row p.
LEMMA MergedKeys ==
  ASSUME NEW L, NEW g, NEW l, NEW shows, NEW p, NEW m, m = MergedEntry(p, Entry(L, g, l, shows)),
         l \in Group(L, g)
  PROVE  /\ m.id = Ident(l) /\ m.id \in m.also
         /\ p.also \subseteq Keys(m)
         /\ \A c \in Group(L, g) : Ident(c) \in Keys(m)
         /\ Named(Canon[title[l]]) \in Keys(m)
         /\ \A c \in Task : \A k \in Shown(c) : k \in Keys(m) =>
              k \in p.also \/ (c \in Group(L, g) /\ (k = Ident(c) \/ c # l))
  <1> DEFINE e == Entry(L, g, l, shows)
             o == {Ident(c) : c \in Group(L, g)} \cup UNION {Aliases(c) : c \in Group(L, g) \ {l}}
  <1>1. e.id = Ident(l) /\ e.name = title[l] /\ e.also = o
    BY DEF Entry
  <1>2. m.id = Ident(l) /\ m.name = title[l] /\ m.also = p.also \cup o
    BY <1>1 DEF MergedEntry, BothKeys, Entry
  <1>3. Keys(m) = {Ident(l), Named(title[l]), Named(Canon[title[l]])} \cup p.also \cup o
    BY <1>2 DEF Keys
  <1>4. ASSUME NEW c \in Task, NEW k \in Shown(c), k \in Keys(m), k \notin p.also
        PROVE  c \in Group(L, g) /\ (k = Ident(c) \/ c # l)
    <2>1. PICK f \in Forms : k = <<f, c>>
      BY <1>4 DEF Shown
    <2>2. k # Named(title[l]) /\ k # Named(Canon[title[l]])
      BY <2>1 DEF Named, Forms
    <2>3. k = Ident(l) \/ (\E d \in Group(L, g) : k = Ident(d)) \/ (\E d \in Group(L, g) \ {l} : k \in Aliases(d))
      BY <1>3, <1>4, <2>2
    <2>4. CASE k = Ident(l) \/ \E d \in Group(L, g) : k = Ident(d)
      BY <2>1, <2>4 DEF Ident
    <2>5. CASE \E d \in Group(L, g) \ {l} : k \in Aliases(d)
      <3>1. PICK d \in Group(L, g) \ {l} : k \in Aliases(d)
        BY <2>5
      <3>2. k = Ident(d) \/ k = Slug(d)
        BY <2>1, <3>1 DEF Aliases, Named, Forms
      <3> QED
        BY <2>1, <3>1, <3>2 DEF Ident, Slug
    <2> QED
      BY <2>3, <2>4, <2>5
  <1> HIDE DEF e
  <1> QED
    BY <1>2, <1>3, <1>4

\* The row a group is merged with has the key that was looked for first.
LEMMA PreviousFirst ==
  ASSUME NEW b, NEW e
  PROVE  /\ (\E r \in b : e.id \in Keys(r)) =>
              Previous(b, e) # {} /\ \A p \in Previous(b, e) : p \in b /\ e.id \in Keys(p)
         /\ (\A r \in b : e.id \notin Keys(r)) /\ (\E r \in b : Named(Canon[e.name]) \in Keys(r)) =>
              Previous(b, e) # {} /\ \A p \in Previous(b, e) : p \in b /\ Named(Canon[e.name]) \in Keys(p)
  <1> DEFINE with(K) == {r \in b : Keys(r) \cap K # {}}
  <1>1. with({e.id}) # {} => Previous(b, e) = with({e.id})
    BY DEF Previous
  <1>2. with({e.id}) = {} /\ with({Named(Canon[e.name])}) # {} => Previous(b, e) = with({Named(Canon[e.name])})
    BY DEF Previous
  <1> QED
    BY <1>1, <1>2

\* A key that stands for task c alone is of rows of c alone.
LEMMA OwnKey ==
  ASSUME NEW B \in [Task -> SUBSET Title], NEW C, NEW D, NEW G, NEW r, Fine(B, C, D, G, r),
         NEW c \in Task, Closed(B, {c}),
         NEW k \in Keys(r), k \in Tags(B, {c})
  PROVE  r.id[2] = c
  <1>1. PICK S \in SUBSET Task : S = {c}
    OBVIOUS
  <1>2. Closed(B, S) /\ k \in Tags(B, S)
    BY <1>1
  <1>3. r.id[2] \in S
    BY <1>2, KeyPlaces
  <1> QED
    BY <1>1, <1>3

\* The keys among the ids are of what stands beside the id.
LEMMA IdsBeside ==
  ASSUME NEW r, r.id \in r.also, NEW c, NEW k \in Shown(c), k \in Keys(r)
  PROVE  k \in r.also
  BY DEF Keys, Shown, Named, Forms

\* What a sync does to the names and ids, and what it makes of the rows there are.
LEMMA SyncFrame ==
  ASSUME StayInv, NEW L \in SUBSET Task, NEW shows, NEW pull, SyncBoard(L, shows, pull)
  PROVE  /\ Bears(bore', L) /\ title \in [Task -> Title] /\ form \in [Task -> Forms]
         /\ \A c \in Task : bore[c] \subseteq bore'[c]
         /\ \A c \in L : seen'[c].id = Ident(c) /\ seen'[c].name = Canon[title[c]]
         /\ \A c \in Task \ L : seen'[c] = seen[c]
         /\ \A c \in Task : moved'[c] = IF c \notin L \/ seen[c] = Unseen \/ seen[c].id = Ident(c) THEN moved[c]
                                        ELSE IF moved[c] = "never" /\ seen[c].name = Canon[title[c]] THEN "once"
                                        ELSE "lost"
         /\ listing' = L /\ UNCHANGED <<posted, solvedIds>>
         /\ \A r \in Before : r \in RowType /\ Fine(bore', cleared, declared, given, r)
         /\ \A n \in Before : \E r \in rows : Same(n, r)
         /\ \A r \in rows : \E n \in Before : Same(n, r)
  <1>1. /\ bore' = [c \in Task |-> IF c \in L THEN bore[c] \cup {Canon[title[c]]} ELSE bore[c]]
        /\ seen' = [c \in Task |-> IF c \in L THEN [id |-> Ident(c), name |-> Canon[title[c]]] ELSE seen[c]]
    BY SyncBoardWrites
  <1>2. /\ moved' = [c \in Task |->
             IF c \notin L \/ seen[c] = Unseen \/ seen[c].id = Ident(c) THEN moved[c]
             ELSE IF moved[c] = "never" /\ seen[c].name = Canon[title[c]] THEN "once" ELSE "lost"]
        /\ listing' = L /\ UNCHANGED <<posted, solvedIds>>
    BY Zenon DEF SyncBoard
  <1>3. /\ title \in [Task -> Title] /\ form \in [Task -> Forms] /\ bore \in [Task -> SUBSET Title]
        /\ \A r \in rows : Fine(bore, cleared, declared, given, r)
        /\ Ledgers(bore, cleared, declared, given, solvedIds, externalKeys, stalledIds)
    BY DEF StayInv, SyncInv
  <1>4. bore' \in [Task -> SUBSET Title] /\ \A c \in Task : bore[c] \subseteq bore'[c]
    BY <1>1, <1>3, BoardSyncAssumption
  <1>5. Bears(bore', L)
    BY <1>1, <1>3, <1>4 DEF Bears
  <1>6. Ledgers(bore', cleared, declared, given, solvedIds, externalKeys, stalledIds)
    BY <1>3, <1>4, LedgersGrow
  <1>7. ASSUME NEW r \in rows
        PROVE  Now(r) \in RowType /\ Same(Now(r), r) /\ Fine(bore', cleared, declared, given, Now(r))
    <2>0. Fine(bore', cleared, declared, given, r)
      BY <1>3, <1>4, FineGrows
    <2>1. Fine(bore', cleared, declared, given, r) /\ r \in RowType
      BY <2>0 DEF Fine
    <2>2. Fine(bore', cleared, declared, given, Now(r))
      BY <1>6, <2>1, RuntimeFine DEF Now
    <2>3. Now(r) \in RowType /\ Same(Now(r), r)
      BY <2>1, RuntimeSame DEF Now
    <2> QED
      BY <2>2, <2>3
  <1>8. \A n \in Before : \E r \in rows : n = Now(r)
    BY DEF Before
  <1>9. \A r \in rows : Now(r) \in Before
    BY DEF Before
  <1>10. /\ \A c \in L : seen'[c].id = Ident(c) /\ seen'[c].name = Canon[title[c]]
         /\ \A c \in Task \ L : seen'[c] = seen[c]
    BY <1>1
  <1>11. \A c \in Task : moved'[c] = IF c \notin L \/ seen[c] = Unseen \/ seen[c].id = Ident(c) THEN moved[c]
                                     ELSE IF moved[c] = "never" /\ seen[c].name = Canon[title[c]] THEN "once"
                                     ELSE "lost"
    BY <1>2
  <1>12. /\ \A r \in Before : r \in RowType /\ Fine(bore', cleared, declared, given, r)
         /\ \A n \in Before : \E r \in rows : Same(n, r)
         /\ \A r \in rows : \E n \in Before : Same(n, r)
    BY <1>7, <1>8, <1>9
  <1> QED
    BY <1>2, <1>3, <1>4, <1>5, <1>10, <1>11, <1>12

\* The rows that are made of those found and of the listing stand where they should.
LEMMA MergedStands ==
  ASSUME StayInv, NEW L \in SUBSET Task, NEW shows, NEW pull, SyncBoard(L, shows, pull),
         NEW lead, NEW prev, Leads(L, lead), Meets(L, shows, lead, prev),
         NEW merged, merged = MergedRows(L, shows, lead, prev)
  PROVE  /\ \A r \in merged : Placed(seen', moved', r)
         /\ \A c \in Task : Closed(bore', {c}) => Stands(seen', moved', merged, c)
         /\ \A c \in L : \E r \in merged : seen'[c].id \in Keys(r)
  <1> DEFINE entry(g) == EntryOf(L, shows, lead, g)
             made(g)  == MergedEntry(prev[g], entry(g))
  <1>1. /\ Bears(bore', L) /\ title \in [Task -> Title] /\ form \in [Task -> Forms]
        /\ \A c \in Task : bore[c] \subseteq bore'[c]
        /\ \A c \in L : seen'[c].id = Ident(c) /\ seen'[c].name = Canon[title[c]]
        /\ \A c \in Task \ L : seen'[c] = seen[c]
        /\ \A c \in Task : moved'[c] = IF c \notin L \/ seen[c] = Unseen \/ seen[c].id = Ident(c) THEN moved[c]
                                       ELSE IF moved[c] = "never" /\ seen[c].name = Canon[title[c]] THEN "once"
                                       ELSE "lost"
        /\ \A r \in Before : r \in RowType /\ Fine(bore', cleared, declared, given, r)
        /\ \A n \in Before : \E r \in rows : Same(n, r)
        /\ \A r \in rows : \E n \in Before : Same(n, r)
    BY SyncFrame
  <1>2. /\ \A r \in Before : Placed(seen, moved, r)
        /\ \A c \in Task : Closed(bore, {c}) => Stands(seen, moved, Before, c)
        /\ \A c \in Task : IF seen[c] = Unseen THEN moved[c] = "never" ELSE seen[c].id \in Shown(c)
    BY <1>1, SameStands DEF StayInv
  <1>3. ASSUME NEW c \in Task PROVE Ident(c) \in Shown(c) /\ Ident(c)[2] = c /\ Slug(c)[2] = c
    BY <1>1 DEF Shown, Ident, Slug
  <1>4. ASSUME NEW g \in Names(L)
        PROVE  /\ lead[g] \in L /\ lead[g] \in Group(L, g) /\ Canon[title[lead[g]]] = g
               /\ made(g).id = Ident(lead[g]) /\ made(g).id \in made(g).also
               /\ prev[g].also \subseteq Keys(made(g))
               /\ \A c \in Group(L, g) : Ident(c) \in Keys(made(g))
               /\ Named(g) \in Keys(made(g))
               /\ \A c \in Task : \A k \in Shown(c) : k \in Keys(made(g)) =>
                    k \in prev[g].also \/ (c \in Group(L, g) /\ (k = Ident(c) \/ c # lead[g]))
               /\ entry(g).id = Ident(lead[g]) /\ Named(Canon[entry(g).name]) = Named(g)
               /\ prev[g].also = {} \/ prev[g] \in Before
    <2>1. lead[g] \in L /\ lead[g] \in Group(L, g) /\ Canon[title[lead[g]]] = g
      BY DEF Leads, Group
    <2>2. made(g) = MergedEntry(prev[g], Entry(L, g, lead[g], shows))
      BY DEF EntryOf
    <2>3. /\ made(g).id = Ident(lead[g]) /\ made(g).id \in made(g).also
          /\ prev[g].also \subseteq Keys(made(g))
          /\ \A c \in Group(L, g) : Ident(c) \in Keys(made(g))
          /\ Named(Canon[title[lead[g]]]) \in Keys(made(g))
          /\ \A c \in Task : \A k \in Shown(c) : k \in Keys(made(g)) =>
               k \in prev[g].also \/ (c \in Group(L, g) /\ (k = Ident(c) \/ c # lead[g]))
      BY <2>1, <2>2, MergedKeys
    <2>4. entry(g).id = Ident(lead[g]) /\ entry(g).name = title[lead[g]]
      BY DEF EntryOf, Entry
    <2>5. BlankOf(entry(g)).also = {}
      BY DEF BlankOf, EntryOf, Entry
    <2>6. prev[g].also = {} \/ prev[g] \in Before
      BY <2>5, PreviousShares DEF Meets
    <2> QED
      BY <2>1, <2>3, <2>4, <2>6
  <1>5. ASSUME NEW r \in merged
        PROVE  (\E g \in Names(L) : r = made(g)) \/ (r \in Before /\ r.id \notin MapIds(L))
    BY DEF MergedRows, Preserved
  <1>6. /\ \A g \in Names(L) : made(g) \in merged
        /\ \A r \in Before : r.id \notin MapIds(L) => r \in merged
    BY DEF MergedRows, Preserved
  <1>7. \A c \in L : Canon[title[c]] \in Names(L) /\ c \in Group(L, Canon[title[c]])
    BY DEF Names, Group
  <1> HIDE DEF entry, made
  \* What is on the board of a task under another row than its own group's is from a row found.
  <1>8. ASSUME NEW r \in merged, NEW c \in Task, NEW k \in Shown(c), k \in Keys(r),
               \A g \in Names(L) : r = made(g) => c \notin Group(L, g)
        PROVE  \E p \in Before : k \in Keys(p) /\ Keys(p) \cap Shown(c) \subseteq Keys(r)
    <2>1. CASE r \in Before
      BY <1>8, <2>1
    <2>2. CASE \E g \in Names(L) : r = made(g)
      <3>1. PICK g \in Names(L) : r = made(g)
        BY <2>2
      <3>2. k \in prev[g].also
        BY <1>4, <1>8, <3>1
      <3>3. prev[g] \in Before /\ prev[g].also \subseteq Keys(prev[g])
        BY <1>4, <3>2 DEF Keys
      <3>4. \A j \in Shown(c) : j \in Keys(prev[g]) => j \in prev[g].also
        BY <1>2, <3>3, IdsBeside DEF Placed
      <3> QED
        BY <1>4, <3>1, <3>2, <3>3, <3>4
    <2> QED
      BY <1>5, <2>1, <2>2
  <1>9. ASSUME NEW r \in merged PROVE Placed(seen', moved', r)
    <2>1. CASE \E g \in Names(L) : r = made(g)
      <3>1. PICK g \in Names(L) : r = made(g)
        BY <2>1
      <3>2. PICK l \in L : l = lead[g]
        BY <1>4
      <3>3. r.id = Ident(l) /\ r.id \in r.also /\ r.id[2] = l
        BY <1>3, <1>4, <3>1, <3>2
      <3>4. seen'[l].id = Ident(l)
        BY <1>1
      <3>5. Ident(l) # <<"none">>
        BY <1>1 DEF Ident, Forms
      <3> QED
        BY <3>3, <3>4, <3>5 DEF Placed, Unseen
    <2>2. CASE r \in Before /\ r.id \notin MapIds(L)
      <3>1. PICK c \in Task : c = r.id[2]
        BY <1>1, <2>2 DEF RowType, Id
      <3>2. r.id \in r.also /\ seen[c] # Unseen /\ (moved[c] = "never" => r.id = seen[c].id)
        BY <1>2, <2>2, <3>1 DEF Placed
      <3>3. CASE c \in L
        <4>1. r.id # Ident(c)
          BY <2>2, <3>3 DEF MapIds
        <4>2. seen'[c].id = Ident(c) /\ Ident(c) # <<"none">>
          BY <1>1, <3>3 DEF Ident, Forms
        <4>3. moved'[c] # "never"
          BY <1>1, <3>2, <3>3, <4>1
        <4> QED
          BY <3>1, <3>2, <4>2, <4>3 DEF Placed, Unseen
      <3>4. CASE c \notin L
        BY <1>1, <3>1, <3>2, <3>4 DEF Placed
      <3> QED
        BY <3>3, <3>4
    <2> QED
      BY <1>5, <2>1, <2>2
  <1>10. ASSUME NEW c \in Task, Closed(bore', {c}) PROVE Stands(seen', moved', merged, c)
    <2>1. Closed(bore, {c}) /\ bore' \in [Task -> SUBSET Title]
      BY <1>1, <1>10 DEF Closed, Bears
    <2>2. /\ moved[c] = "never" => \A r \in Before : Keys(r) \cap Shown(c) \subseteq {seen[c].id}
          /\ moved[c] = "once" => \A r \in Before : seen[c].id \in Keys(r) => Shown(c) \subseteq Keys(r)
          /\ seen[c] # Unseen => \E r \in Before : seen[c].id \in Keys(r) /\ Named(seen[c].name) \in Keys(r)
      BY <1>2, <2>1 DEF Stands
    <2>3. ASSUME NEW r \in Before, NEW k \in Keys(r), k \in Tags(bore', {c}) PROVE r.id[2] = c
      BY <1>1, <1>10, <2>1, <2>3, OwnKey
    <2>4. Shown(c) \subseteq Tags(bore', {c})
      BY DEF Shown, Tags
    <2>5. CASE c \notin L
      <3>1. seen'[c] = seen[c] /\ moved'[c] = moved[c]
        BY <1>1, <2>5
      <3>2. ASSUME NEW r \in merged, NEW k \in Shown(c), k \in Keys(r)
            PROVE  \E p \in Before : k \in Keys(p) /\ Keys(p) \cap Shown(c) \subseteq Keys(r)
        BY <1>8, <2>5, <3>2 DEF Group
      <3>3. moved[c] = "never" => \A r \in merged : Keys(r) \cap Shown(c) \subseteq {seen[c].id}
        BY <2>2, <3>2
      <3>4. moved[c] = "once" => \A r \in merged : seen[c].id \in Keys(r) => Shown(c) \subseteq Keys(r)
        <4>1. SUFFICES ASSUME moved[c] = "once", NEW r \in merged, seen[c].id \in Keys(r)
                       PROVE  Shown(c) \subseteq Keys(r)
          OBVIOUS
        <4>2. seen[c].id \in Shown(c)
          BY <1>2, <4>1
        <4> QED
          BY <2>2, <3>2, <4>1, <4>2
      <3>5. ASSUME seen[c] # Unseen
            PROVE  \E r \in merged : seen[c].id \in Keys(r) /\ Named(seen[c].name) \in Keys(r)
        <4>1. PICK r \in Before : seen[c].id \in Keys(r) /\ Named(seen[c].name) \in Keys(r)
          BY <2>2, <3>5
        <4>2. r.id[2] = c
          BY <1>2, <2>3, <2>4, <3>5, <4>1
        <4>3. r.id \notin MapIds(L)
          BY <2>5, <4>2 DEF MapIds, Ident, Slug
        <4> QED
          BY <1>6, <4>1, <4>3
      <3> QED
        BY <3>1, <3>3, <3>4, <3>5 DEF Stands
    <2>6. CASE c \in L
      <3>1. PICK g \in Names(L) : g = Canon[title[c]] /\ c \in Group(L, g)
        BY <1>7, <2>6
      <3>2. \A d \in Group(L, g) : d = c
        BY <1>1, <1>10, <2>6, <3>1, AloneLeads DEF Group
      <3>3. lead[g] = c
        BY <1>4, <3>2
      <3>4. /\ made(g) \in merged /\ Ident(c) \in Keys(made(g)) /\ Named(g) \in Keys(made(g))
            /\ entry(g).id = Ident(c) /\ Named(Canon[entry(g).name]) = Named(g)
        BY <1>4, <1>6, <3>1, <3>3
      <3>5. seen'[c].id = Ident(c) /\ seen'[c].name = g
        BY <1>1, <2>6, <3>1
      <3>6. ASSUME NEW r \in merged, r # made(g), NEW k \in Shown(c), k \in Keys(r)
            PROVE  \E p \in Before : k \in Keys(p) /\ Keys(p) \cap Shown(c) \subseteq Keys(r)
        <4>1. \A h \in Names(L) : r = made(h) => c \notin Group(L, h)
          BY <3>1, <3>6 DEF Group
        <4> QED
          BY <1>8, <3>6, <4>1
      <3>7. ASSUME NEW k \in Shown(c), k \in Keys(made(g)), k # Ident(c)
            PROVE  prev[g] \in Before /\ k \in Keys(prev[g])
        BY <1>4, <3>3, <3>7 DEF Keys
      <3>8. CASE seen[c] = Unseen
        <4>1. moved[c] = "never" /\ moved'[c] = "never"
          BY <1>1, <1>2, <3>8
        <4>2. ASSUME NEW r \in Before, NEW k \in Shown(c), k \in Keys(r) PROVE FALSE
          BY <1>2, <2>3, <2>4, <3>8, <4>2 DEF Placed
        <4>3. \A r \in merged : Keys(r) \cap Shown(c) \subseteq {Ident(c)}
          BY <3>6, <3>7, <4>2
        <4> QED
          BY <3>4, <3>5, <4>1, <4>3 DEF Stands
      <3>9. CASE seen[c] # Unseen /\ seen[c].id = Ident(c)
        <4>1. moved'[c] = moved[c]
          BY <1>1, <3>9
        <4>2. prev[g] \in Before /\ Ident(c) \in Keys(prev[g])
          BY <2>2, <3>4, <3>9, PreviousFirst DEF Meets, entry
        <4>3. moved[c] = "never" => \A r \in merged : Keys(r) \cap Shown(c) \subseteq {Ident(c)}
          BY <2>2, <3>6, <3>7, <3>9
        <4>4. ASSUME moved[c] = "once", NEW r \in merged, Ident(c) \in Keys(r) PROVE Shown(c) \subseteq Keys(r)
          <5>1. CASE r = made(g)
            <6>1. Shown(c) \subseteq Keys(prev[g])
              BY <2>2, <3>9, <4>2, <4>4
            <6>2. Shown(c) \subseteq prev[g].also
              BY <1>2, <4>2, <6>1, IdsBeside DEF Placed
            <6> QED
              BY <1>4, <5>1, <6>2
          <5>2. CASE r # made(g)
            BY <1>3, <2>2, <3>6, <3>9, <4>4, <5>2
          <5> QED
            BY <5>1, <5>2
        <4> QED
          BY <3>4, <3>5, <4>1, <4>3, <4>4 DEF Stands
      <3>10. CASE seen[c] # Unseen /\ seen[c].id # Ident(c)
        <4>1. CASE moved[c] = "never" /\ seen[c].name = g
          <5>1. moved'[c] = "once"
            BY <1>1, <2>6, <3>1, <3>10, <4>1
          <5>2. \A r \in Before : Ident(c) \notin Keys(r)
            BY <1>3, <2>2, <3>10, <4>1
          <5>3. \E r \in Before : Named(g) \in Keys(r)
            BY <2>2, <3>10, <4>1
          <5>4. prev[g] \in Before /\ Named(g) \in Keys(prev[g])
            BY <3>4, <5>2, <5>3, PreviousFirst DEF Meets, entry
          <5>5. Named(g) \in Tags(bore', {c})
            <6>1. g \in Title /\ Canon[g] = g
              BY <1>1, <3>1, BoardSyncAssumption
            <6>2. g \in bore'[c]
              BY <1>1, <2>6, <3>1 DEF Bears
            <6> QED
              BY <6>1, <6>2 DEF Tags
          <5>6. prev[g].id[2] = c
            BY <2>3, <5>4, <5>5
          <5>7. prev[g].id = seen[c].id /\ prev[g].id \in prev[g].also
            BY <1>2, <4>1, <5>4, <5>6 DEF Placed
          <5>8. seen[c].id \in Keys(made(g))
            BY <1>4, <5>7
          <5>9. Shown(c) \subseteq Keys(made(g))
            <6>1. Shown(c) = {seen[c].id, Ident(c)}
              BY <1>2, <1>3, <3>10 DEF Shown, Forms
            <6> QED
              BY <3>4, <5>8, <6>1
          <5>10. \A r \in merged : Ident(c) \in Keys(r) => r = made(g)
            BY <1>3, <3>6, <5>2
          <5> QED
            BY <3>4, <3>5, <5>1, <5>9, <5>10 DEF Stands
        <4>2. CASE ~(moved[c] = "never" /\ seen[c].name = g)
          <5>1. moved'[c] = "lost"
            BY <1>1, <2>6, <3>1, <3>10, <4>2
          <5> QED
            BY <3>4, <3>5, <5>1 DEF Stands
        <4> QED
          BY <4>1, <4>2
      <3> QED
        BY <3>8, <3>9, <3>10
    <2> QED
      BY <2>5, <2>6
  <1>11. ASSUME NEW c \in L PROVE \E r \in merged : seen'[c].id \in Keys(r)
    BY <1>1, <1>4, <1>6, <1>7
  <1> QED
    BY <1>9, <1>10, <1>11

\* A sync keeps the invariant of the ids.
LEMMA SyncBoardStays ==
  ASSUME StayInv, NEW L \in SUBSET Task, NEW shows, shows \subseteq cleared, NEW pull, pull \subseteq cleared,
         SyncBoard(L, shows, pull)
  PROVE  StayInv'
  <1>1. PICK lead : \E prev :
          /\ Leads(L, lead) /\ Meets(L, shows, lead, prev)
          /\ rows' = {Now(r) : r \in Marked(MergedRows(L, shows, lead, prev), shows \cup pull)}
    BY SyncBoardWrites
  <1>2. PICK prev :
          /\ Leads(L, lead) /\ Meets(L, shows, lead, prev)
          /\ rows' = {Now(r) : r \in Marked(MergedRows(L, shows, lead, prev), shows \cup pull)}
    BY <1>1
  <1>3. PICK merged : merged = MergedRows(L, shows, lead, prev)
    OBVIOUS
  <1>4. SyncInv /\ SyncInv'
    BY SyncBoardKeeps DEF StayInv
  <1>5. /\ \A r \in merged : Placed(seen', moved', r)
        /\ \A c \in Task : Closed(bore', {c}) => Stands(seen', moved', merged, c)
        /\ \A c \in L : \E r \in merged : seen'[c].id \in Keys(r)
    BY <1>2, <1>3, MergedStands
  <1>6. merged \subseteq RowType
    BY <1>2, <1>3, <1>4, MergedRowsFine DEF Fine
  <1>7. PICK marked : marked = Marked(merged, shows \cup pull)
    OBVIOUS
  <1>8. /\ marked \subseteq RowType
        /\ \A n \in marked : \E r \in merged : Same(n, r)
        /\ \A r \in merged : \E n \in marked : Same(n, r)
    BY <1>6, <1>7, MarkedSame
  <1>9. ASSUME NEW r \in marked
        PROVE  Same(Now(r), r) /\ (Keys(Now(r)) \cap solvedIds # {} => Solved(Now(r)))
    BY <1>8, RuntimeSame DEF Now
  <1>10. rows' = {Now(r) : r \in marked}
    BY <1>2, <1>3, <1>7
  <1>11. /\ \A n \in rows' : \E r \in merged : Same(n, r)
         /\ \A r \in merged : \E n \in rows' : Same(n, r)
    BY <1>8, <1>9, <1>10 DEF Same
  <1>12. /\ \A c \in L : seen'[c].id = Ident(c) /\ seen'[c].name = Canon[title[c]]
         /\ \A c \in Task \ L : seen'[c] = seen[c]
         /\ \A c \in Task : moved'[c] = IF c \notin L \/ seen[c] = Unseen \/ seen[c].id = Ident(c) THEN moved[c]
                                        ELSE IF moved[c] = "never" /\ seen[c].name = Canon[title[c]] THEN "once"
                                        ELSE "lost"
         /\ listing' = L /\ UNCHANGED <<posted, solvedIds>> /\ form \in [Task -> Forms]
    BY SyncFrame
  <1>13. \A r \in rows' : Placed(seen', moved', r)
    BY <1>5, <1>11, SameStands
  <1>14. \A c \in Task : Closed(bore', {c}) => Stands(seen', moved', rows', c)
    BY <1>5, <1>11, SameStands
  <1>15. SolvedRows(rows', solvedIds')
    BY <1>9, <1>10, <1>12 DEF SolvedRows
  <1>16. ASSUME NEW c \in L PROVE seen'[c] # Unseen /\ seen'[c].id \in Shown(c)
    <2>1. Ident(c) \in Shown(c) /\ Ident(c) # <<"none">>
      BY <1>12 DEF Ident, Shown, Forms
    <2> QED
      BY <1>12, <2>1 DEF Unseen
  <1>17. \A c \in Task : IF seen'[c] = Unseen THEN moved'[c] = "never" ELSE seen'[c].id \in Shown(c)
    BY <1>12, <1>16 DEF StayInv
  <1>18. ASSUME NEW c \in posted
         PROVE  /\ c \in Task /\ seen'[c] # Unseen /\ Shown(c) \cap solvedIds # {}
                /\ moved'[c] = "never" => seen'[c].id \in solvedIds
    <2>1. /\ c \in Task /\ seen[c] # Unseen /\ Shown(c) \cap solvedIds # {}
          /\ moved[c] = "never" => seen[c].id \in solvedIds
      BY DEF StayInv, PostedKnown
    <2>2. CASE c \notin L
      BY <1>12, <2>1, <2>2
    <2>3. CASE c \in L
      <3>1. moved'[c] = "never" => moved[c] = "never" /\ seen'[c].id = seen[c].id
        BY <1>12, <2>1, <2>3
      <3> QED
        BY <1>16, <2>1, <2>3, <3>1
    <2> QED
      BY <2>2, <2>3
  <1>19. PostedKnown'
    BY <1>12, <1>18 DEF PostedKnown
  <1>20. \A c \in listing' : c \in Task /\ \E r \in rows' : seen'[c].id \in Keys(r)
    BY <1>5, <1>11, <1>12 DEF Same
  <1> QED
    BY <1>4, <1>13, <1>14, <1>15, <1>17, <1>19, <1>20 DEF StayInv

\* So does what the operator tells the board, ...
LEMMA TellStays ==
  ASSUME StayInv, Tell
  PROVE  StayInv'
  <1>1. SyncInv /\ SyncInv'
    BY TellKeeps DEF StayInv
  <1>2. PICK r \in rows : Accept(r) \/ Declare(r) \/ GiveUp(r)
    BY DEF Tell
  <1>3. Refreshed /\ UNCHANGED <<listing, seen, bore, moved>>
    BY DEF Tell
  <1>4. rows \subseteq RowType
    BY <1>1 DEF SyncInv, Fine
  <1>5. ASSUME NEW q \in rows, NEW n, n = Runtime(q, solvedIds', externalKeys', stalledIds')
        PROVE  Same(n, q) /\ (Keys(n) \cap solvedIds' # {} => Solved(n))
    BY <1>4, <1>5, RuntimeSame
  <1>6. rows' = {Runtime(q, solvedIds', externalKeys', stalledIds') : q \in rows}
    BY <1>3 DEF Refreshed
  <1>7. /\ \A n \in rows' : \E q \in rows : Same(n, q)
        /\ \A q \in rows : \E n \in rows' : Same(n, q)
        /\ SolvedRows(rows', solvedIds')
    BY <1>5, <1>6 DEF SolvedRows
  <1>8. /\ \A n \in rows' : Placed(seen, moved, n)
        /\ \A c \in Task : Closed(bore, {c}) => Stands(seen, moved, rows', c)
    BY <1>7, SameStands DEF StayInv
  <1>9. r.id \in Shown(r.id[2]) /\ r.id[2] \in Task /\ Placed(seen, moved, r)
    BY <1>4 DEF StayInv, RowType, Id, Shown, Forms
  <1>10. CASE Accept(r)
    <2>1. posted' = posted \cup {r.id[2]} /\ solvedIds' = solvedIds \cup {r.id}
      BY <1>10 DEF Accept
    <2>2. PostedKnown'
      BY <1>3, <1>9, <2>1 DEF StayInv, PostedKnown, Placed
    <2> QED
      BY <1>1, <1>3, <1>7, <1>8, <2>2 DEF StayInv, Same
  <1>11. CASE Declare(r) \/ GiveUp(r)
    <2>1. UNCHANGED <<posted, solvedIds>>
      BY <1>11 DEF Declare, GiveUp
    <2>2. PostedKnown'
      BY <1>3, <2>1 DEF StayInv, PostedKnown
    <2> QED
      BY <1>1, <1>3, <1>7, <1>8, <2>2 DEF StayInv, Same
  <1> QED
    BY <1>2, <1>10, <1>11

\* ... and what the platform does.
LEMMA PlatformStays ==
  ASSUME StayInv, Platform
  PROVE  StayInv'
  <1>1. SyncInv'
    BY PlatformKeeps DEF StayInv
  <1>2. UNCHANGED <<rows, solvedIds, posted, listing, seen, bore, moved>>
    BY DEF Platform
  <1> QED
    BY <1>1, <1>2 DEF StayInv, PostedKnown

\* The invariant of the ids holds before the first sync ...
LEMMA StayInvInit == SyncInit => StayInv
  <1> SUFFICES ASSUME SyncInit PROVE StayInv
    OBVIOUS
  <1>1. SyncInv
    BY SyncInvInit
  <1>2. /\ rows = {} /\ posted = {} /\ listing = {}
        /\ seen = [c \in Task |-> Unseen] /\ moved = [c \in Task |-> "never"]
    BY DEF SyncInit
  <1> QED
    BY <1>1, <1>2 DEF StayInv, Stands, SolvedRows, PostedKnown

\* ... and is kept by every step.
LEMMA StayInvNext == StayInv /\ [SyncNext]_syncVars => StayInv'
  <1> SUFFICES ASSUME StayInv, [SyncNext]_syncVars PROVE StayInv'
    OBVIOUS
  <1>1. CASE Tell
    BY <1>1, TellStays
  <1>2. CASE Platform
    BY <1>2, PlatformStays
  <1>3. ASSUME NEW L \in SUBSET Task, NEW login \in BOOLEAN, NEW pull \in BOOLEAN,
               SyncBoard(L, Ticked(L, login), Pulled(pull))
        PROVE  StayInv'
    <2>1. PICK shows : shows = Ticked(L, login)
      OBVIOUS
    <2>2. PICK more : more = Pulled(pull)
      OBVIOUS
    <2>3. shows \subseteq cleared /\ more \subseteq cleared /\ SyncBoard(L, shows, more)
      BY <1>3, <2>1, <2>2 DEF Ticked, Pulled
    <2> QED
      BY <2>3, SyncBoardStays
  <1>4. CASE UNCHANGED syncVars
    <2>1. SyncInv'
      BY <1>4, SyncInvNext DEF StayInv
    <2> QED
      BY <1>4, <2>1 DEF syncVars, StayInv, PostedKnown
  <1> QED
    BY <1>1, <1>2, <1>3, <1>4 DEF SyncNext

\* Every task of the board stands under the ids it was listed with.
THEOREM StayInvariant == SyncSpec => []StayInv
  BY StayInvInit, StayInvNext, PTL DEF SyncSpec

\* A flag the board had accepted is never asked for again: however the platform
\* renames tasks, folds them, lists them in part or changes their ids, the rows the
\* id it listed the task with resolves to are solved, and there is one while it is
\* listed or if it never shared its name.
THEOREM SolvedRemainsSolved == SyncSpec => []SolvedStays
  <1>1. StayInv => SolvedStays
    <2> SUFFICES ASSUME StayInv, NEW c \in posted
                 PROVE  /\ Recognised(c) => \A r \in Best(rows, seen[c].id) : Solved(r)
                        /\ c \in listing \/ Unshared(c) => Best(rows, seen[c].id) # {}
      BY DEF SolvedStays
    <2> DEFINE k == seen[c].id
               has == {r \in rows : k \in Keys(r)}
    <2>1. /\ c \in Task /\ seen[c] # Unseen /\ Shown(c) \cap solvedIds # {}
          /\ moved[c] = "never" => k \in solvedIds
      BY DEF StayInv, PostedKnown
    <2>2. Unshared(c) => Closed(bore, {c})
      BY DEF Unshared, Closed
    <2>3. Closed(bore, {c}) => Stands(seen, moved, rows, c)
      BY <2>1 DEF StayInv
    <2>4. \A r \in Best(rows, k) : r \in has
      BY DEF Best
    <2>5. ASSUME Recognised(c), NEW r \in has PROVE Solved(r)
      <3>1. CASE moved[c] = "never"
        BY <2>1, <2>5, <3>1 DEF StayInv, SolvedRows
      <3>2. CASE moved[c] = "once" /\ Unshared(c)
        <4>1. Shown(c) \subseteq Keys(r)
          BY <2>2, <2>3, <2>5, <3>2 DEF Stands
        <4> QED
          BY <2>1, <2>5, <4>1 DEF StayInv, SolvedRows
      <3> QED
        BY <2>5, <3>1, <3>2 DEF Recognised
    <2>6. c \in listing \/ Unshared(c) => has # {}
      BY <2>1, <2>2, <2>3 DEF StayInv, Stands
    <2>7. has # {} => Best(rows, k) # {}
      BY DEF Best
    <2> QED
      BY <2>4, <2>5, <2>6, <2>7
  <1> QED
    BY <1>1, StayInvariant, PTL
-----------------------------------------------------------------------------
(* The records together, as MCWorkQueue composes them: a step of one part  *)
(* is a step of that part and stutters for the others.                     *)
LEMMA RecordsRunTheParts == RecordsSpec => Spec /\ SolveSpec /\ SyncSpec /\ ConfigSpec
  <1>1. RecordsInit => Init /\ SolveInit /\ SyncInit /\ ConfigInit
    BY DEF RecordsInit
  <1>2. [RecordsNext]_<<part, queueVars, solveVars, syncVars, configVars>> =>
          /\ [Next]_queueVars /\ [SolveNext]_solveVars
          /\ [SyncNext]_syncVars /\ [ConfigNext]_configVars
    BY DEF RecordsNext
  <1> QED
    BY <1>1, <1>2, PTL DEF RecordsSpec, Spec, SolveSpec, SyncSpec, ConfigSpec

(* Every record of the operator and of the queue stays well-typed.         *)
THEOREM RecordsTypeCorrect == RecordsSpec => []PartsTypeOK
  <1>1. TypeOK /\ SolveTypeOK /\ SyncTypeOK /\ ConfigTypeOK => PartsTypeOK
    BY DEF PartsTypeOK
  <1> QED
    BY <1>1, RecordsRunTheParts, TypeCorrect, SolveTypes, SyncTypes, ConfigTypes, PTL

(* What the records promise holds of the composition: the queue's claims   *)
(* and leases, the solve-loop's verdicts and limit, the board after a sync *)
(* and the settings.                                                       *)
THEOREM RecordsHold ==
  RecordsSpec => /\ []ClaimConsistent /\ HandoverOnlyWhenStale /\ LeaseRefined
                 /\ [](VerdictEarned /\ WrongLimitKept) /\ ClaimIsHonoured
                 /\ [](SolvedStays /\ BoardTruthful) /\ []SettingsKept
  BY RecordsRunTheParts, ClaimsMatchStatuses, HandoverRule, QueueImplementsLease, VerdictIsEarned,
     WrongLimitHolds, LoopImplementsLock, SolvedRemainsSolved, BoardIsTruthful, SettingsAreKept, PTL
=============================================================================
