----------------------------- MODULE SolveLoop -----------------------------
(***************************************************************************)
(* One challenge directory of ctf_runner/interactive.py: `solve-loop` runs *)
(* the challenge's starter, collects the flags its output shows, verifies  *)
(* and submits them, and ends in a write-up or a stalled entry, while      *)
(* other sessions verify, submit, upload and write up the same challenge   *)
(* by hand.  OperatorBoard has the steps in which several challenges share *)
(* board.json and the lock files; here a claim, and each read or rewrite   *)
(* of the challenge's row, is one step, and what a reader may miss of a    *)
(* board in the middle of a rewrite is Seen.  Commands name the challenge  *)
(* by its id.                                                              *)
(***************************************************************************)
EXTENDS SubmitPolicy

CONSTANTS
  Agent, Nobody,
  Flag,         \* flags that may turn up in an attempt's output
  NoFlag,       \* what the row of an uploaded artifact has for a flag
  Correct,      \* the flag the platform accepts
  Looks,        \* [Flag -> Classes]: what a flag looks like, found with evidence
  Policy,       \* load_submit_policy
  Profile,      \* a platform profile is configured
  Uploads,      \* the profile allows uploads and the metadata is complete
  Commands,     \* [Agent -> the commands its session uses]
  MaxAttempts,  \* --max-attempts
  Mortal,       \* the sessions that may die
  MaxBegun, MaxPosts   \* bounds: commands begun, rows with a verdict

CommandNames == {"loop", "loop_named", "verify", "verify_file", "submit", "upload",
                 "writeup", "stall"}

ASSUME SolveLoopAssumption ==
  /\ Nobody \notin Agent /\ NoFlag \notin Flag /\ Correct \in Flag
  /\ Looks \in [Flag -> Classes] /\ Policy \in PolicyType
  /\ Profile \in BOOLEAN /\ Uploads \in BOOLEAN
  /\ Commands \in [Agent -> SUBSET CommandNames] /\ Mortal \subseteq Agent
  /\ MaxAttempts \in Nat \ {0} /\ MaxBegun \in Nat /\ MaxPosts \in Nat

VARIABLES
  row,        \* the challenge's status in board.json, "absent" without a row
  lock,       \* the session whose claim file exists
  solvedLog, stalledLog,  \* the challenge is named in solved.jsonl, stalled.jsonl
  cands,      \* [Flag -> origin of the flag's latest row in candidates.jsonl]
  subs,       \* the rows of submissions.jsonl that hold a platform's verdict
  hot,        \* what was rejected within the last cooldown_seconds
  writeup,    \* the write-up files exist
  credited,   \* the platform counts the challenge as solved
  refused,    \* wrong flags the platform has refused
  pc, mem,    \* control state and locals of each session's command
  outcome,    \* what each session's last solve-loop returned
  muddled,    \* two sessions were submitting at once, or a post lost its answer
  begun

files  == <<row, lock, solvedLog, stalledLog, cands, subs, hot, writeup>>
ghosts == <<outcome, muddled>>
solveVars   == <<files, credited, refused, pc, mem, ghosts, begun>>

Rows    == {"absent", "todo", "claimed", "stalled", "solved"}
Origins == {"none", "attempt", "manual"}
Answers == {"accepted", "rejected", "rate_limited", "unknown"}

\* "id" tells the rejections of one flag, or of artifacts, apart.
Answered == [flag : Flag \cup {NoFlag}, status : Answers, id : Nat]

\* "due": the flags found and not refused, for which a verdict is due.
Blank == [cmd |-> "none", n |-> 0, queue |-> {}, flag |-> NoFlag, row |-> "absent",
          verdict |-> "none", due |-> {}]

SolveInit ==
  /\ row \in {"todo", "absent"} /\ lock = Nobody
  /\ solvedLog = FALSE /\ stalledLog = FALSE
  /\ cands = [f \in Flag |-> "none"] /\ subs = {} /\ hot = {} /\ writeup = FALSE
  /\ credited = FALSE /\ refused = 0
  /\ pc = [a \in Agent |-> "idle"] /\ mem = [a \in Agent |-> Blank]
  /\ outcome = [a \in Agent |-> "none"] /\ muddled = FALSE
  /\ begun = 0
-----------------------------------------------------------------------------
(* What the code reads off the files.                                      *)

\* Only the rows of uploads carry submitted_at, which the cooldown is counted from.
Cooling == "upload" \in hot

\* _verification_context and classify_flag_confidence: evidence makes a flag of
\* high confidence; a flag first typed in by hand keeps that origin.
ClassOf(f, origin) == IF Looks[f] = "high" /\ origin = "manual" THEN "medium" ELSE Looks[f]

\* Faulty: a wrong flag too many is let through.
AllowedOnce(f, class, seen) ==
  ShouldSubmit([Policy EXCEPT !.maxWrong = @ + 1], f, class, subs, seen = "solved", Cooling)

\* should_submit as verify_candidate and submit_flag_file call it.
Allowed(f, class, seen) == ShouldSubmit(Policy, f, class, subs, seen = "solved", Cooling)


\* _apply_runtime_statuses on the row a command read.
Restamped == IF row = "absent" THEN row
             ELSE IF solvedLog THEN "solved"
             ELSE IF lock # Nobody THEN "claimed"
             ELSE IF stalledLog THEN "stalled" ELSE row

\* _read_board: a board that does not parse, because another session is in the
\* middle of writing it or died there, reads as one without rows.
Seen == {row, "absent"}

\* A rewrite of board.json leaves a challenge without a row without one.
Rewritten(seen, st) == IF seen = "absent" THEN seen ELSE st
-----------------------------------------------------------------------------
(* Steps of a command.                                                     *)

Goto(a, l) == pc' = [pc EXCEPT ![a] = l]
Set(a, m)  == mem' = [mem EXCEPT ![a] = m]
Looping(a) == mem[a].cmd \in {"loop", "loop_named"}

\* A solve-loop returns; any other command just ends.
Return(a, result) ==
  /\ Goto(a, "idle") /\ Set(a, Blank)
  /\ outcome' = IF Looping(a) THEN [outcome EXCEPT ![a] = result] ELSE outcome

Entrance(cmd) == CASE cmd \in {"loop", "loop_named"} -> "target"
                   [] cmd \in {"verify", "verify_file"} -> "judge"
                   [] OTHER -> cmd

Begin(a, cmd, f) ==
  /\ pc[a] = "idle" /\ begun < MaxBegun /\ cmd \in Commands[a]
  /\ (cmd \in {"verify", "verify_file", "submit"}) = (f # NoFlag)
  /\ Goto(a, Entrance(cmd))
  /\ Set(a, [Blank EXCEPT !.cmd = cmd, !.flag = f])
  /\ outcome' = [outcome EXCEPT ![a] = "none"]
  /\ begun' = begun + 1
  /\ UNCHANGED <<files, credited, refused, muddled>>

\* _rank_next_targets: neither a claimed nor a stalled challenge is offered.
Open == lock = Nobody /\ Restamped = "todo"

\* next_challenge claims an open challenge, or returns with nothing: none is
\* open, or the board had no rows when it was read.
NextChallenge(a) ==
  \/ /\ Open /\ lock' = a /\ row' = "claimed"
     /\ Goto(a, "triage") /\ UNCHANGED <<mem, outcome>>
  \/ Return(a, "empty") /\ UNCHANGED <<lock, row>>

\* prepare_target: without --challenge-id the next challenge is claimed; with
\* it, neither its claim nor its status is looked at.
Target(a) ==
  /\ pc[a] = "target"
  /\ IF mem[a].cmd = "loop" THEN NextChallenge(a)
     ELSE Goto(a, "triage") /\ UNCHANGED <<lock, row, mem, outcome>>
  /\ UNCHANGED <<solvedLog, stalledLog, cands, subs, hot, writeup, credited, refused, muddled, begun>>

\* triage_challenge and starter_challenge each read the board, work for seconds
\* and write all of it back with the paths of what they left in the directory.
\* Without the challenge's row the loop returns, and its claim stays.
ReadTarget(a) == \E seen \in Seen :
  /\ pc[a] \in {"triage", "starter"}
  /\ IF seen = "absent" THEN Return(a, "not_found")
     ELSE /\ Goto(a, IF pc[a] = "triage" THEN "save triage" ELSE "save starter")
          /\ Set(a, [mem[a] EXCEPT !.row = Restamped])
          /\ UNCHANGED outcome
  /\ UNCHANGED <<files, credited, refused, muddled, begun>>

SaveTarget(a) ==
  /\ pc[a] \in {"save triage", "save starter"}
  /\ row' = mem[a].row
  /\ Set(a, [mem[a] EXCEPT !.row = "absent"])
  /\ Goto(a, IF pc[a] = "save triage" THEN "starter" ELSE "attempt")
  /\ UNCHANGED <<lock, solvedLog, stalledLog, cands, subs, hot, writeup, credited, refused,
                 ghosts, begun>>
-----------------------------------------------------------------------------
(* An attempt and what it found.                                           *)

\* _append_detected_candidates: a flag the store knows keeps its row.
Stored(F) == [f \in Flag |-> IF f \in F /\ cands[f] = "none" THEN "attempt" ELSE cands[f]]

\* How the starter, or the connection it is for, may end: with no script to run,
\* its time up, an error, a tool missing; "lacks" is what the service asks for
\* first and is not told.
Endings == [scriptless : BOOLEAN, late : BOOLEAN, failed : BOOLEAN, toolless : BOOLEAN,
            lacks : SUBSET {"token", "work"}]

\* The script is the starter recorded for the challenge, or one in its directory.
NoScript(x) == x.scriptless

\* run_attempt: a script that succeeds may say what it likes about tools.
ScriptStatus(x) == CASE NoScript(x) -> "blocked"
                     [] x.late      -> "timeout"
                     [] ~x.failed   -> "ok"
                     [] x.toolless  -> "missing_tool"
                     [] OTHER       -> "completed_nonzero"

\* web_attempt needs a base URL first; browser_attempt also searches the logs
\* of the console and the network that the script leaves.
WebStatus(x, url)     == IF url THEN ScriptStatus(x) ELSE "blocked"
BrowserStatus(x, url) == WebStatus(x, url)

\* service_attempt runs the script for its payload, whatever its exit code and
\* with what it wrote until its time was up; a tool it misses is noticed.
Payload(x) == CASE NoScript(x) -> "blocked" [] x.toolless -> "missing_tool" [] OTHER -> "ok"

\* The source of the token is not configured, or holds none.
NoToken(x) == "token" \in x.lacks

\* The helper for the proof of work is missing, fails, or has its time up.
NoWork(x) == "work" \in x.lacks

\* The connection: "unanswered" is a "blocked" of which there is a transcript.
Conversation(x) == CASE NoToken(x) \/ NoWork(x) -> "unanswered"
                     [] x.late   -> "timeout"
                     [] x.failed -> "error"
                     [] OTHER    -> "ok"

ServiceStatus(x, endpoint) ==
  IF ~endpoint THEN "blocked" ELSE IF Payload(x) # "ok" THEN Payload(x) ELSE Conversation(x)

\* The kind of attempt is settled by the metadata when the loop starts; each
\* kind can end in all the ways that the loop tells apart.
Ends == UNION {{ScriptStatus(x), WebStatus(x, u), BrowserStatus(x, u), ServiceStatus(x, u)} :
                 x \in Endings, u \in BOOLEAN}

\* Unless it never ran, what an attempt wrote or was told is searched.
Searched(s) == s # "blocked"

\* A missing tool ends the loop with what was found stored only.  Without its
\* row the challenge is taken for one of its id alone, which has a directory and
\* a store elsewhere.
Attempt(a, F) == \E s \in Ends, seen \in Seen :
  /\ pc[a] = "attempt" /\ (Searched(s) \/ F = {})
  /\ cands' = IF seen = "absent" THEN cands ELSE Stored(F)
  /\ \/ /\ s # "missing_tool"
        /\ Goto(a, "judge")
        /\ Set(a, [mem[a] EXCEPT !.n = @ + 1, !.queue = F, !.due = @ \cup F])
     \/ /\ s = "missing_tool"
        /\ Goto(a, "stall")
        /\ Set(a, [mem[a] EXCEPT !.n = @ + 1, !.verdict = "missing_tool"])
  /\ UNCHANGED <<row, lock, solvedLog, stalledLog, subs, hot, writeup, credited, refused, ghosts, begun>>

\* Faulty: the row says which command asked.
CommandOf(a, f) == mem[a].cmd

\* verify_candidate appends a row with the origin of the flag's latest one;
\* --candidate-file counts as evidence.
Origin(a, f) == IF mem[a].cmd = "verify_file" THEN "attempt"
                ELSE IF cands[f] = "none" THEN "manual" ELSE cands[f]

\* The origins the read of the row allows: the store elsewhere may know the flag.
OriginsBy(a, f, seen) ==
  IF seen = "absent" /\ mem[a].cmd # "verify_file" THEN {"attempt", "manual"} ELSE {Origin(a, f)}

\* Faulty: the candidates behind one that is not submitted are forgotten.
FirstOnly(a, f) == {}

\* The candidates of an attempt that are still to be verified.
Remaining(a, f) == mem[a].queue \ {f}

\* The loop verifies a candidate, and submits it if the verdict allows.
Judge(a, f) == \E seen \in Seen : \E origin \in OriginsBy(a, f, seen) :
  LET ready == ClassOf(f, origin) = "high" /\ Allowed(f, "high", seen)
  IN /\ pc[a] = "judge" /\ f \in (IF Looping(a) THEN mem[a].queue ELSE {mem[a].flag})
     /\ cands' = IF seen = "absent" THEN cands ELSE [cands EXCEPT ![f] = origin]
     /\ IF Looping(a)
        THEN /\ Set(a, [mem[a] EXCEPT
                  !.queue = Remaining(a, f),
                  !.flag = IF ready THEN f ELSE NoFlag,
                  !.due = IF ready THEN @ ELSE @ \ {f}])
             /\ Goto(a, IF ready THEN "submit" ELSE "judge")
             /\ UNCHANGED outcome
        ELSE Return(a, "none")
     /\ UNCHANGED <<row, lock, solvedLog, stalledLog, subs, hot, writeup, credited, refused, muddled,
                    begun>>

\* Every candidate of the attempt was verified: the next attempt, or give up.
NextAttempt(a) ==
  /\ pc[a] = "judge" /\ Looping(a) /\ mem[a].queue = {}
  /\ Goto(a, IF mem[a].n < MaxAttempts THEN "attempt" ELSE "stall")
  /\ UNCHANGED <<files, credited, refused, mem, ghosts, begun>>
-----------------------------------------------------------------------------
(* submit_flag_file, for the loop and for `submit --confirm`.              *)

ReadRow(a) == \E seen \in Seen :
  /\ pc[a] = "submit"
  /\ Set(a, [mem[a] EXCEPT !.row = seen])
  /\ Goto(a, "decide")
  /\ UNCHANGED <<files, credited, refused, ghosts, begun>>

\* A planned or blocked submission ends the loop.
Decide(a) ==
  LET f == mem[a].flag IN
  /\ pc[a] = "decide"
  /\ IF Allowed(f, ClassOf(f, "attempt"), mem[a].row) /\ Profile
     THEN /\ Goto(a, "post") /\ UNCHANGED <<mem, outcome>>
          /\ muddled' = (muddled \/ \E b \in Agent : pc[b] \in {"post", "record"})
     ELSE Return(a, "planned") /\ UNCHANGED muddled
  /\ UNCHANGED <<files, credited, refused, begun>>

\* What CTFd says of a flag: of a solved challenge it may take any.
Says(f) == {"rate_limited", "unknown"}
  \cup (IF f = Correct \/ credited THEN {"accepted"} ELSE {})
  \cup (IF f # Correct THEN {"rejected"} ELSE {})

Counted(a, r) ==
  /\ credited' = (credited \/ r = "accepted")
  /\ refused' = IF r = "rejected" THEN refused + 1 ELSE refused

Post(a) == \E r \in Says(mem[a].flag) :
  /\ pc[a] = "post" /\ Cardinality(subs) < MaxPosts
  /\ Counted(a, r)
  /\ Set(a, [mem[a] EXCEPT !.verdict = r])
  /\ Goto(a, "record")
  /\ UNCHANGED <<files, ghosts, begun>>

\* The request fails after the platform got it, or before: the exception ends
\* the command without a row.
PostFails(a) ==
  /\ pc[a] = "post"
  /\ \/ \E r \in Says(mem[a].flag) : Counted(a, r) /\ muddled' = TRUE
     \/ UNCHANGED <<credited, refused, muddled>>
  /\ Return(a, "error")
  /\ UNCHANGED <<files, begun>>

\* The adapter sends nothing, for want of an address, the policy's leave or
\* credentials: a row without a verdict, and a loop returns.
HeldBack(a) ==
  /\ pc[a] = "post"
  /\ Return(a, "planned")
  /\ UNCHANGED <<files, credited, refused, muddled, begun>>

\* The row in submissions.jsonl, of a flag or of an artifact.
Verdict(f, r) ==
  [flag |-> f, status |-> r,
   id |-> IF r = "rejected" THEN Cardinality({e \in subs : e.flag = f /\ e.status = r}) ELSE 0]

Record(a) ==
  LET f == mem[a].flag  r == mem[a].verdict IN
  /\ pc[a] = "record"
  /\ subs' = subs \cup {Verdict(f, r)}
  /\ hot' = IF r = "rejected" THEN hot \cup {IF f = NoFlag THEN "upload" ELSE "flag"} ELSE hot
  /\ IF r = "accepted" THEN Goto(a, "solve") /\ UNCHANGED <<mem, outcome>>
     ELSE IF Looping(a) THEN /\ Goto(a, "judge") /\ UNCHANGED outcome
                             /\ Set(a, [mem[a] EXCEPT !.flag = NoFlag, !.row = "absent",
                                                      !.verdict = "none"])
     ELSE Return(a, "none")
  /\ UNCHANGED <<row, lock, solvedLog, stalledLog, cands, writeup, credited, refused, muddled, begun>>

AppendSolved(a) ==
  /\ pc[a] = "solve"
  /\ solvedLog' = TRUE
  /\ Goto(a, "credit")
  /\ UNCHANGED <<row, lock, stalledLog, cands, subs, hot, writeup, credited, refused, mem, ghosts, begun>>

\* Everybody's claim is given back and the board written.
CreditRow(a) ==
  /\ pc[a] = "credit"
  /\ lock' = Nobody
  /\ row' = Rewritten(mem[a].row, "solved")
  /\ IF Looping(a) THEN Goto(a, "writeup") /\ UNCHANGED <<mem, outcome>>
     ELSE Return(a, "none")
  /\ UNCHANGED <<solvedLog, stalledLog, cands, subs, hot, writeup, credited, refused, muddled, begun>>
-----------------------------------------------------------------------------
(* upload_submit --confirm.                                                *)

\* What an upload's or a status page's answer is read as.
Responses == {"accepted", "rejected", "auth_required", "rate_limited", "unknown"}
Activity  == {"active", "inactive", "unknown"}

\* _classify_upload_response of what the platform says, which is true: only of
\* a challenge it counts does it say accepted or active.
Replies(counts) ==
  {x \in [response : Responses, active : Activity] :
     /\ x.response = "accepted" => x.active = "active"
     /\ x.active = "active" => counts}

\* The status page is not configured, or could not be read.
NoPage == [response |-> "none", active |-> "none"]

\* _merge_upload_status
Merged(up, page) ==
  IF page.response = "accepted" \/ page.active = "active"
    THEN [response |-> "accepted", active |-> "active"]
  ELSE IF page.active = "inactive" \/ page.response \in {"rejected", "auth_required", "rate_limited"}
    THEN page
  ELSE up

\* Faulty: an upload counts unless the platform says no.
JudgedLoosely(final) ==
  IF final.response \in {"accepted", "unknown"} THEN "accepted"
  ELSE IF final.response = "auth_required" THEN "blocked" ELSE "rejected"

\* The row's status: throttled and unreadable answers are rejections.
Judged(final) ==
  IF final.response = "accepted" /\ final.active = "active" THEN "accepted"
  ELSE IF final.response = "auth_required" THEN "blocked" ELSE "rejected"

\* Any of the checks fails, or --confirm is missing: a row without a verdict.
ReadUpload(a) == \E seen \in Seen :
  /\ pc[a] = "upload"
  /\ IF Uploads THEN /\ Goto(a, "save upload") /\ UNCHANGED outcome
                     /\ Set(a, [mem[a] EXCEPT !.row = seen])
     ELSE Return(a, "none")
  /\ UNCHANGED <<files, credited, refused, muddled, begun>>

\* An endpoint given on the command line is stored with the rest of the board.
SaveUpload(a) ==
  /\ pc[a] = "save upload"
  /\ row' \in {row, mem[a].row}
  /\ Goto(a, "send")
  /\ UNCHANGED <<lock, solvedLog, stalledLog, cands, subs, hot, writeup, credited, refused, mem,
                 ghosts, begun>>

\* What may come of an upload of a challenge that counts from then on, or not.
UploadVerdicts(counts) ==
  {Judged(Merged(up, page)) : up \in Replies(counts), page \in Replies(counts) \cup {NoPage}}

\* The artifact may be good; an answer that is lost is recorded as a rejection.
Send(a) == \E good \in BOOLEAN :
  LET counts == credited \/ good IN
  /\ pc[a] = "send" /\ Cardinality(subs) < MaxPosts
  /\ \/ \E v \in UploadVerdicts(counts) : Set(a, [mem[a] EXCEPT !.verdict = v])
     \/ Set(a, [mem[a] EXCEPT !.verdict = "rejected"])
  /\ credited' = counts
  /\ Goto(a, "uploaded")
  /\ UNCHANGED <<files, refused, ghosts, begun>>

\* auth_required leaves a blocked row.
Uploaded(a) ==
  /\ pc[a] = "uploaded"
  /\ IF mem[a].verdict = "blocked" THEN Return(a, "none")
     ELSE Goto(a, "record") /\ UNCHANGED <<mem, outcome>>
  /\ UNCHANGED <<files, credited, refused, muddled, begun>>
-----------------------------------------------------------------------------
(* The write-up, the stalled entry, and the end of a session.              *)

\* Faulty: a submitted flag is enough.
AnyAttempt == subs # {}

\* _is_accepted
IsAccepted == solvedLog

\* writeup_challenge, and for the loop cleanup_challenge, which only removes
\* caches and build products.
WriteUp(a) ==
  /\ pc[a] = "writeup"
  /\ writeup' = (writeup \/ IsAccepted)
  /\ Return(a, "solved")
  /\ UNCHANGED <<row, lock, solvedLog, stalledLog, cands, subs, hot, credited, refused, muddled, begun>>

\* mark_stalled reads the board and appends to stalled.jsonl.  Without the
\* challenge's row it does nothing, and the loop returns as if it had.
Stall(a) == \E seen \in Seen :
  /\ pc[a] = "stall"
  /\ IF seen = "absent" THEN Return(a, "stalled_unmarked") /\ UNCHANGED stalledLog
     ELSE /\ stalledLog' = TRUE
          /\ Goto(a, "stalled") /\ UNCHANGED <<mem, outcome>>
  /\ UNCHANGED <<row, lock, solvedLog, cands, subs, hot, writeup, credited, refused, muddled, begun>>

\* Faulty: a stalled challenge stays claimed.
KeepLock(a) == lock

\* Faulty: whoever stalls the challenge deletes the claim.
DeletesAny(a) == Nobody

\* _release_locks of this session's claim.
Released(a) == IF lock = a THEN Nobody ELSE lock

StallRow(a) ==
  /\ pc[a] = "stalled"
  /\ lock' = Released(a) /\ row' = "stalled"
  /\ Return(a, "stalled")
  /\ UNCHANGED <<solvedLog, stalledLog, cands, subs, hot, writeup, credited, refused, muddled, begun>>

Die(a) ==
  /\ a \in Mortal /\ pc[a] # "idle" /\ "died" \notin {outcome[b] : b \in Agent}
  /\ muddled' = (muddled \/ (pc[a] = "record" /\ mem[a].flag # NoFlag))
  /\ Goto(a, "idle") /\ Set(a, Blank)
  /\ outcome' = [outcome EXCEPT ![a] = "died"]
  /\ UNCHANGED <<files, credited, refused, begun>>

\* cooldown_seconds pass.
Pass ==
  /\ hot # {} /\ hot' = {}
  /\ UNCHANGED <<row, lock, solvedLog, stalledLog, cands, subs, writeup, credited, refused, pc,
                 mem, ghosts, begun>>

Step(a) ==
  \/ Target(a) \/ ReadTarget(a) \/ SaveTarget(a)
  \/ \E F \in SUBSET Flag : Attempt(a, F)
  \/ \E f \in Flag : Judge(a, f)
  \/ NextAttempt(a)
  \/ ReadRow(a) \/ Decide(a) \/ Post(a) \/ PostFails(a) \/ HeldBack(a) \/ Record(a)
  \/ AppendSolved(a) \/ CreditRow(a)
  \/ ReadUpload(a) \/ SaveUpload(a) \/ Send(a) \/ Uploaded(a)
  \/ WriteUp(a) \/ Stall(a) \/ StallRow(a)

SolveNext ==
  \/ \E a \in Agent : Step(a) \/ Die(a)
  \/ \E a \in Agent, cmd \in CommandNames, f \in Flag \cup {NoFlag} : Begin(a, cmd, f)
  \/ Pass

SolveSpec == SolveInit /\ [][SolveNext]_solveVars

\* A command is a running program: it goes on until it ends or its session dies.
SolveFairSpec == SolveSpec /\ \A a \in Agent : WF_solveVars(Step(a))
-----------------------------------------------------------------------------
(* Properties.                                                             *)

\* The values every variable takes.
SolveTypeOK ==
  /\ row \in Rows /\ lock \in Agent \cup {Nobody}
  /\ {solvedLog, stalledLog, writeup, credited, muddled} \subseteq BOOLEAN
  /\ cands \in [Flag -> Origins]
  /\ subs \subseteq Answered /\ hot \subseteq {"flag", "upload"}
  /\ refused \in Nat /\ begun \in 0..MaxBegun
  /\ \A a \in Agent :
       /\ outcome[a] \in {"none", "empty", "not_found", "solved", "stalled", "stalled_unmarked",
                         "planned", "error", "died"}
       /\ mem[a].cmd \in CommandNames \cup {"none"} /\ mem[a].n \in 0..MaxAttempts
       /\ mem[a].queue \subseteq mem[a].due /\ mem[a].due \subseteq Flag
       /\ mem[a].flag \in Flag \cup {NoFlag} /\ mem[a].row \in Rows

\* solved.jsonl and the write-up speak of a challenge the platform counts as
\* solved, whichever way it was submitted and whatever answers were lost.
SolvedIsEarned == solvedLog \/ writeup => credited

\* max_wrong_per_challenge bounds the wrong flags the platform sees from all
\* sessions together, as long as no two submit at once and no answer is lost.
WrongLimitKept == Policy.maxWrong >= 0 /\ ~muddled => refused <= Policy.maxWrong

\* A solve-loop that gives up after its last attempt has verified every flag its
\* attempts showed, and has the platform's word on each it did not refuse.
CandidatesJudged ==
  \A a \in Agent : pc[a] = "stall" /\ Looping(a) /\ mem[a].verdict # "missing_tool" =>
    mem[a].due \subseteq {e.flag : e \in subs}

\* A solve-loop gives its claim back, unless it ends with a submission that the
\* policy or the adapter holds up, with an exception, with its session, or with
\* a board that had no row of the challenge when the target was prepared
\* ("not_found") or was to be marked as stalled.
ClaimReturned ==
  \A a \in Agent : Looping(a) /\ lock = a ~>
    lock # a \/ outcome[a] \in {"empty", "not_found", "stalled_unmarked", "planned", "error", "died"}

\* A loop that claimed its target works on it until it returns.
OnClaim(a) == mem[a].cmd = "loop" /\ pc[a] # "target"

ClaimLock == INSTANCE ChallengeLock
  WITH Session <- Agent, Item <- {"challenge"},
       owners <- [c \in {"challenge"} |-> {lock} \ {Nobody}],
       holding <- [a \in Agent |-> IF OnClaim(a) THEN {"challenge"} ELSE {}],
       settled <- IF credited THEN {"challenge"} ELSE {}

(* The claim a solve-loop works under implements ChallengeLock too: until  *)
(* the loop returns, or the platform counts the challenge, nobody deletes  *)
(* its claim file, though other sessions stall, submit, upload and even    *)
(* run a loop of their own, by name, on the same challenge.                *)
ClaimIsHonoured == ClaimLock!LockSpec

\* docs/submit-policy.md: no flag is posted within the cooldown of a wrong one.
CooldownKept ==
  [][\A a \in Agent : pc[a] = "post" /\ pc'[a] = "record" => "flag" \notin hot]_solveVars

\* What a solve-loop returns is earned: a solve by the platform's word, and
\* giving up by the platform's word on everything it had to offer.
VerdictEarned == SolvedIsEarned /\ CandidatesJudged
=============================================================================
