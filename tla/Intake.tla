------------------------------- MODULE Intake -------------------------------
(***************************************************************************)
(* How one challenge gets from a platform into the queue: the commands of  *)
(* cli.py that download its attachments (platform_ctfd.py, and             *)
(* platform_generic.py after its own discovery), scan the directory        *)
(* (ingest.py) and mark the challenge ready (state.py), and those that     *)
(* take its text for a challenge.md of their own.  Two sessions may run    *)
(* them at once, the platform may refuse a file, break a transfer off or   *)
(* end it early, and a session may die between any two steps.              *)
(***************************************************************************)
EXTENDS Naturals, FiniteSets

CONSTANTS
  Visitor, Attachment,   \* sessions; attachments a challenge may have
  Adapters,     \* the adapters a profile may name: "ctfd", "generic"
  Intakes,      \* the commands the sessions use
  MaxDownloads, \* max_downloads_per_challenge of the generic adapter
  MaxCopies,    \* bound: copies of one attachment
  MaxIntakes, MaxLosses   \* bounds: commands, deaths

IntakeNames == {"download", "ingest", "smoke", "sync", "rehearse"}

ASSUME IntakeAssumption ==
  /\ Adapters \subseteq {"ctfd", "generic"} /\ Intakes \subseteq IntakeNames
  /\ IsFiniteSet(Attachment) /\ MaxDownloads \in Nat \ {0} /\ MaxCopies \in Nat
  /\ MaxIntakes \in Nat /\ MaxLosses \in Nat

VARIABLES
  adapter,      \* the profile's
  hosted,       \* the attachments the platform has for the challenge
  namesake,     \* those of them the platform calls challenge.md
  disk,         \* [Attachment \X copies -> what raw/ holds]
  shown,        \* manifest.json and brief.md: the scan each is of
  queued,       \* status of the challenge in the queue
  ready,        \* how the last mark came about
  at, loc,      \* control state and locals of each session
  clashed,      \* two sessions had the same name in hand at once
  rewritten,    \* attachments a text ingest has written its statement over
  crossed,      \* two sessions were between their scan and their mark at once
  shortened,    \* a transfer ended early and nobody noticed
  intakes, losses

intakeVars == <<adapter, hosted, namesake, disk, shown, queued, ready, at, loc, clashed, rewritten,
                crossed, shortened, intakes, losses>>

Copy == Attachment \X (0..MaxCopies)

\* What a scan saw: its number and the files of raw/ with their content.
NoScan == [by |-> 0, files |-> [x \in Copy |-> "absent"]]
NoIntake == [cmd |-> "none", todo |-> {}, copy |-> <<>>, got |-> {}, failed |-> FALSE,
          scan |-> NoScan]

IntakeInit ==
  /\ adapter \in Adapters /\ hosted \in SUBSET Attachment
  /\ namesake \in {{}} \cup {{f} : f \in hosted} /\ rewritten = {}
  /\ disk = [x \in Copy |-> "absent"]
  /\ shown = [manifest |-> NoScan, brief |-> NoScan]
  /\ queued = "absent" /\ ready = "none"
  /\ at = [s \in Visitor |-> "idle"] /\ loc = [s \in Visitor |-> NoIntake]
  /\ clashed = FALSE /\ crossed = FALSE /\ shortened = FALSE
  /\ intakes = 0 /\ losses = 0
-----------------------------------------------------------------------------
Go(s, l)   == at' = [at EXCEPT ![s] = l]
Keep(s, m) == loc' = [loc EXCEPT ![s] = m]
Quit(s)    == Go(s, "idle") /\ Keep(s, NoIntake)

\* Faulty: the name the platform gives is the one that is written.
GivenName(f) == {0}

\* raw_dir / filename, .1, .2, ...: the first that does not exist, as a set
\* that is empty when the bound is reached.
FreeName(f) == {n \in 0..MaxCopies : /\ disk[<<f, n>>] = "absent"
                                     /\ \A k \in 0..(n - 1) : disk[<<f, k>>] # "absent"}

\* Faulty: a failed attachment does not count.
OkIfAny(m) == IF m.got # {} THEN "ok" ELSE IF hosted = {} THEN "no_attachments" ELSE "failed"

\* The status of download_attachments.
DownloadStatus(m) ==
  CASE m.got # {} /\ ~m.failed -> "ok"
    [] m.got # {} /\ m.failed  -> "partial"
    [] m.got = {} /\ hosted = {} -> "no_attachments"
    [] OTHER -> "failed"

\* Faulty: the directory is scanned whatever became of the download.
ScanAnyway(m) == IF m.cmd = "download" THEN "idle" ELSE "scan"

\* What each command does with a download: scan raw/, take the text where
\* there are no attachments, or stop.
AfterDownload(m) ==
  LET st == DownloadStatus(m)
  IN CASE m.cmd = "download" -> "idle"
       [] m.cmd = "ingest" -> IF st = "ok" \/ (st = "no_attachments" /\ adapter = "ctfd") THEN "scan" ELSE "idle"
       [] m.cmd = "smoke" -> IF m.got # {} THEN "scan" ELSE "idle"
       [] m.cmd = "rehearse" -> IF st \in {"ok", "partial"} THEN "scan"
                                ELSE IF st = "no_attachments" THEN "text" ELSE "idle"

\* A command that is not live, or not allowed, ends here and is left out.
Enter(s, c) ==
  /\ at[s] = "idle" /\ intakes < MaxIntakes /\ c \in Intakes
  /\ c = "rehearse" => adapter = "ctfd"
  /\ Go(s, "ask") /\ Keep(s, [NoIntake EXCEPT !.cmd = c])
  /\ intakes' = intakes + 1
  /\ UNCHANGED <<adapter, hosted, namesake, rewritten, disk, shown, queued, ready, clashed, crossed, shortened, losses>>

\* upsert_platform_challenges, with --save-state.
Added(cmd) == IF cmd \in {"sync", "smoke", "rehearse"} /\ queued = "absent" THEN "new" ELSE queued

\* The attachments a download takes: the generic adapter the first few only.
Offered ==
  IF adapter = "ctfd" \/ Cardinality(hosted) <= MaxDownloads THEN {hosted}
  ELSE {S \in SUBSET hosted : Cardinality(S) = MaxDownloads}

\* Refused, without an answer or not found: the command ends.
NoAnswer(s) == Quit(s) /\ (queued' = queued \/ queued' = Added(loc[s].cmd))

\* sync-challenges looks for a text only, the smoke where it sees no
\* attachment; only the generic adapter has the text.
TextOnly(m) == m.cmd = "sync" \/ (m.cmd = "smoke" /\ hosted = {})

\* get_text_detail, text_ingest_candidates
TakeText(s) == adapter = "generic" /\ Go(s, "text") /\ UNCHANGED loc

\* download_attachments begins.
TakeFiles(s) == \E S \in Offered : Go(s, "choose") /\ Keep(s, [loc[s] EXCEPT !.todo = S])

\* The challenge's page or its API entry; for "generic" the discovery with its
\* cache first.  sync-challenges and the smoke put it into the queue here.
Ask(s) ==
  /\ at[s] = "ask"
  /\ \/ NoAnswer(s)
     \/ /\ queued' = Added(loc[s].cmd)
        /\ IF TextOnly(loc[s]) THEN TakeText(s) ELSE TakeFiles(s)
  /\ UNCHANGED <<adapter, hosted, namesake, rewritten, disk, shown, ready, clashed, crossed, shortened, intakes, losses>>

\* download_attachments returns with what it got and missed.
FilesTaken(s) ==
  IF AfterDownload(loc[s]) = "idle" THEN Quit(s) ELSE Go(s, AfterDownload(loc[s])) /\ UNCHANGED loc

\* The name is looked for, ...
ChooseName(s) ==
  /\ at[s] = "choose"
  /\ LET m == loc[s]
     IN IF m.todo = {} THEN FilesTaken(s)
        ELSE \E f \in m.todo : \E n \in FreeName(f) : Go(s, "open") /\ Keep(s, [m EXCEPT !.copy = <<f, n>>])
  /\ clashed' = (clashed \/ \E o \in Visitor \ {s} : at'[s] = "open" /\ at[o] = "open" /\ loc[o].copy = loc'[s].copy)
  /\ UNCHANGED <<adapter, hosted, namesake, rewritten, disk, shown, queued, ready, crossed, shortened, intakes, losses>>

\* ... the file asked for, which the platform may refuse, and opened: what is
\* there under the name by now is lost.
Open(s) ==
  /\ at[s] = "open"
  /\ LET m == loc[s]
         rest == m.todo \ {m.copy[1]}
     IN \/ /\ Go(s, "choose") /\ Keep(s, [m EXCEPT !.todo = rest, !.failed = TRUE])
           /\ UNCHANGED disk
        \/ /\ Go(s, "read") /\ Keep(s, [m EXCEPT !.todo = rest])
           /\ disk' = [disk EXCEPT ![m.copy] = "torn"]
  /\ UNCHANGED <<adapter, hosted, namesake, rewritten, shown, queued, ready, clashed, crossed, shortened, intakes, losses>>

\* read(65536) until nothing comes.  A body that ends before its
\* Content-Length ends the loop as a whole one does; an error that is neither
\* an HTTPError nor a URLError ends the command.
Read(s) ==
  /\ at[s] = "read"
  /\ LET m == loc[s]
     IN \/ /\ disk' = [disk EXCEPT ![m.copy] = "whole"] /\ UNCHANGED shortened
           /\ Go(s, "choose") /\ Keep(s, [m EXCEPT !.got = @ \cup {m.copy}])
        \/ /\ shortened' = TRUE /\ UNCHANGED disk
           /\ Go(s, "choose") /\ Keep(s, [m EXCEPT !.got = @ \cup {m.copy}])
        \/ Quit(s) /\ UNCHANGED <<disk, shortened>>
  /\ UNCHANGED <<adapter, hosted, namesake, rewritten, shown, queued, ready, clashed, crossed, intakes, losses>>

Order == [manifest |-> "brief", brief |-> "mark"]

\* The copies under the name of the statement, raw/challenge.md.
Statement == namesake \X {0}

\* A text ingest looks for no free name: challenge.md is emptied, whatever is
\* there and whoever has it in hand, ...
OpenStatement(s) ==
  /\ at[s] = "text" /\ Go(s, "write")
  /\ disk' = [x \in Copy |-> IF x \in Statement THEN "torn" ELSE disk[x]]
  /\ rewritten' = namesake
  /\ clashed' = (clashed \/ \E o \in Visitor : at[o] \in {"open", "read"} /\ loc[o].copy \in Statement)
  /\ UNCHANGED <<adapter, hosted, namesake, shown, queued, ready, loc, crossed, shortened, intakes, losses>>

\* ... and written.
WriteStatement(s) ==
  /\ at[s] = "write" /\ Go(s, "scan")
  /\ disk' = [x \in Copy |-> IF x \in Statement THEN "text" ELSE disk[x]]
  /\ UNCHANGED <<adapter, hosted, namesake, rewritten, shown, queued, ready, loc, clashed, crossed, shortened, intakes, losses>>

\* build_manifest and scan_source.
Scan(s) ==
  /\ at[s] = "scan" /\ Go(s, "manifest")
  /\ Keep(s, [loc[s] EXCEPT !.scan = [by |-> intakes, files |-> disk]])
  /\ crossed' = (crossed \/ \E o \in Visitor : at[o] \in DOMAIN Order \cup {"mark"})
  /\ UNCHANGED <<adapter, hosted, namesake, rewritten, disk, shown, queued, ready, clashed, shortened, intakes, losses>>

\* manifest.json, then brief.md (scan.json and ingest_summary.json beside them).
Write(s) ==
  /\ at[s] \in DOMAIN Order
  /\ shown' = [shown EXCEPT ![at[s]] = loc[s].scan]
  /\ Go(s, Order[at[s]])
  /\ UNCHANGED <<adapter, hosted, namesake, rewritten, disk, queued, ready, loc, clashed, crossed, shortened, intakes, losses>>

\* update_challenge_ingested: an UPDATE, for a challenge the queue may
\* not have; the smoke and sync-challenges leave it out without --save-state.
Mark(s) ==
  /\ at[s] = "mark"
  /\ \/ queued # "absent" /\ queued' = "ready"
        /\ ready' = IF TextOnly(loc[s]) THEN "text" ELSE DownloadStatus(loc[s])
     \/ (queued = "absent" \/ loc[s].cmd \in {"sync", "smoke"}) /\ UNCHANGED <<queued, ready>>
  /\ Quit(s)
  /\ UNCHANGED <<adapter, hosted, namesake, rewritten, disk, shown, clashed, crossed, shortened, intakes, losses>>

Perish(s) ==
  /\ at[s] # "idle" /\ losses < MaxLosses /\ losses' = losses + 1
  /\ Quit(s)
  /\ UNCHANGED <<adapter, hosted, namesake, rewritten, disk, shown, queued, ready, clashed, crossed, shortened, intakes>>

IntakeNext ==
  \E s \in Visitor :
       \/ \E c \in Intakes : Enter(s, c)
       \/ Ask(s) \/ ChooseName(s) \/ Open(s) \/ Read(s) \/ OpenStatement(s) \/ WriteStatement(s)
       \/ Scan(s) \/ Write(s) \/ Mark(s) \/ Perish(s)

IntakeSpec == IntakeInit /\ [][IntakeNext]_intakeVars
-----------------------------------------------------------------------------
IntakeTypeOK ==
  /\ adapter \in Adapters /\ hosted \subseteq Attachment /\ rewritten \in {{}, namesake}
  /\ disk \in [Copy -> {"absent", "torn", "whole", "text"}]
  /\ \A k \in DOMAIN shown : shown[k].by \in 0..MaxIntakes
  /\ queued \in {"absent", "new", "ready"}
  /\ ready \in {"none", "text", "ok", "partial", "no_attachments"}
  /\ \A s \in Visitor : loc[s].cmd \in IntakeNames \cup {"none"} /\ loc[s].got \subseteq Copy
  /\ {clashed, crossed} \subseteq BOOLEAN /\ shortened \in BOOLEAN
  /\ intakes \in 0..MaxIntakes /\ losses \in 0..MaxLosses

(* A challenge that is ready after a download without failures has, in the *)
(* manifest its worker reads, a whole copy of each attachment (as many as  *)
(* the adapter takes) and a brief of that very scan: whatever torn files   *)
(* and half-written reports earlier commands that broke off or died left,  *)
(* unless two commands had one name in hand at once, two ingests ran at    *)
(* once, or a transfer was cut short unnoticed.  Only the attachment that  *)
(* is called challenge.md may be missing, once a text ingest has written   *)
(* its statement under that name.                                          *)
Capped == adapter = "generic" /\ Cardinality(hosted) > MaxDownloads
Quiet  == \A s \in Visitor : at[s] = "idle"

ReadyIsWhole ==
  queued = "ready" /\ ready = "ok" /\ ~clashed /\ ~crossed /\ ~shortened /\ ~Capped =>
    /\ \A f \in hosted \ rewritten : \E n \in 0..MaxCopies : shown.manifest.files[<<f, n>>] = "whole"
    /\ Quiet /\ losses = 0 => shown.brief = shown.manifest

(* A file downloaded whole stays as it is, however often the challenge is  *)
(* downloaded again, unless two commands had its name in hand at once or a *)
(* text ingest writes challenge.md over an attachment of that name.        *)
OriginalsKept ==
  [][\A x \in Copy : disk[x] = "whole" /\ disk'[x] # "whole" =>
       clashed \/ (x \in Statement /\ \E s \in Visitor : at[s] = "text" /\ at'[s] = "write")]_intakeVars
=============================================================================
