------------------------------- MODULE Finish -------------------------------
(***************************************************************************)
(* What is left beside a solved challenge (postsolve.py and                *)
(* artifact_archive.py): the versioned papers under postsolve/, which a    *)
(* worker writes after an accepted post and an operator on demand or for a *)
(* whole contest, and the archives of the challenge's files.  Nothing      *)
(* locks the directory: writers interleave, and any of them may die        *)
(* between two steps.                                                      *)
(***************************************************************************)
EXTENDS Naturals, Sequences

CONSTANTS
  Author,       \* processes: workers and operator sessions
  Papers,       \* POSTSOLVE_FILES in the order they are written
  MaxEditions, MaxChanges, MaxCrashes   \* bounds: generations and archives, changes of the files, deaths

ASSUME FinishAssumption ==
  /\ Papers \in Seq(STRING) /\ Len(Papers) > 1 /\ Papers[Len(Papers)] = "postsolve_summary"
  /\ {MaxEditions, MaxChanges, MaxCrashes} \subseteq Nat

VARIABLES
  verdict,      \* status of the challenge in the queue
  step, hand,   \* control state and locals of each process
  paper,        \* [Papers -> the file of that name, 0 for none]
  text,         \* what each file ever made holds: whose edition, and whether all of it
  backups,      \* [Papers -> the files renamed to a .bak. name]
  overlap,      \* two processes were writing papers at once
  work,         \* the challenge's own files, by the number of their last change
  shelf,        \* the archive directories: what was copied in, what their manifest says
  editions, crashes

finishVars == <<verdict, step, hand, paper, text, backups, overlap, work, shelf, editions, crashes>>

Last  == Len(Papers)
Place == 1..Last
Dirs  == 1..MaxEditions
Empty == [by |-> 0, whole |-> FALSE]
Bare  == [used |-> FALSE, files |-> 0, manifest |-> 0, mixed |-> FALSE]
Free  == [who |-> "none", k |-> 1, no |-> 0, file |-> 0, saw |-> 0, dir |-> 0]

FinishInit ==
  /\ verdict \in {"solving", "solved"}
  /\ step = [a \in Author |-> "free"] /\ hand = [a \in Author |-> Free]
  /\ paper = [k \in Place |-> 0] /\ backups = [k \in Place |-> {}]
  /\ text = [k \in Place |-> [i \in Dirs |-> Empty]]
  /\ overlap = FALSE /\ work = 1 /\ shelf = [d \in Dirs |-> Bare]
  /\ editions = 0 /\ crashes = 0
-----------------------------------------------------------------------------
Turn(a, l) == step' = [step EXCEPT ![a] = l]
Hold(a, h) == hand' = [hand EXCEPT ![a] = h]
Done(a)    == Turn(a, "free") /\ Hold(a, Free)

Writing(a) == step[a] \in {"look", "rename", "open", "fill"}

\* Faulty: the summary goes first.
SummaryFirst(k) == IF k = 1 THEN Last ELSE k - 1

\* The order of generate_postsolve.
Nth(k) == k

\* generate_postsolve: a worker has just marked the challenge solved and passes
\* that on; an operator's call, or one for every row of the contest, reads the
\* status first and is blocked unless it says so.  The artifacts are scanned.
Generate(a, who) ==
  /\ step[a] = "free" /\ editions < MaxEditions
  /\ who = "operator" => verdict = "solved"
  /\ verdict' = IF who = "worker" THEN "solved" ELSE verdict
  /\ editions' = editions + 1
  /\ Turn(a, "look") /\ Hold(a, [Free EXCEPT !.who = who, !.no = editions + 1])
  /\ overlap' = (overlap \/ \E b \in Author : Writing(b))
  /\ UNCHANGED <<paper, text, backups, work, shelf, crashes>>

\* The challenge is ingested again, which puts it back into the queue whatever
\* its status (update_challenge_ingested); counted with the deaths.
Requeue ==
  /\ verdict # "solving" /\ crashes < MaxCrashes /\ crashes' = crashes + 1
  /\ verdict' = "solving"
  /\ UNCHANGED <<step, hand, paper, text, backups, overlap, work, shelf, editions>>

\* _backup_existing: is there an earlier edition, ...
Look(a) ==
  /\ step[a] = "look"
  /\ Turn(a, IF paper[Nth(hand[a].k)] = 0 THEN "open" ELSE "rename")
  /\ UNCHANGED <<verdict, hand, paper, text, backups, overlap, work, shelf, editions, crashes>>

\* Faulty: every backup gets the one name.
OneBackup(k, i) == {i}

\* A name of its own: the time, and a number behind it when that is taken.
Kept(k, i) == backups[k] \cup {i}

\* ... it is renamed.  If another process has done so, the call fails, and a
\* worker's solve with it: solve_next_once parks the challenge as "error".
Rename(a) ==
  /\ step[a] = "rename"
  /\ LET k == Nth(hand[a].k)
     IN IF paper[k] = 0
        THEN /\ Done(a)
             /\ verdict' = IF hand[a].who = "worker" THEN "error" ELSE verdict
             /\ UNCHANGED <<paper, backups>>
        ELSE /\ backups' = [backups EXCEPT ![k] = Kept(k, paper[k])]
             /\ paper' = [paper EXCEPT ![k] = 0]
             /\ Turn(a, "open") /\ UNCHANGED <<verdict, hand>>
  /\ UNCHANGED <<text, overlap, work, shelf, editions, crashes>>

\* write_text opens the name: a new file, or the one another process made
\* since, which it empties.  From here the file is held, wherever it is renamed.
OpenPaper(a) ==
  /\ step[a] = "open"
  /\ LET k == Nth(hand[a].k)
         i == IF paper[k] = 0 THEN hand[a].no ELSE paper[k]
     IN /\ paper' = [paper EXCEPT ![k] = i]
        /\ text' = [text EXCEPT ![k][i] = [by |-> hand[a].no, whole |-> FALSE]]
        /\ Hold(a, [hand[a] EXCEPT !.file = i])
  /\ Turn(a, "fill")
  /\ UNCHANGED <<verdict, backups, overlap, work, shelf, editions, crashes>>

FillPaper(a) ==
  /\ step[a] = "fill"
  /\ LET h == hand[a]
     IN /\ text' = [text EXCEPT ![Nth(h.k)][h.file] = [by |-> h.no, whole |-> TRUE]]
        /\ IF h.k = Last THEN Done(a)
           ELSE Turn(a, "look") /\ Hold(a, [h EXCEPT !.k = h.k + 1])
  /\ UNCHANGED <<verdict, paper, backups, overlap, work, shelf, editions, crashes>>
-----------------------------------------------------------------------------
\* A solver, an intake or the operator changes the challenge's files.
Change ==
  /\ work <= MaxChanges /\ work' = work + 1
  /\ UNCHANGED <<verdict, step, hand, paper, text, backups, overlap, shelf, editions, crashes>>

\* Faulty: the archive always goes to postsolve/archive.
SameDir == {1}

\* _versioned_path: archive, archive.v1, ...: the first that does not exist.
FreeDir == {d \in Dirs : ~shelf[d].used /\ \A e \in 1..(d - 1) : shelf[e].used}

\* archive_artifacts: a name is chosen and every file hashed, ...
Archive(a) ==
  /\ step[a] = "free" /\ editions < MaxEditions /\ editions' = editions + 1
  /\ Turn(a, "mkdir") /\ \E d \in FreeDir : Hold(a, [Free EXCEPT !.saw = work, !.dir = d])
  /\ UNCHANGED <<verdict, paper, text, backups, overlap, work, shelf, crashes>>

\* ... the directory is made, if nobody else has, the files are copied as they are now, ...
CopyFiles(a) ==
  /\ step[a] = "mkdir" /\ Turn(a, "manifest")
  /\ LET d == hand[a].dir
     IN shelf' = [shelf EXCEPT ![d] = [@ EXCEPT !.used = TRUE, !.files = work,
                    !.mixed = shelf[d].mixed \/ work # hand[a].saw
                              \/ \E b \in Author \ {a} : step[b] \in {"mkdir", "manifest"} /\ hand[b].dir = d]]
  /\ UNCHANGED <<verdict, hand, paper, text, backups, overlap, work, editions, crashes>>

\* ... and the manifest tells the hashes.
Manifest(a) ==
  /\ step[a] = "manifest"
  /\ shelf' = [shelf EXCEPT ![hand[a].dir].manifest = hand[a].saw]
  /\ Done(a)
  /\ UNCHANGED <<verdict, paper, text, backups, overlap, work, editions, crashes>>

\* A process dies, or a write fails: a worker's exception parks the challenge.
Collapse(a) ==
  /\ step[a] # "free" /\ crashes < MaxCrashes /\ crashes' = crashes + 1
  /\ Done(a)
  /\ \/ verdict' = verdict
     \/ hand[a].who = "worker" /\ verdict' = "error"
  /\ UNCHANGED <<paper, text, backups, overlap, work, shelf, editions>>

FinishNext ==
  \/ Change \/ Requeue
  \/ \E a \in Author : \/ \E who \in {"worker", "operator"} : Generate(a, who)
                       \/ Look(a) \/ Rename(a) \/ OpenPaper(a) \/ FillPaper(a)
                       \/ Archive(a) \/ CopyFiles(a) \/ Manifest(a) \/ Collapse(a)

FinishSpec == FinishInit /\ [][FinishNext]_finishVars
-----------------------------------------------------------------------------
FinishTypeOK ==
  /\ verdict \in {"solving", "solved", "error"}
  /\ step \in [Author -> {"free", "look", "rename", "open", "fill", "mkdir", "manifest"}]
  /\ paper \in [Place -> 0..MaxEditions] /\ backups \in [Place -> SUBSET Dirs]
  /\ text \in [Place -> [Dirs -> [by : 0..MaxEditions, whole : BOOLEAN]]]

\* The edition n of paper k can still be read, under its own name or a backup's.
Readable(k, n) == \E i \in backups[k] \cup ({paper[k]} \ {0}) : text[k][i] = [by |-> n, whole |-> TRUE]

\* Nothing written is lost (docs/postsolve.md: "Existing files are preserved"):
\* as long as no two processes write papers at once, each edition whose summary
\* can be read can be read in all its parts, through deaths at any point.
EditionsKept ==
  ~overlap => \A n \in Dirs : Readable(Last, n) => \A k \in Place : Readable(k, n)

\* A paper in place is never replaced by nothing but a torn one: unless two
\* writers overlap, whatever was whole under its name stays readable.
PapersLast ==
  ~overlap' => \A k \in Place, n \in Dirs : Readable(k, n) => Readable(k, n)'

\* An archive is what its manifest says, also when an archiver died half way,
\* unless the files changed under the archiver or two archivers took one name.
ArchiveTrue ==
  \A d \in Dirs : shelf[d].manifest # 0 /\ ~shelf[d].mixed => shelf[d].files = shelf[d].manifest

\* Both records of a solve, the papers and the archives, can be relied on.
RecordsKept == [](EditionsKept /\ ArchiveTrue) /\ [][PapersLast]_finishVars
=============================================================================
