---------------------------- MODULE IntakeProofs ----------------------------
(***************************************************************************)
(* Proofs about Intake, Extraction and Finish, the way of a challenge's    *)
(* files from the platform to the solver and into the records of a solve.  *)
(* What is downloaded whole stays whole, and what a ready challenge shows  *)
(* its worker is complete, for any number of sessions, attachments,        *)
(* commands, copies and deaths: the invariant follows each session from    *)
(* the name it chose to the scan it reports. What an archive puts on the   *)
(* disk stays within its limits, whatever it holds: the invariant compares *)
(* the books with what is settled. Nothing that was written about a solve  *)
(* is lost while the writers keep out of each other's way, wherever they   *)
(* die: the invariant follows a lone writer from paper to paper, and each  *)
(* archiver to its manifest.                                               *)
(***************************************************************************)
EXTENDS MCBoard, BoardProofs, Finish, FiniteSetTheorems, TLAPS

USE IntakeAssumption

\* What raw/ holds under a name, what a scan saw, what a session carries.
States == {"absent", "torn", "whole", "text"}
Scans == [by : 0..MaxIntakes, files : [Copy -> States]]
Errands == [cmd : IntakeNames \cup {"none"}, todo : SUBSET Attachment, copy : Copy \cup {<<>>},
            got : SUBSET Copy, failed : BOOLEAN, scan : Scans]
\* A command downloads, has what it scans, or reports on its scan.
Fetching  == {"choose", "open", "read"}
Preparing == {"text", "write", "scan"}
Reporting == {"manifest", "brief", "mark"}
\* Where a session can be.
Spots == {"idle", "ask"} \cup Fetching \cup Preparing \cup Reporting

\* What a command at place l may hold.
Suits(l, m) ==
  /\ l # "idle" => m.cmd # "none"
  /\ l \in {"idle", "ask"} => m.todo = {} /\ m.got = {} /\ ~m.failed
  /\ l \in Fetching => m.cmd # "sync"
  /\ l \in {"open", "read"} => m.copy \in Copy
  /\ l = "open" => m.copy[1] \in m.todo
  /\ l \in Preparing \cup Reporting => m.todo = {} /\ (m.cmd # "sync" => m.got # {} \/ hosted = {})

(* The types of everything, and what each session may hold where it is.    *)
IntakeBase ==
  /\ adapter \in Adapters /\ hosted \subseteq Attachment /\ disk \in [Copy -> States]
  /\ namesake \subseteq hosted /\ rewritten \in {{}, namesake}
  /\ shown \in [manifest : Scans, brief : Scans]
  /\ queued \in {"absent", "new", "ready"} /\ ready \in {"none", "text", "ok", "partial", "no_attachments"}
  /\ clashed \in BOOLEAN /\ crossed \in BOOLEAN /\ shortened \in BOOLEAN
  /\ intakes \in 0..MaxIntakes /\ losses \in 0..MaxLosses
  /\ at \in [Visitor -> Spots] /\ loc \in [Visitor -> Errands]
  /\ \A s \in Visitor : Suits(at[s], loc[s])

(* A name that is about to be opened is free, one that is being filled is  *)
(* torn, and no two sessions have the same, nor one that a text ingest is  *)
(* writing, unless a name was in two hands at once.                        *)
Named ==
  clashed \/
    /\ \A s \in Visitor : /\ at[s] = "open" => disk[loc[s].copy] = "absent"
                          /\ at[s] = "read" => disk[loc[s].copy] = "torn"
    /\ \A s, o \in Visitor : s # o /\ at[s] = at[o] /\ at[s] \in {"open", "read"} => loc[s].copy # loc[o].copy
    /\ \A s \in Visitor : at[s] = "write" =>
         /\ \A x \in Statement : disk[x] \in {"torn", "text"}
         /\ \A o \in Visitor : at[o] \in {"open", "read"} => loc[o].copy \notin Statement

(* What a session counts as fetched is whole, on the disk and in its scan, *)
(* but for what a text ingest may have written over.                       *)
Fetched ==
  clashed \/ shortened \/
    \A s \in Visitor : \A x \in loc[s].got : x[1] \in rewritten \/
      /\ disk[x] = "whole"
      /\ at[s] \in Reporting => loc[s].scan.files[x] = "whole"

\* The attachments of a set of copies.
Firsts(S) == {x[1] : x \in S}
(* A download without a failure has fetched, is fetching or will fetch     *)
(* every attachment.                                                       *)
Collected ==
  Capped \/ \A s \in Visitor :
    /\ at[s] \in Fetching \cup Preparing \cup Reporting /\ loc[s].cmd # "sync" /\ ~loc[s].failed
    => hosted \subseteq loc[s].todo \cup Firsts(loc[s].got) \cup (IF at[s] = "read" THEN {loc[s].copy[1]} ELSE {})

(* At most one session reports; the files it has written tell of its scan, *)
(* and, unless a session died, both tell of one scan when none is half     *)
(* way.                                                                    *)
Informed ==
  crossed \/
    /\ \A s, o \in Visitor : at[s] \in Reporting /\ at[o] \in Reporting => s = o
    /\ \A s \in Visitor : /\ at[s] \in {"brief", "mark"} => shown.manifest = loc[s].scan
                          /\ at[s] = "mark" => shown.brief = loc[s].scan
    /\ losses = 0 /\ (\A s \in Visitor : at[s] # "brief") => shown.brief = shown.manifest

\* In these files there is a whole copy of every attachment outside W.
Complete(W, files) == \A f \in hosted \ W : \E n \in 0..MaxCopies : files[<<f, n>>] = "whole"
(* A ready challenge has its files: on the disk, in the manifest, and in   *)
(* the scan of anyone who is about to replace it.                          *)
ReadyOk ==
  queued = "ready" /\ ready = "ok" /\ ~clashed /\ ~crossed /\ ~shortened /\ ~Capped =>
    /\ Complete(rewritten, disk) /\ Complete(rewritten, shown.manifest.files)
    /\ \A s \in Visitor : at[s] \in Reporting => Complete(rewritten, loc[s].scan.files)

(* The inductive invariant.                                                *)
IntakeInvariant == IntakeBase /\ Named /\ Fetched /\ Collected /\ Informed /\ ReadyOk

-----------------------------------------------------------------------------
(* The locals of a session.                                                *)
LEMMA Fields ==
  ASSUME NEW m \in Errands
  PROVE  /\ \A S \in SUBSET Attachment : LET n == [m EXCEPT !.todo = S] IN
              n \in Errands /\ n.todo = S /\ n.cmd = m.cmd /\ n.copy = m.copy /\ n.got = m.got
                /\ n.failed = m.failed /\ n.scan = m.scan
         /\ \A x \in Copy : LET n == [m EXCEPT !.copy = x] IN
              n \in Errands /\ n.copy = x /\ n.cmd = m.cmd /\ n.todo = m.todo /\ n.got = m.got
                /\ n.failed = m.failed /\ n.scan = m.scan
         /\ \A S \in SUBSET Attachment : LET n == [m EXCEPT !.todo = S, !.failed = TRUE] IN
              n \in Errands /\ n.todo = S /\ n.failed /\ n.cmd = m.cmd /\ n.copy = m.copy
                /\ n.got = m.got /\ n.scan = m.scan
         /\ \A x \in Copy : LET n == [m EXCEPT !.got = @ \cup {x}] IN
              n \in Errands /\ n.got = m.got \cup {x} /\ n.cmd = m.cmd /\ n.todo = m.todo
                /\ n.copy = m.copy /\ n.failed = m.failed /\ n.scan = m.scan
         /\ \A x \in Scans : LET n == [m EXCEPT !.scan = x] IN
              n \in Errands /\ n.scan = x /\ n.cmd = m.cmd /\ n.todo = m.todo /\ n.got = m.got
                /\ n.copy = m.copy /\ n.failed = m.failed
  BY DEF Errands

(* One field at a time.                                                    *)
LEMMA FieldsCopy ==
  ASSUME NEW m \in Errands, NEW x \in Copy
  PROVE  LET n == [m EXCEPT !.copy = x] IN
           n.copy = x /\ n.cmd = m.cmd /\ n.todo = m.todo /\ n.got = m.got
             /\ n.failed = m.failed /\ n.scan = m.scan
  BY DEF Errands

(* The same for what is still to fetch, ...                                *)
LEMMA FieldsTodo ==
  ASSUME NEW m \in Errands, NEW S \in SUBSET Attachment
  PROVE  LET n == [m EXCEPT !.todo = S] IN
           n.todo = S /\ n.cmd = m.cmd /\ n.copy = m.copy /\ n.got = m.got
             /\ n.failed = m.failed /\ n.scan = m.scan
  BY DEF Errands

(* ... and for what has been fetched.                                      *)
LEMMA FieldsGot ==
  ASSUME NEW m \in Errands, NEW x \in Copy
  PROVE  LET n == [m EXCEPT !.got = @ \cup {x}] IN
           n.got = m.got \cup {x} /\ n.cmd = m.cmd /\ n.todo = m.todo
             /\ n.copy = m.copy /\ n.failed = m.failed /\ n.scan = m.scan
  BY DEF Errands

(* The blank locals.                                                       *)
LEMMA NoScanTyped == NoScan \in Scans
  BY DEF NoScan, Scans, States

(* A session without a command carries nothing, one that enters the        *)
(* command.                                                                *)
LEMMA BlankFields ==
  /\ NoIntake \in Errands /\ NoIntake.cmd = "none" /\ NoIntake.todo = {} /\ NoIntake.got = {}
  /\ ~NoIntake.failed
  /\ \A c \in IntakeNames : LET n == [NoIntake EXCEPT !.cmd = c] IN
       n \in Errands /\ n.cmd = c /\ n.todo = {} /\ n.got = {} /\ ~n.failed
  <1>1. NoScan \in Scans
    BY NoScanTyped
  <1> HIDE DEF NoScan
  <1> QED
    BY <1>1 DEF NoIntake, Errands

\* The other sessions stay where they are.
Others(s) == \A o \in Visitor \ {s} : at'[o] = at[o] /\ loc'[o] = loc[o]

(* What Go and Keep do to the two functions.                               *)
LEMMA Moves ==
  ASSUME IntakeBase, NEW s \in Visitor, NEW l \in Spots, Go(s, l)
  PROVE  /\ at' \in [Visitor -> Spots] /\ at'[s] = l
         /\ \A o \in Visitor \ {s} : at'[o] = at[o]
  BY DEF IntakeBase, Go

(* The same for the locals.                                                *)
LEMMA Keeps ==
  ASSUME IntakeBase, NEW s \in Visitor, NEW m \in Errands, Keep(s, m)
  PROVE  /\ loc' \in [Visitor -> Errands] /\ loc'[s] = m
         /\ \A o \in Visitor \ {s} : loc'[o] = loc[o]
  BY DEF IntakeBase, Keep

(* A session that ends its command holds nothing.                          *)
Away(s) == /\ at' \in [Visitor -> Spots] /\ loc' \in [Visitor -> Errands] /\ Others(s)
           /\ at'[s] = "idle" /\ loc'[s] = NoIntake

(* Quit is such an end.                                                    *)
LEMMA QuitEnds ==
  ASSUME IntakeBase, NEW s \in Visitor, Quit(s)
  PROVE  Away(s)
  <1>1. "idle" \in Spots
    BY DEF Spots
  <1> QED
    BY <1>1, BlankFields, Moves, Keeps DEF Quit, Away, Others

(* A session goes on to place l with the locals m.                         *)
Hops(s, l, m) == /\ at' \in [Visitor -> Spots] /\ loc' \in [Visitor -> Errands] /\ Others(s)
                 /\ at'[s] = l /\ loc'[s] = m /\ m \in Errands

(* Go and Keep together.                                                   *)
LEMMA GoesOn ==
  ASSUME IntakeBase, NEW s \in Visitor, NEW l \in Spots, NEW m \in Errands, Go(s, l), Keep(s, m)
  PROVE  Hops(s, l, m)
  BY Moves, Keeps DEF Hops, Others

(* Go with the locals as they are.                                         *)
LEMMA GoesOnWith ==
  ASSUME IntakeBase, NEW s \in Visitor, NEW l \in Spots, Go(s, l), UNCHANGED loc
  PROVE  Hops(s, l, loc[s])
  BY Moves DEF Hops, Others, IntakeBase

(* The state of the session that acts fits its place, and so do those of   *)
(* the others.                                                             *)
LEMMA OthersSuit ==
  ASSUME IntakeBase, NEW s \in Visitor, Others(s), UNCHANGED hosted, Suits(at[s], loc[s])'
  PROVE  \A o \in Visitor : Suits(at[o], loc[o])'
  <1> SUFFICES ASSUME NEW o \in Visitor, o # s PROVE Suits(at[o], loc[o])'
    OBVIOUS
  <1>1. Suits(at[o], loc[o]) /\ at'[o] = at[o] /\ loc'[o] = loc[o]
    BY DEF IntakeBase, Others
  <1> QED
    BY <1>1 DEF Suits

(* Holding nothing fits being idle.                                        *)
LEMMA IdleSuits ==
  ASSUME NEW s \in Visitor, Away(s)
  PROVE  Suits(at[s], loc[s])'
  BY BlankFields DEF Away, Suits, Fetching, Preparing, Reporting
-----------------------------------------------------------------------------
(* What the operators on a download say.                                   *)
LEMMA ScansWhat ==
  ASSUME NEW m \in Errands, m.cmd \in IntakeNames \ {"sync"}, AfterDownload(m) # "idle"
  PROVE  AfterDownload(m) \in {"scan", "text"} /\ (m.got # {} \/ hosted = {})
  <1>1. m.got = {} /\ hosted # {} => DownloadStatus(m) = "failed"
    BY DEF DownloadStatus
  <1>2. m.cmd \in {"download", "ingest", "smoke", "rehearse"}
    BY DEF IntakeNames
  <1> HIDE DEF DownloadStatus
  <1>3. AfterDownload(m) \in {"idle", "scan", "text"}
    BY <1>2 DEF AfterDownload
  <1>5. DownloadStatus(m) = "no_attachments" => hosted = {}
    BY DEF DownloadStatus
  <1>4. AfterDownload(m) # "idle" => m.got # {} \/ hosted = {}
    BY <1>1, <1>2, <1>5 DEF AfterDownload
  <1> QED
    BY <1>3, <1>4

(* A download that is scanned has not failed; "ok" means files and no      *)
(* failure.                                                                *)
LEMMA StatusSays ==
  ASSUME NEW m \in Errands, m.got # {} \/ hosted = {}
  PROVE  /\ DownloadStatus(m) \in {"ok", "partial", "no_attachments"}
         /\ DownloadStatus(m) = "ok" => m.got # {} /\ ~m.failed
  BY DEF DownloadStatus, Errands

(* Below the limit, every attachment is taken.                             *)
LEMMA OfferedAll ==
  ASSUME IntakeBase
  PROVE  /\ \A S \in Offered : S \subseteq Attachment
         /\ ~Capped => Offered = {hosted}
  <1>1. IsFiniteSet(hosted) /\ Cardinality(hosted) \in Nat
    BY FS_Subset, FS_CardinalityType DEF IntakeBase
  <1>2. adapter \in {"ctfd", "generic"} /\ hosted \subseteq Attachment
    BY DEF IntakeBase
  <1> DEFINE k == Cardinality(hosted)
  <1>3. ~Capped => adapter = "ctfd" \/ k <= MaxDownloads
    <2>1. k \in Nat
      BY <1>1
    <2>2. Capped <=> adapter = "generic" /\ k > MaxDownloads
      BY DEF Capped
    <2> HIDE DEF k
    <2> QED
      BY <1>2, <2>1, <2>2
  <1> QED
    BY <1>2, <1>3 DEF Offered
-----------------------------------------------------------------------------
(* What the steps of a session do.                                         *)
LEMMA EnterDoes ==
  ASSUME IntakeBase, NEW s \in Visitor, NEW c \in Intakes, Enter(s, c)
  PROVE  /\ at[s] = "idle" /\ Hops(s, "ask", [NoIntake EXCEPT !.cmd = c]) /\ c \in IntakeNames
         /\ intakes' \in 0..MaxIntakes
  <1>1. "ask" \in Spots
    BY DEF Spots
  <1>2. c \in IntakeNames
    BY DEF IntakeNames
  <1>3. intakes' \in 0..MaxIntakes
    BY DEF IntakeBase, Enter
  <1> QED
    BY <1>1, <1>2, <1>3, BlankFields, GoesOn DEF Enter

\* The platform does not answer, gives a statement, or lists attachments.
AskEffect(s) ==
  \/ Away(s)
  \/ TextOnly(loc[s]) /\ Hops(s, "text", loc[s])
  \/ \E S \in Offered : ~TextOnly(loc[s]) /\ Hops(s, "choose", [loc[s] EXCEPT !.todo = S])

(* Ask has one of these effects, and at most adds the challenge.           *)
LEMMA AskDoes ==
  ASSUME IntakeBase, NEW s \in Visitor, Ask(s)
  PROVE  AskEffect(s) /\ queued' \in {queued, IF queued = "absent" THEN "new" ELSE queued}
  <1>1. queued' \in {queued, IF queued = "absent" THEN "new" ELSE queued}
    BY DEF Ask, TakeText, TakeFiles, NoAnswer, Added
  <1>2. loc[s] \in Errands /\ {"text", "choose"} \subseteq Spots
    BY DEF IntakeBase, Spots, Fetching, Preparing
  <1>3. ASSUME NoAnswer(s) PROVE Away(s)
    BY <1>3, QuitEnds DEF NoAnswer
  <1>4. ASSUME Go(s, "text"), UNCHANGED loc PROVE Hops(s, "text", loc[s])
    BY <1>2, <1>4, GoesOnWith
  <1>5. ASSUME NEW S \in Offered, Go(s, "choose"), Keep(s, [loc[s] EXCEPT !.todo = S])
        PROVE  Hops(s, "choose", [loc[s] EXCEPT !.todo = S])
    <2>1. S \in SUBSET Attachment
      BY OfferedAll
    <2> DEFINE n == [loc[s] EXCEPT !.todo = S]
    <2>2. n \in Errands
      BY <1>2, <2>1, Fields
    <2> HIDE DEF n
    <2>3. Go(s, "choose") /\ Keep(s, n)
      BY <1>5 DEF n
    <2>4. Hops(s, "choose", n)
      BY <1>2, <2>2, <2>3, GoesOn
    <2> QED
      BY <2>4 DEF n
  <1> QED
    BY <1>1, <1>3, <1>4, <1>5 DEF Ask, TakeText, TakeFiles, AskEffect

\* The command ends, scans or takes the text, or a free name is found.
ChooseEffect(s) ==
  \/ Away(s)
  \/ /\ loc[s].todo = {} /\ AfterDownload(loc[s]) # "idle" /\ Hops(s, AfterDownload(loc[s]), loc[s])
  \/ \E f \in loc[s].todo : \E n \in FreeName(f) :
       /\ <<f, n>> \in Copy /\ disk[<<f, n>>] = "absent"
       /\ Hops(s, "open", [loc[s] EXCEPT !.copy = <<f, n>>])

(* So has ChooseName, ...                                                  *)
LEMMA ChooseDoes ==
  ASSUME IntakeBase, NEW s \in Visitor, ChooseName(s)
  PROVE  ChooseEffect(s)
  <1>2. loc[s] \in Errands /\ {"text", "scan", "open"} \subseteq Spots
    BY DEF IntakeBase, Spots, Fetching, Preparing
  <1>3. ASSUME Quit(s) PROVE Away(s)
    BY <1>3, QuitEnds
  <1>4. ASSUME AfterDownload(loc[s]) # "idle", Go(s, AfterDownload(loc[s])), UNCHANGED loc
        PROVE  Hops(s, AfterDownload(loc[s]), loc[s])
    <2>1. loc[s].cmd \in IntakeNames \ {"sync"}
      BY <1>2 DEF ChooseName, FilesTaken, IntakeBase, Suits, Fetching, Errands
    <2>2. AfterDownload(loc[s]) \in Spots
      BY <1>2, <1>4, <2>1, ScansWhat
    <2> QED
      BY <1>4, <2>2, GoesOnWith
  <1>5. ASSUME NEW f \in loc[s].todo, NEW k \in FreeName(f), Go(s, "open"),
               Keep(s, [loc[s] EXCEPT !.copy = <<f, k>>])
        PROVE  /\ <<f, k>> \in Copy /\ disk[<<f, k>>] = "absent"
               /\ Hops(s, "open", [loc[s] EXCEPT !.copy = <<f, k>>])
    <2>1. <<f, k>> \in Copy /\ disk[<<f, k>>] = "absent"
      BY <1>2 DEF FreeName, Copy, Errands
    <2> DEFINE n == [loc[s] EXCEPT !.copy = <<f, k>>]
    <2>2. n \in Errands
      BY <1>2, <2>1, Fields
    <2> HIDE DEF n
    <2>3. Go(s, "open") /\ Keep(s, n)
      BY <1>5 DEF n
    <2>4. Hops(s, "open", n)
      BY <1>2, <2>2, <2>3, GoesOn
    <2> QED
      BY <2>1, <2>4 DEF n
  <1>6. CASE loc[s].todo = {}
    BY <1>3, <1>4, <1>6 DEF ChooseName, FilesTaken, ChooseEffect
  <1>7. CASE loc[s].todo # {}
    <2>1. PICK f \in loc[s].todo : \E n \in FreeName(f) : Go(s, "open") /\ Keep(s, [loc[s] EXCEPT !.copy = <<f, n>>])
      BY <1>7 DEF ChooseName
    <2>2. PICK n \in FreeName(f) : Go(s, "open") /\ Keep(s, [loc[s] EXCEPT !.copy = <<f, n>>])
      BY <2>1
    <2> QED
      BY <1>5, <2>2 DEF ChooseEffect
  <1> QED
    BY <1>6, <1>7

\* What is left after the attachment at hand.
Rest(m) == m.todo \ {m.copy[1]}
\* Refused, or emptied and open.
OpenEffect(s) ==
  \/ UNCHANGED disk /\ Hops(s, "choose", [loc[s] EXCEPT !.todo = Rest(loc[s]), !.failed = TRUE])
  \/ /\ disk' = [disk EXCEPT ![loc[s].copy] = "torn"]
     /\ Hops(s, "read", [loc[s] EXCEPT !.todo = Rest(loc[s])])

(* ... Open, ...                                                           *)
LEMMA OpenDoes ==
  ASSUME IntakeBase, NEW s \in Visitor, Open(s)
  PROVE  OpenEffect(s) /\ disk' \in [Copy -> States]
  <1>1. loc[s] \in Errands /\ {"choose", "read"} \subseteq Spots
    BY DEF IntakeBase, Spots, Fetching
  <1>2. Rest(loc[s]) \in SUBSET Attachment
    BY <1>1 DEF Rest, Errands
  <1> DEFINE m == [loc[s] EXCEPT !.todo = Rest(loc[s]), !.failed = TRUE]
             n == [loc[s] EXCEPT !.todo = Rest(loc[s])]
  <1>3. m \in Errands /\ n \in Errands
    BY <1>1, <1>2, Fields
  <1>4. \/ Go(s, "choose") /\ Keep(s, m) /\ UNCHANGED disk
        \/ Go(s, "read") /\ Keep(s, n) /\ disk' = [disk EXCEPT ![loc[s].copy] = "torn"]
    BY DEF Open, Rest
  <1> HIDE DEF m, n
  <1>5. \/ Hops(s, "choose", m) /\ UNCHANGED disk
        \/ Hops(s, "read", n) /\ disk' = [disk EXCEPT ![loc[s].copy] = "torn"]
    BY <1>1, <1>3, <1>4, GoesOn
  <1>6. disk' \in [Copy -> States]
    BY <1>5 DEF IntakeBase, States
  <1> QED
    BY <1>5, <1>6 DEF m, n, OpenEffect

\* Whole, short without notice, or broken off.
ReadEffect(s) ==
  \/ UNCHANGED <<disk, shortened>> /\ Away(s)
  \/ /\ Hops(s, "choose", [loc[s] EXCEPT !.got = @ \cup {loc[s].copy}])
     /\ \/ UNCHANGED shortened /\ disk' = [disk EXCEPT ![loc[s].copy] = "whole"]
        \/ shortened' = TRUE /\ UNCHANGED disk

(* ... Read, ...                                                           *)
LEMMA ReadDoes ==
  ASSUME IntakeBase, NEW s \in Visitor, Read(s)
  PROVE  ReadEffect(s) /\ disk' \in [Copy -> States] /\ shortened' \in BOOLEAN
  <1>1. loc[s] \in Errands /\ "choose" \in Spots /\ loc[s].copy \in Copy
    BY DEF IntakeBase, Spots, Fetching, Read, Suits
  <1> DEFINE n == [loc[s] EXCEPT !.got = @ \cup {loc[s].copy}]
  <1>2. n \in Errands
    BY <1>1, Fields
  <1>3. \/ Quit(s) /\ UNCHANGED <<disk, shortened>>
        \/ /\ Go(s, "choose") /\ Keep(s, n)
           /\ \/ UNCHANGED shortened /\ disk' = [disk EXCEPT ![loc[s].copy] = "whole"]
              \/ shortened' = TRUE /\ UNCHANGED disk
    BY DEF Read
  <1> HIDE DEF n
  <1>4. \/ Away(s) /\ UNCHANGED <<disk, shortened>>
        \/ /\ Hops(s, "choose", n)
           /\ \/ UNCHANGED shortened /\ disk' = [disk EXCEPT ![loc[s].copy] = "whole"]
              \/ shortened' = TRUE /\ UNCHANGED disk
    BY <1>1, <1>2, <1>3, GoesOn, QuitEnds
  <1>5. disk' \in [Copy -> States] /\ shortened' \in BOOLEAN
    BY <1>4 DEF IntakeBase, States
  <1> QED
    BY <1>4, <1>5 DEF n, ReadEffect

(* ... OpenStatement, ...                                                  *)
LEMMA EmptyDoes ==
  ASSUME IntakeBase, NEW s \in Visitor, OpenStatement(s)
  PROVE  Hops(s, "write", loc[s]) /\ disk' \in [Copy -> States] /\ clashed' \in BOOLEAN
  <1>1. Go(s, "write") /\ UNCHANGED loc /\ "write" \in Spots
    BY DEF OpenStatement, Spots, Preparing
  <1>2. disk' \in [Copy -> States] /\ clashed' \in BOOLEAN
    BY DEF OpenStatement, IntakeBase, States
  <1> QED
    BY <1>1, <1>2, GoesOnWith

(* ... WriteStatement, ...                                                 *)
LEMMA PenDoes ==
  ASSUME IntakeBase, NEW s \in Visitor, WriteStatement(s)
  PROVE  Hops(s, "scan", loc[s]) /\ disk' \in [Copy -> States]
  <1>1. Go(s, "scan") /\ UNCHANGED loc /\ "scan" \in Spots
    BY DEF WriteStatement, Spots, Preparing
  <1>2. disk' \in [Copy -> States]
    BY DEF WriteStatement, IntakeBase, States
  <1> QED
    BY <1>1, <1>2, GoesOnWith

\* What a scan sees.
Sight == [by |-> intakes, files |-> disk]
(* ... Scan, ...                                                           *)
LEMMA ScanDoes ==
  ASSUME IntakeBase, NEW s \in Visitor, Scan(s)
  PROVE  Hops(s, "manifest", [loc[s] EXCEPT !.scan = Sight]) /\ Sight \in Scans /\ Sight.files = disk
  <1>1. loc[s] \in Errands /\ "manifest" \in Spots
    BY DEF IntakeBase, Spots, Reporting
  <1>2. Sight \in Scans /\ Sight.files = disk
    BY DEF IntakeBase, Scans, Sight
  <1> DEFINE n == [loc[s] EXCEPT !.scan = Sight]
  <1>3. n \in Errands
    BY <1>1, <1>2, Fields
  <1>4. Go(s, "manifest") /\ Keep(s, n)
    BY DEF Scan, Sight
  <1> HIDE DEF n
  <1>5. Hops(s, "manifest", n)
    BY <1>1, <1>3, <1>4, GoesOn
  <1> QED
    BY <1>2, <1>5 DEF n

(* ... Write, ...                                                          *)
LEMMA WriteDoes ==
  ASSUME IntakeBase, NEW s \in Visitor, Write(s)
  PROVE  /\ shown' \in [manifest : Scans, brief : Scans]
         /\ \/ /\ at[s] = "manifest" /\ Hops(s, "brief", loc[s])
               /\ shown'.manifest = loc[s].scan /\ shown'.brief = shown.brief
            \/ /\ at[s] = "brief" /\ Hops(s, "mark", loc[s])
               /\ shown'.brief = loc[s].scan /\ shown'.manifest = shown.manifest
  <1>1. at[s] \in {"manifest", "brief"} /\ {"brief", "mark"} \subseteq Spots
    BY DEF Write, Order, Spots, Reporting
  <1>2. loc[s].scan \in Scans /\ shown \in [manifest : Scans, brief : Scans]
    BY DEF IntakeBase, Errands
  <1>3. CASE at[s] = "manifest"
    <2>0. Order["manifest"] = "brief"
      BY DEF Order
    <2>1. Go(s, "brief") /\ UNCHANGED loc /\ shown' = [shown EXCEPT !["manifest"] = loc[s].scan]
      BY <1>3, <2>0, Zenon DEF Write
    <2>2. Hops(s, "brief", loc[s])
      BY <1>1, <2>1, GoesOnWith
    <2>3. \A x \in Scans : LET h == [shown EXCEPT !["manifest"] = x] IN
            h \in [manifest : Scans, brief : Scans] /\ h.manifest = x /\ h.brief = shown.brief
      BY <1>2
    <2> DEFINE x == loc[s].scan
    <2>4. shown' = [shown EXCEPT !["manifest"] = x] /\ x \in Scans
      BY <1>2, <2>1
    <2> HIDE DEF x
    <2>5. shown' \in [manifest : Scans, brief : Scans] /\ shown'.manifest = x /\ shown'.brief = shown.brief
      BY <2>3, <2>4
    <2> QED
      BY <1>3, <2>2, <2>5 DEF x
  <1>4. CASE at[s] = "brief"
    <2>0. Order["brief"] = "mark"
      BY DEF Order
    <2>1. Go(s, "mark") /\ UNCHANGED loc /\ shown' = [shown EXCEPT !["brief"] = loc[s].scan]
      BY <1>4, <2>0, Zenon DEF Write
    <2>2. Hops(s, "mark", loc[s])
      BY <1>1, <2>1, GoesOnWith
    <2>3. \A x \in Scans : LET h == [shown EXCEPT !["brief"] = x] IN
            h \in [manifest : Scans, brief : Scans] /\ h.brief = x /\ h.manifest = shown.manifest
      BY <1>2
    <2> DEFINE x == loc[s].scan
    <2>4. shown' = [shown EXCEPT !["brief"] = x] /\ x \in Scans
      BY <1>2, <2>1
    <2> HIDE DEF x
    <2>5. shown' \in [manifest : Scans, brief : Scans] /\ shown'.brief = x /\ shown'.manifest = shown.manifest
      BY <2>3, <2>4
    <2> QED
      BY <1>4, <2>2, <2>5 DEF x
  <1> QED
    BY <1>1, <1>3, <1>4

(* ... Mark, ...                                                           *)
LEMMA MarkDoes ==
  ASSUME IntakeBase, NEW s \in Visitor, Mark(s)
  PROVE  /\ at[s] = "mark" /\ Away(s)
         /\ \/ UNCHANGED <<queued, ready>>
            \/ queued' = "ready" /\ ready' = "text"
            \/ queued' = "ready" /\ ~TextOnly(loc[s]) /\ ready' = DownloadStatus(loc[s])
  BY QuitEnds DEF Mark
(* ... and Perish.                                                         *)
LEMMA PerishDoes ==
  ASSUME IntakeBase, NEW s \in Visitor, Perish(s)
  PROVE  at[s] # "idle" /\ Away(s) /\ losses' \in 0..MaxLosses /\ losses' # 0
  <1>1. losses' \in 0..MaxLosses /\ losses' # 0
    BY DEF IntakeBase, Perish
  <1> QED
    BY <1>1, QuitEnds DEF Perish

\* The steps of a session.
VisitorStep(s) ==
  \/ \E c \in Intakes : Enter(s, c)
  \/ Ask(s) \/ ChooseName(s) \/ Open(s) \/ Read(s) \/ OpenStatement(s) \/ WriteStatement(s)
  \/ Scan(s) \/ Write(s) \/ Mark(s) \/ Perish(s)

(* What it leaves alone in every step.                                     *)
LEMMA StepLeaves ==
  ASSUME IntakeBase, NEW s \in Visitor, VisitorStep(s)
  PROVE  UNCHANGED <<adapter, hosted, namesake>> /\ Others(s)
  <1>1. UNCHANGED <<adapter, hosted, namesake>>
    BY DEF VisitorStep, Enter, Ask, ChooseName, Open, Read, OpenStatement, WriteStatement, Scan, Write, Mark, Perish
  <1>2. ASSUME NEW c \in Intakes, Enter(s, c) PROVE Others(s)
    BY <1>2, EnterDoes DEF Hops
  <1>3. Ask(s) => Others(s)
    BY AskDoes DEF AskEffect, Hops, Away
  <1>4. ChooseName(s) => Others(s)
    BY ChooseDoes DEF ChooseEffect, Hops, Away
  <1>5. Open(s) => Others(s)
    BY OpenDoes DEF OpenEffect, Hops
  <1>6. Read(s) => Others(s)
    BY ReadDoes DEF ReadEffect, Hops, Away
  <1>7. Scan(s) \/ Write(s) \/ OpenStatement(s) \/ WriteStatement(s) => Others(s)
    BY ScanDoes, WriteDoes, EmptyDoes, PenDoes DEF Hops
  <1>8. Mark(s) \/ Perish(s) => Others(s)
    BY MarkDoes, PerishDoes DEF Away
  <1> QED
    BY <1>1, <1>2, <1>3, <1>4, <1>5, <1>6, <1>7, <1>8 DEF VisitorStep

\* The types of what is not local.
Stored ==
  /\ adapter \in Adapters /\ hosted \subseteq Attachment /\ disk \in [Copy -> States]
  /\ namesake \subseteq hosted /\ rewritten \in {{}, namesake}
  /\ shown \in [manifest : Scans, brief : Scans]
  /\ queued \in {"absent", "new", "ready"} /\ ready \in {"none", "text", "ok", "partial", "no_attachments"}
  /\ clashed \in BOOLEAN /\ crossed \in BOOLEAN /\ shortened \in BOOLEAN
  /\ intakes \in 0..MaxIntakes /\ losses \in 0..MaxLosses

(* The base from its parts: what is stored, and the session that acts.     *)
LEMMA BaseOf ==
  ASSUME IntakeBase, NEW s \in Visitor, Others(s), UNCHANGED hosted, Stored', Suits(at[s], loc[s])',
         at' \in [Visitor -> Spots], loc' \in [Visitor -> Errands]
  PROVE  IntakeBase'
  <1>1. \A o \in Visitor : Suits(at[o], loc[o])'
    BY OthersSuit
  <1> QED
    BY <1>1 DEF Stored, IntakeBase

(* Every step keeps the base.                                              *)
LEMMA BaseKept ==
  ASSUME IntakeBase, NEW s \in Visitor, VisitorStep(s)
  PROVE  IntakeBase'
  <1> USE DEF Fetching, Preparing, Reporting
  <1>0. UNCHANGED <<adapter, hosted, namesake>> /\ Others(s) /\ Stored /\ loc[s] \in Errands /\ Suits(at[s], loc[s])
    BY StepLeaves DEF IntakeBase, Stored
  <1>e. ASSUME Away(s), Stored' PROVE IntakeBase'
    BY <1>0, <1>e, BaseOf, IdleSuits DEF Away
  <1>g. ASSUME NEW l, NEW m, Hops(s, l, m), Suits(l, m), Stored' PROVE IntakeBase'
    <2>1. Suits(at[s], loc[s])'
      BY <1>0, <1>g DEF Hops, Suits
    <2> QED
      BY <1>0, <1>g, <2>1, BaseOf DEF Hops
  <1>1. ASSUME NEW c \in Intakes, Enter(s, c) PROVE IntakeBase'
    <2>1. Stored'
      BY <1>0, <1>1, EnterDoes DEF Enter, Stored
    <2> DEFINE m == [NoIntake EXCEPT !.cmd = c]
    <2>2. m.cmd = c /\ m.todo = {} /\ m.got = {} /\ ~m.failed /\ c # "none"
      BY <1>1, EnterDoes, BlankFields DEF IntakeNames
    <2>3. Hops(s, "ask", m)
      BY <1>1, EnterDoes
    <2> HIDE DEF m
    <2>4. Suits("ask", m)
      BY <2>2 DEF Suits
    <2> QED
      BY <1>g, <2>1, <2>3, <2>4
  <1>2. ASSUME Ask(s) PROVE IntakeBase'
    <2>1. Stored'
      BY <1>0, <1>2, AskDoes DEF Ask, Stored
    <2>2. at[s] = "ask" /\ AskEffect(s)
      BY <1>2, AskDoes DEF Ask
    <2>3. ASSUME TextOnly(loc[s]), Hops(s, "text", loc[s]) PROVE IntakeBase'
      <3>1. Suits("text", loc[s])
        BY <1>0, <2>2, <2>3 DEF Suits, Hops, TextOnly
      <3> QED
        BY <1>g, <2>1, <2>3, <3>1
    <2>4. ASSUME NEW S \in Offered, ~TextOnly(loc[s]), Hops(s, "choose", [loc[s] EXCEPT !.todo = S])
          PROVE  IntakeBase'
      <3> DEFINE m == [loc[s] EXCEPT !.todo = S]
      <3>1. m.cmd = loc[s].cmd
        BY <1>0, OfferedAll, Fields
      <3>2. Hops(s, "choose", m)
        BY <2>4
      <3> HIDE DEF m
      <3>3. Suits("choose", m)
        BY <1>0, <2>2, <2>4, <3>1 DEF Suits, TextOnly
      <3> QED
        BY <1>g, <2>1, <3>2, <3>3
    <2> QED
      BY <1>e, <2>1, <2>2, <2>3, <2>4 DEF AskEffect
  <1>3. ASSUME ChooseName(s) PROVE IntakeBase'
    <2>1. Stored'
      BY <1>0, <1>3 DEF ChooseName, Stored
    <2>2. at[s] = "choose" /\ ChooseEffect(s)
      BY <1>3, ChooseDoes DEF ChooseName
    <2>3. ASSUME loc[s].todo = {}, AfterDownload(loc[s]) # "idle", Hops(s, AfterDownload(loc[s]), loc[s])
          PROVE  IntakeBase'
      <3>1. loc[s].cmd \in IntakeNames \ {"sync"}
        BY <1>0, <2>2 DEF Suits, Errands
      <3>2. AfterDownload(loc[s]) \in {"scan", "text"} /\ (loc[s].got # {} \/ hosted = {})
        BY <1>0, <2>3, <3>1, ScansWhat
      <3>3. Suits("scan", loc[s]) /\ Suits("text", loc[s])
        BY <1>0, <2>2, <2>3, <3>1, <3>2 DEF Suits, IntakeNames
      <3> QED
        BY <1>g, <2>1, <2>3, <3>2, <3>3
    <2>c. \A x \in Copy : LET m == [loc[s] EXCEPT !.copy = x] IN
            m.cmd = loc[s].cmd /\ m.copy = x /\ m.todo = loc[s].todo
      BY <1>0, Fields
    <2>4. ASSUME NEW f \in loc[s].todo, NEW n \in FreeName(f), <<f, n>> \in Copy,
                 Hops(s, "open", [loc[s] EXCEPT !.copy = <<f, n>>])
          PROVE  IntakeBase'
      <3>0. PICK x \in Copy : x = <<f, n>>
        BY <2>4
      <3> DEFINE m == [loc[s] EXCEPT !.copy = x]
      <3>1. m.cmd = loc[s].cmd /\ m.copy = x /\ m.todo = loc[s].todo
        BY <2>c
      <3>2. Hops(s, "open", m)
        BY <2>4, <3>0
      <3> HIDE DEF m
      <3>3. Suits("open", m)
        BY <1>0, <2>2, <2>4, <3>0, <3>1 DEF Suits
      <3> QED
        BY <1>g, <2>1, <3>2, <3>3
    <2> QED
      BY <1>e, <2>1, <2>2, <2>3, <2>4 DEF ChooseEffect
  <1>4. ASSUME Open(s) PROVE IntakeBase'
    <2>1. Stored'
      BY <1>0, <1>4, OpenDoes DEF Open, Stored
    <2>2. at[s] = "open" /\ OpenEffect(s) /\ Rest(loc[s]) \in SUBSET Attachment
      BY <1>0, <1>4, OpenDoes DEF Open, Rest, Errands
    <2>r. PICK S \in SUBSET Attachment : S = Rest(loc[s])
      BY <2>2
    <2> DEFINE m == [loc[s] EXCEPT !.todo = S, !.failed = TRUE]
               n == [loc[s] EXCEPT !.todo = S]
    <2>3. m.cmd = loc[s].cmd /\ n.cmd = loc[s].cmd /\ n.copy = loc[s].copy
      BY <1>0, Fields
    <2>4. Hops(s, "choose", m) \/ Hops(s, "read", n)
      BY <2>2, <2>r DEF OpenEffect
    <2> HIDE DEF m, n
    <2>5. Suits("choose", m) /\ Suits("read", n)
      BY <1>0, <2>2, <2>3 DEF Suits
    <2> QED
      BY <1>g, <2>1, <2>4, <2>5
  <1>5. ASSUME Read(s) PROVE IntakeBase'
    <2>1. Stored'
      BY <1>0, <1>5, ReadDoes DEF Read, Stored
    <2>2. at[s] = "read" /\ ReadEffect(s) /\ loc[s].copy \in Copy
      BY <1>0, <1>5, ReadDoes DEF Read, Suits
    <2> DEFINE m == [loc[s] EXCEPT !.got = @ \cup {loc[s].copy}]
    <2>3. m.cmd = loc[s].cmd
      BY <1>0, <2>2, Fields
    <2>4. Hops(s, "choose", m) \/ Away(s)
      BY <2>2 DEF ReadEffect
    <2> HIDE DEF m
    <2>5. Suits("choose", m)
      BY <1>0, <2>2, <2>3 DEF Suits
    <2> QED
      BY <1>e, <1>g, <2>1, <2>4, <2>5
  <1>6. ASSUME Scan(s) PROVE IntakeBase'
    <2>1. Stored'
      BY <1>0, <1>6 DEF Scan, Stored
    <2> DEFINE m == [loc[s] EXCEPT !.scan = Sight]
    <2>2. m.cmd = loc[s].cmd /\ m.todo = loc[s].todo /\ m.got = loc[s].got /\ at[s] = "scan"
      BY <1>0, <1>6, ScanDoes, Fields DEF Scan
    <2>3. Hops(s, "manifest", m)
      BY <1>6, ScanDoes
    <2> HIDE DEF m
    <2>4. Suits("manifest", m)
      BY <1>0, <2>2 DEF Suits
    <2> QED
      BY <1>g, <2>1, <2>3, <2>4
  <1>7. ASSUME Write(s) PROVE IntakeBase'
    <2>1. Stored'
      BY <1>0, <1>7, WriteDoes DEF Write, Stored
    <2>2. /\ at[s] \in {"manifest", "brief"}
          /\ Hops(s, "brief", loc[s]) \/ Hops(s, "mark", loc[s])
      BY <1>7, WriteDoes
    <2>3. Suits("brief", loc[s]) /\ Suits("mark", loc[s])
      BY <1>0, <2>2 DEF Suits
    <2> QED
      BY <1>g, <2>1, <2>2, <2>3
  <1>8. ASSUME Mark(s) PROVE IntakeBase'
    <2>1. at[s] = "mark" /\ Away(s)
      BY <1>8, MarkDoes
    <2>2. ~TextOnly(loc[s]) => loc[s].got # {} \/ hosted = {}
      BY <1>0, <2>1 DEF Suits, TextOnly
    <2>3. ~TextOnly(loc[s]) => DownloadStatus(loc[s]) \in {"ok", "partial", "no_attachments"}
      BY <1>0, <2>2, StatusSays
    <2> HIDE DEF DownloadStatus
    <2>4. queued' \in {"absent", "new", "ready"} /\ ready' \in {"none", "text", "ok", "partial", "no_attachments"}
      BY <1>0, <1>8, <2>3, MarkDoes DEF Stored
    <2>5. Stored'
      BY <1>0, <1>8, <2>4 DEF Mark, Stored
    <2> QED
      BY <1>e, <2>1, <2>5
  <1>9. ASSUME Perish(s) PROVE IntakeBase'
    BY <1>0, <1>9, <1>e, PerishDoes DEF Perish, Stored
  <1>10. ASSUME OpenStatement(s) PROVE IntakeBase'
    <2>1. Stored'
      BY <1>0, <1>10, EmptyDoes DEF OpenStatement, Stored
    <2>2. at[s] = "text" /\ Hops(s, "write", loc[s])
      BY <1>10, EmptyDoes DEF OpenStatement
    <2>3. Suits("write", loc[s])
      BY <1>0, <2>2 DEF Suits
    <2> QED
      BY <1>g, <2>1, <2>2, <2>3
  <1>11. ASSUME WriteStatement(s) PROVE IntakeBase'
    <2>1. Stored'
      BY <1>0, <1>11, PenDoes DEF WriteStatement, Stored
    <2>2. at[s] = "write" /\ Hops(s, "scan", loc[s])
      BY <1>11, PenDoes DEF WriteStatement
    <2>3. Suits("scan", loc[s])
      BY <1>0, <2>2 DEF Suits
    <2> QED
      BY <1>g, <2>1, <2>2, <2>3
  <1> QED
    BY <1>1, <1>2, <1>3, <1>4, <1>5, <1>6, <1>7, <1>8, <1>9, <1>10, <1>11 DEF VisitorStep
-----------------------------------------------------------------------------
(* The steps once more, by the fields the invariants speak of.             *)
\* The challenge does not become ready in this step.
Earned == UNCHANGED <<queued, ready>> \/ (UNCHANGED ready /\ (queued' = "ready" => queued = "ready"))
\* What the session carries stays, but for the name it chose.
Sames(s) == /\ loc'[s].cmd = loc[s].cmd /\ loc'[s].todo = loc[s].todo /\ loc'[s].got = loc[s].got
            /\ loc'[s].failed = loc[s].failed /\ loc'[s].scan = loc[s].scan
\* The files, the reports and the flags stay.
Silent == UNCHANGED <<disk, shown, clashed, rewritten, crossed, shortened>>

\* A command begins or ends.
Idles(s) ==
  /\ at'[s] \in {"idle", "ask"} /\ loc'[s].got = {} /\ Silent
  /\ losses # 0 => losses' # 0
  /\ at[s] = "brief" => losses' # 0
  /\ \/ Earned
     \/ /\ at[s] = "mark" /\ queued' = "ready"
        /\ ready' = "ok" => loc[s].cmd # "sync" /\ loc[s].got # {} /\ ~loc[s].failed

\* A challenge is taken for its text.
Texts(s) == /\ at[s] = "ask" /\ at'[s] = "text" /\ Silent /\ Earned /\ UNCHANGED losses
            /\ Sames(s) /\ (loc[s].cmd = "sync" \/ hosted = {})
\* The attachments are listed.
Asks(s) == /\ at[s] = "ask" /\ at'[s] = "choose" /\ Silent /\ Earned /\ UNCHANGED losses
           /\ loc'[s].todo \in Offered /\ loc'[s].got = {}
\* The download is over and the scan, or the text ingest, begins.
Turns(s) == /\ at[s] = "choose" /\ at'[s] \in {"text", "scan"} /\ Silent /\ Earned /\ UNCHANGED losses
            /\ Sames(s) /\ loc[s].cmd # "sync"
\* A free name is chosen.
Picks(s) ==
  /\ at[s] = "choose" /\ at'[s] = "open" /\ Earned /\ UNCHANGED <<disk, shown, rewritten, crossed, shortened, losses>>
  /\ Sames(s) /\ loc'[s].copy \in Copy /\ disk[loc'[s].copy] = "absent"
  /\ clashed' = (clashed \/ \E o \in Visitor \ {s} : at[o] = "open" /\ loc[o].copy = loc'[s].copy)
\* The platform refuses the file.
Misses(s) == /\ at[s] = "open" /\ at'[s] = "choose" /\ Silent /\ Earned /\ UNCHANGED losses
             /\ loc'[s].failed /\ loc'[s].got = loc[s].got
\* The name is opened.
Fills(s) == /\ at[s] = "open" /\ at'[s] = "read" /\ Earned
            /\ UNCHANGED <<shown, clashed, rewritten, crossed, shortened, losses>>
            /\ loc'[s].todo = Rest(loc[s]) /\ loc'[s].copy = loc[s].copy /\ loc'[s].got = loc[s].got
            /\ loc'[s].cmd = loc[s].cmd /\ loc'[s].failed = loc[s].failed
            /\ loc[s].copy \in Copy /\ disk' = [disk EXCEPT ![loc[s].copy] = "torn"]
\* The transfer ends, whole or short.
Takes(s) == /\ at[s] = "read" /\ at'[s] = "choose" /\ Earned
            /\ UNCHANGED <<shown, clashed, rewritten, crossed, losses>>
            /\ loc'[s].got = loc[s].got \cup {loc[s].copy} /\ loc'[s].todo = loc[s].todo
            /\ loc'[s].cmd = loc[s].cmd /\ loc'[s].failed = loc[s].failed
            /\ loc[s].copy \in Copy
            /\ \/ UNCHANGED shortened /\ disk' = [disk EXCEPT ![loc[s].copy] = "whole"]
               \/ shortened' = TRUE /\ UNCHANGED disk
\* A text ingest empties challenge.md, ...
Empties(s) == /\ at[s] = "text" /\ at'[s] = "write" /\ Earned /\ Sames(s)
              /\ UNCHANGED <<shown, crossed, shortened, losses>> /\ rewritten' = namesake
              /\ disk' = [x \in Copy |-> IF x \in Statement THEN "torn" ELSE disk[x]]
              /\ clashed' = (clashed \/ \E o \in Visitor : at[o] \in {"open", "read"} /\ loc[o].copy \in Statement)
\* ... and writes it.
Inks(s) == /\ at[s] = "write" /\ at'[s] = "scan" /\ Earned /\ Sames(s)
           /\ UNCHANGED <<shown, clashed, rewritten, crossed, shortened, losses>>
           /\ disk' = [x \in Copy |-> IF x \in Statement THEN "text" ELSE disk[x]]
\* The directory is scanned.
Looks(s) == /\ at[s] = "scan" /\ at'[s] = "manifest" /\ Earned
            /\ UNCHANGED <<disk, shown, clashed, rewritten, shortened, losses>>
            /\ loc'[s].todo = loc[s].todo /\ loc'[s].got = loc[s].got
            /\ loc'[s].cmd = loc[s].cmd /\ loc'[s].failed = loc[s].failed
            /\ loc'[s].scan.files = disk
            /\ crossed' = (crossed \/ \E o \in Visitor : at[o] \in Reporting)
\* The manifest or the brief is written.
Tells(s) == /\ Earned /\ UNCHANGED <<disk, clashed, rewritten, crossed, shortened, losses>> /\ Sames(s)
            /\ \/ /\ at[s] = "manifest" /\ at'[s] = "brief"
                  /\ shown'.manifest = loc[s].scan /\ shown'.brief = shown.brief
               \/ /\ at[s] = "brief" /\ at'[s] = "mark"
                  /\ shown'.brief = loc[s].scan /\ shown'.manifest = shown.manifest

\* One of these is every step.
Acts(s) == \/ Idles(s) \/ Texts(s) \/ Asks(s) \/ Turns(s) \/ Picks(s) \/ Misses(s) \/ Fills(s)
           \/ Takes(s) \/ Empties(s) \/ Inks(s) \/ Looks(s) \/ Tells(s)

(* Every step of a session is one of them.                                 *)
LEMMA StepActs ==
  ASSUME IntakeBase, NEW s \in Visitor, VisitorStep(s)
  PROVE  Acts(s)
  <1>0. loc[s] \in Errands /\ Suits(at[s], loc[s])
    BY DEF IntakeBase
  <1>1. ASSUME NEW c \in Intakes, Enter(s, c) PROVE Idles(s)
    <2>1. at[s] = "idle" /\ at'[s] = "ask" /\ loc'[s] = [NoIntake EXCEPT !.cmd = c] /\ c \in IntakeNames
      BY <1>1, EnterDoes DEF Hops
    <2>2. loc'[s].got = {}
      BY <2>1, BlankFields
    <2>3. UNCHANGED <<disk, shown, queued, ready, clashed, rewritten, crossed, shortened, losses>>
      BY <1>1 DEF Enter
    <2> QED
      BY <2>1, <2>2, <2>3 DEF Idles, Silent, Earned
  <1>2. ASSUME Ask(s) PROVE Acts(s)
    <2>1. at[s] = "ask" /\ Silent /\ Earned /\ UNCHANGED losses
      BY <1>2, AskDoes DEF Ask, Silent, Earned
    <2>2. ASSUME Away(s) PROVE Idles(s)
      BY <2>1, <2>2, BlankFields DEF Away, Idles
    <2>3. ASSUME TextOnly(loc[s]), Hops(s, "text", loc[s]) PROVE Texts(s)
      BY <2>1, <2>3 DEF Hops, Texts, Sames, TextOnly
    <2>4. ASSUME NEW S \in Offered, Hops(s, "choose", [loc[s] EXCEPT !.todo = S]) PROVE Asks(s)
      <3>1. S \in SUBSET Attachment
        BY OfferedAll
      <3>2. LET n == [loc[s] EXCEPT !.todo = S] IN n.todo = S /\ n.got = loc[s].got
        BY <1>0, <3>1, Fields
      <3>3. loc'[s].todo = S /\ loc'[s].got = {} /\ at'[s] = "choose"
        BY <1>0, <2>1, <2>4, <3>2 DEF Hops, Suits
      <3> QED
        BY <2>1, <3>3 DEF Asks
    <2> QED
      BY <1>2, <2>2, <2>3, <2>4, AskDoes DEF AskEffect, Acts
  <1>3. ASSUME ChooseName(s) PROVE Acts(s)
    <2>1. /\ at[s] = "choose" /\ Earned
          /\ UNCHANGED <<disk, shown, rewritten, crossed, shortened, losses>>
          /\ clashed' = (clashed \/ \E o \in Visitor \ {s} : at'[s] = "open" /\ at[o] = "open" /\ loc[o].copy = loc'[s].copy)
      BY <1>3 DEF ChooseName, Earned
    <2>c. at'[s] # "open" => Silent
      BY <2>1 DEF Silent, IntakeBase
    <2>2. ASSUME Away(s) PROVE Idles(s)
      BY <2>1, <2>2, <2>c, BlankFields DEF Away, Idles
    <2>s. loc[s].cmd \in IntakeNames \ {"sync"}
      BY <1>0, <2>1 DEF Suits, Fetching, Errands
    <2>3. ASSUME AfterDownload(loc[s]) # "idle", Hops(s, AfterDownload(loc[s]), loc[s]) PROVE Turns(s)
      <3>1. AfterDownload(loc[s]) \in {"scan", "text"}
        BY <1>0, <2>s, <2>3, ScansWhat
      <3> HIDE DEF AfterDownload
      <3> QED
        BY <2>1, <2>3, <2>c, <2>s, <3>1 DEF Hops, Turns, Sames
    <2>4. ASSUME NEW f \in loc[s].todo, NEW n \in FreeName(f), <<f, n>> \in Copy, disk[<<f, n>>] = "absent",
                 Hops(s, "open", [loc[s] EXCEPT !.copy = <<f, n>>])
          PROVE  Picks(s)
      <3>0. PICK x \in Copy : x = <<f, n>>
        BY <2>4
      <3>1. \A y \in Copy : LET m == [loc[s] EXCEPT !.copy = y] IN
              /\ m.cmd = loc[s].cmd /\ m.copy = y /\ m.todo = loc[s].todo /\ m.got = loc[s].got
              /\ m.failed = loc[s].failed /\ m.scan = loc[s].scan
        BY <1>0, FieldsCopy
      <3>2. loc'[s] = [loc[s] EXCEPT !.copy = x] /\ at'[s] = "open"
        BY <2>4, <3>0 DEF Hops
      <3>3. Sames(s) /\ loc'[s].copy = x
        BY <3>1, <3>2 DEF Sames
      <3> QED
        BY <2>1, <2>4, <3>0, <3>2, <3>3 DEF Picks
    <2>5. ChooseEffect(s)
      BY <1>3, ChooseDoes
    <2>6. CASE \E f \in loc[s].todo : \E n \in FreeName(f) :
                 /\ <<f, n>> \in Copy /\ disk[<<f, n>>] = "absent"
                 /\ Hops(s, "open", [loc[s] EXCEPT !.copy = <<f, n>>])
      <3>1. PICK f \in loc[s].todo : \E n \in FreeName(f) :
                 /\ <<f, n>> \in Copy /\ disk[<<f, n>>] = "absent"
                 /\ Hops(s, "open", [loc[s] EXCEPT !.copy = <<f, n>>])
        BY <2>6
      <3>2. PICK n \in FreeName(f) :
                 /\ <<f, n>> \in Copy /\ disk[<<f, n>>] = "absent"
                 /\ Hops(s, "open", [loc[s] EXCEPT !.copy = <<f, n>>])
        BY <3>1
      <3> QED
        BY <2>4, <3>2 DEF Acts
    <2> QED
      BY <2>2, <2>3, <2>5, <2>6 DEF ChooseEffect, Acts
  <1>4. ASSUME Open(s) PROVE Acts(s)
    <2>1. /\ at[s] = "open" /\ Earned /\ UNCHANGED <<shown, clashed, rewritten, crossed, shortened, losses>>
          /\ loc[s].copy \in Copy
      BY <1>0, <1>4 DEF Open, Earned, Suits
    <2>r. PICK S \in SUBSET Attachment : S = Rest(loc[s])
      BY <1>0 DEF Rest, Errands
    <2>2. LET n == [loc[s] EXCEPT !.todo = S, !.failed = TRUE] IN n.failed /\ n.got = loc[s].got
      BY <1>0, Fields
    <2>3. LET n == [loc[s] EXCEPT !.todo = S] IN
            n.todo = S /\ n.copy = loc[s].copy /\ n.got = loc[s].got /\ n.cmd = loc[s].cmd /\ n.failed = loc[s].failed
      BY <1>0, FieldsTodo
    <2>4. ASSUME UNCHANGED disk, Hops(s, "choose", [loc[s] EXCEPT !.todo = S, !.failed = TRUE])
          PROVE  Misses(s)
      BY <2>1, <2>2, <2>4 DEF Hops, Misses, Silent
    <2>5. ASSUME disk' = [disk EXCEPT ![loc[s].copy] = "torn"], Hops(s, "read", [loc[s] EXCEPT !.todo = S])
          PROVE  Fills(s)
      <3>1. loc'[s] = [loc[s] EXCEPT !.todo = S] /\ at'[s] = "read"
        BY <2>5 DEF Hops
      <3>2. /\ loc'[s].todo = Rest(loc[s]) /\ loc'[s].copy = loc[s].copy /\ loc'[s].got = loc[s].got
            /\ loc'[s].cmd = loc[s].cmd /\ loc'[s].failed = loc[s].failed
        BY <2>3, <2>r, <3>1
      <3> QED
        BY <2>1, <2>5, <3>1, <3>2 DEF Fills
    <2> QED
      BY <1>4, <2>r, <2>4, <2>5, OpenDoes DEF OpenEffect, Acts
  <1>5. ASSUME Read(s) PROVE Acts(s)
    <2>1. /\ at[s] = "read" /\ Earned /\ UNCHANGED <<shown, clashed, rewritten, crossed, losses>>
          /\ loc[s].copy \in Copy
      BY <1>0, <1>5 DEF Read, Earned, Suits
    <2>2. ASSUME Away(s), UNCHANGED <<disk, shortened>> PROVE Idles(s)
      BY <2>1, <2>2, BlankFields DEF Away, Idles, Silent
    <2>3. PICK x \in Copy : x = loc[s].copy
      BY <2>1
    <2>4. LET n == [loc[s] EXCEPT !.got = @ \cup {x}] IN
            n.got = loc[s].got \cup {x} /\ n.todo = loc[s].todo /\ n.cmd = loc[s].cmd /\ n.failed = loc[s].failed
      BY <1>0, FieldsGot
    <2>5. ASSUME Hops(s, "choose", [loc[s] EXCEPT !.got = @ \cup {x}]),
                 \/ UNCHANGED shortened /\ disk' = [disk EXCEPT ![loc[s].copy] = "whole"]
                 \/ shortened' = TRUE /\ UNCHANGED disk
          PROVE  Takes(s)
      <3>1. loc'[s] = [loc[s] EXCEPT !.got = @ \cup {x}] /\ at'[s] = "choose"
        BY <2>5 DEF Hops
      <3>2. /\ loc'[s].got = loc[s].got \cup {loc[s].copy} /\ loc'[s].todo = loc[s].todo
            /\ loc'[s].cmd = loc[s].cmd /\ loc'[s].failed = loc[s].failed
        BY <2>3, <2>4, <3>1
      <3> QED
        BY <2>1, <2>5, <3>1, <3>2 DEF Takes
    <2> QED
      BY <1>5, <2>2, <2>3, <2>5, ReadDoes DEF ReadEffect, Acts
  <1>6. ASSUME Scan(s) PROVE Looks(s)
    <2>1. /\ at[s] = "scan" /\ Earned /\ UNCHANGED <<disk, shown, clashed, rewritten, shortened, losses>>
          /\ crossed' = (crossed \/ \E o \in Visitor : at[o] \in Reporting)
      BY <1>6 DEF Scan, Earned, Order, Reporting
    <2>2. PICK x \in Scans : x = Sight /\ x.files = disk
      BY <1>6, ScanDoes
    <2>3. LET n == [loc[s] EXCEPT !.scan = x] IN
            n.scan = x /\ n.todo = loc[s].todo /\ n.got = loc[s].got /\ n.cmd = loc[s].cmd /\ n.failed = loc[s].failed
      BY <1>0, Fields
    <2>4. loc'[s] = [loc[s] EXCEPT !.scan = x] /\ at'[s] = "manifest"
      BY <1>6, <2>2, ScanDoes DEF Hops
    <2> QED
      BY <2>1, <2>2, <2>3, <2>4 DEF Looks
  <1>7. ASSUME Write(s) PROVE Tells(s)
    <2>1. Earned /\ UNCHANGED <<disk, clashed, rewritten, crossed, shortened, losses>> /\ UNCHANGED loc
      BY <1>7 DEF Write, Earned
    <2> QED
      BY <1>7, <2>1, WriteDoes DEF Tells, Hops, Sames
  <1>8. ASSUME Mark(s) PROVE Idles(s)
    <2>1. Silent /\ UNCHANGED losses /\ at[s] = "mark" /\ Away(s)
      BY <1>8, MarkDoes DEF Mark, Silent
    <2>2. ~TextOnly(loc[s]) => (DownloadStatus(loc[s]) = "ok" => loc[s].got # {} /\ ~loc[s].failed)
      BY <1>0, <2>1, StatusSays DEF Suits, Reporting, TextOnly
    <2> HIDE DEF DownloadStatus
    <2>3. \/ Earned
          \/ queued' = "ready" /\ (ready' = "ok" => loc[s].cmd # "sync" /\ loc[s].got # {} /\ ~loc[s].failed)
      BY <1>8, <2>2, MarkDoes DEF Earned, TextOnly
    <2> QED
      BY <2>1, <2>3, BlankFields DEF Away, Idles
  <1>9. ASSUME Perish(s) PROVE Idles(s)
    <2>1. Silent /\ Earned
      BY <1>9 DEF Perish, Silent, Earned
    <2> QED
      BY <1>9, <2>1, PerishDoes, BlankFields DEF Away, Idles
  <1>10. ASSUME OpenStatement(s) PROVE Empties(s)
    BY <1>10, EmptyDoes DEF OpenStatement, Empties, Hops, Sames, Earned
  <1>11. ASSUME WriteStatement(s) PROVE Inks(s)
    BY <1>11, PenDoes DEF WriteStatement, Inks, Hops, Sames, Earned
  <1> QED
    BY <1>1, <1>2, <1>3, <1>4, <1>5, <1>6, <1>7, <1>8, <1>9, <1>10, <1>11 DEF VisitorStep, Acts
(* What has gone wrong once stays on record.                               *)
LEMMA FlagsGrow ==
  ASSUME IntakeBase, NEW s \in Visitor, Acts(s)
  PROVE  /\ (clashed => clashed') /\ (crossed => crossed') /\ (shortened => shortened') /\ (losses # 0 => losses' # 0)
         /\ rewritten \subseteq rewritten'
  <1>0. rewritten \subseteq rewritten'
    <2>1. Empties(s) => rewritten' = namesake
      BY DEF Empties
    <2>2. ~Empties(s) => UNCHANGED rewritten
      BY DEF Acts, Idles, Texts, Asks, Turns, Picks, Misses, Fills, Takes, Inks, Looks, Tells, Silent
    <2> QED
      BY <2>1, <2>2 DEF IntakeBase
  <1>1. Idles(s) => UNCHANGED <<clashed, crossed, shortened>> /\ (losses # 0 => losses' # 0)
    BY DEF Idles, Silent
  <1>2. Texts(s) \/ Asks(s) \/ Turns(s) \/ Misses(s) => UNCHANGED <<clashed, crossed, shortened, losses>>
    BY DEF Texts, Asks, Turns, Misses, Silent
  <1>3. Picks(s) \/ Empties(s) => (clashed => clashed') /\ UNCHANGED <<crossed, shortened, losses>>
    BY DEF Picks, Empties
  <1>4. Fills(s) \/ Inks(s) \/ Tells(s) => UNCHANGED <<clashed, crossed, shortened, losses>>
    BY DEF Fills, Inks, Tells
  <1>5. Takes(s) => UNCHANGED <<clashed, crossed, losses>> /\ (shortened' = TRUE \/ UNCHANGED shortened)
    BY DEF Takes
  <1>6. Looks(s) => UNCHANGED <<clashed, shortened, losses>> /\ (crossed => crossed')
    BY DEF Looks
  <1> QED
    BY <1>0, <1>1, <1>2, <1>3, <1>4, <1>5, <1>6 DEF Acts

-----------------------------------------------------------------------------
(* Names.                                                                  *)
LEMMA NamedKept ==
  ASSUME IntakeBase, Named, NEW s \in Visitor, Acts(s), Others(s), UNCHANGED namesake
  PROVE  Named'
  <1> SUFFICES ASSUME ~clashed' PROVE Named'
    BY DEF Named
  <1>0. /\ ~clashed
        /\ \A o \in Visitor : /\ at[o] = "open" => disk[loc[o].copy] = "absent"
                              /\ at[o] = "read" => disk[loc[o].copy] = "torn"
        /\ \A o, q \in Visitor : o # q /\ at[o] = at[q] /\ at[o] \in {"open", "read"} => loc[o].copy # loc[q].copy
        /\ \A o \in Visitor : at[o] \in {"open", "read"} => loc[o].copy \in Copy
        /\ \A o \in Visitor : o # s => at'[o] = at[o] /\ loc'[o] = loc[o]
    BY FlagsGrow DEF Named, IntakeBase, Suits, Others
  <1>w. \A o \in Visitor : at[o] = "write" =>
          /\ \A x \in Statement : disk[x] \in {"torn", "text"}
          /\ \A q \in Visitor : at[q] \in {"open", "read"} => loc[q].copy \notin Statement
    BY <1>0 DEF Named
  <1>s. Statement' = Statement /\ Statement \subseteq Copy
    BY DEF Statement, Copy, IntakeBase
  <1>1. ASSUME at'[s] \notin {"open", "read", "write"}, UNCHANGED disk PROVE Named'
    <2>1. \A o \in Visitor : /\ at'[o] = "open" => disk'[loc'[o].copy] = "absent"
                             /\ at'[o] = "read" => disk'[loc'[o].copy] = "torn"
      BY <1>0, <1>1
    <2>2. \A o, q \in Visitor : o # q /\ at'[o] = at'[q] /\ at'[o] \in {"open", "read"} => loc'[o].copy # loc'[q].copy
      BY <1>0, <1>1
    <2>3. \A o \in Visitor : at'[o] = "write" =>
            /\ \A x \in Statement : disk'[x] \in {"torn", "text"}
            /\ \A q \in Visitor : at'[q] \in {"open", "read"} => loc'[q].copy \notin Statement
      BY <1>0, <1>1, <1>w
    <2> QED
      BY <1>s, <2>1, <2>2, <2>3 DEF Named
  <1>2. CASE Picks(s)
    <2>1. /\ at'[s] = "open" /\ disk[loc'[s].copy] = "absent" /\ UNCHANGED disk
          /\ \A o \in Visitor \ {s} : at[o] = "open" => loc[o].copy # loc'[s].copy
      BY <1>0, <1>2 DEF Picks
    <2>2. \A o \in Visitor : /\ at'[o] = "open" => disk'[loc'[o].copy] = "absent"
                             /\ at'[o] = "read" => disk'[loc'[o].copy] = "torn"
      BY <1>0, <2>1
    <2>3. \A o, q \in Visitor : o # q /\ at'[o] = at'[q] /\ at'[o] \in {"open", "read"} => loc'[o].copy # loc'[q].copy
      BY <1>0, <2>1
    <2>4. \A o \in Visitor : at'[o] = "write" =>
            /\ \A x \in Statement : disk'[x] \in {"torn", "text"}
            /\ \A q \in Visitor : at'[q] \in {"open", "read"} => loc'[q].copy \notin Statement
      BY <1>0, <1>w, <2>1
    <2> QED
      BY <1>s, <2>2, <2>3, <2>4 DEF Named
  <1>3. CASE Fills(s)
    <2> DEFINE x == loc[s].copy
    <2>1. /\ at[s] = "open" /\ at'[s] = "read" /\ loc'[s].copy = x /\ x \in Copy
          /\ disk'[x] = "torn" /\ disk[x] = "absent"
          /\ \A y \in Copy : y # x => disk'[y] = disk[y]
      BY <1>0, <1>3 DEF Fills, IntakeBase
    <2>2. \A o \in Visitor : o # s /\ at[o] \in {"open", "read"} => loc[o].copy # x /\ loc[o].copy \in Copy
      BY <1>0, <2>1
    <2>w. \A o \in Visitor : at[o] = "write" => x \notin Statement
      BY <1>w, <2>1
    <2> HIDE DEF x
    <2>3. \A o \in Visitor : o # s /\ at[o] \in {"open", "read"} => disk'[loc[o].copy] = disk[loc[o].copy]
      BY <2>1, <2>2
    <2>4. \A o \in Visitor : /\ at'[o] = "open" => disk'[loc'[o].copy] = "absent"
                             /\ at'[o] = "read" => disk'[loc'[o].copy] = "torn"
      BY <1>0, <2>1, <2>3
    <2>5. \A o, q \in Visitor : o # q /\ at'[o] = at'[q] /\ at'[o] \in {"open", "read"} => loc'[o].copy # loc'[q].copy
      BY <1>0, <2>1, <2>2
    <2>6. \A o \in Visitor : at'[o] = "write" =>
            /\ \A y \in Statement : disk'[y] \in {"torn", "text"}
            /\ \A q \in Visitor : at'[q] \in {"open", "read"} => loc'[q].copy \notin Statement
      BY <1>0, <1>w, <1>s, <2>1, <2>w
    <2> QED
      BY <1>s, <2>4, <2>5, <2>6 DEF Named
  <1>4. CASE Takes(s)
    <2> DEFINE x == loc[s].copy
    <2>1. /\ at[s] = "read" /\ at'[s] = "choose" /\ x \in Copy /\ disk[x] = "torn"
          /\ \A y \in Copy : y # x => disk'[y] = disk[y]
      BY <1>0, <1>4 DEF Takes, IntakeBase
    <2>2. \A o \in Visitor : o # s /\ at[o] \in {"open", "read"} => loc[o].copy # x /\ loc[o].copy \in Copy
      BY <1>0, <2>1
    <2>w. \A o \in Visitor : at[o] = "write" => x \notin Statement
      BY <1>w, <2>1
    <2> HIDE DEF x
    <2>3. \A o \in Visitor : o # s /\ at[o] \in {"open", "read"} => disk'[loc[o].copy] = disk[loc[o].copy]
      BY <2>1, <2>2
    <2>4. \A o \in Visitor : /\ at'[o] = "open" => disk'[loc'[o].copy] = "absent"
                             /\ at'[o] = "read" => disk'[loc'[o].copy] = "torn"
      BY <1>0, <2>1, <2>3
    <2>5. \A o, q \in Visitor : o # q /\ at'[o] = at'[q] /\ at'[o] \in {"open", "read"} => loc'[o].copy # loc'[q].copy
      BY <1>0, <2>1, <2>2
    <2>6. \A o \in Visitor : at'[o] = "write" =>
            /\ \A y \in Statement : disk'[y] \in {"torn", "text"}
            /\ \A q \in Visitor : at'[q] \in {"open", "read"} => loc'[q].copy \notin Statement
      BY <1>0, <1>w, <1>s, <2>1, <2>w
    <2> QED
      BY <1>s, <2>4, <2>5, <2>6 DEF Named
  <1>5. CASE Empties(s) \/ Inks(s)
    <2>e. Empties(s) => \A q \in Visitor : at[q] \in {"open", "read"} => loc[q].copy \notin Statement
      BY DEF Empties
    <2>p. Inks(s) => at[s] = "write"
      BY DEF Inks
    <2>d. at'[s] \in {"write", "scan"} /\ \E c \in {"torn", "text"} :
            disk' = [x \in Copy |-> IF x \in Statement THEN c ELSE disk[x]]
      BY <1>5 DEF Empties, Inks
    <2>1. /\ at'[s] \in {"write", "scan"}
          /\ \A x \in Copy : disk'[x] = disk[x] \/ x \in Statement
          /\ \A x \in Statement : disk'[x] \in {"torn", "text"}
          /\ \A q \in Visitor : at[q] \in {"open", "read"} => loc[q].copy \notin Statement
      BY <1>5, <1>w, <1>s, <2>e, <2>p, <2>d
    <2>2. \A o \in Visitor : /\ at'[o] = "open" => disk'[loc'[o].copy] = "absent"
                             /\ at'[o] = "read" => disk'[loc'[o].copy] = "torn"
      BY <1>0, <2>1
    <2>3. \A o, q \in Visitor : o # q /\ at'[o] = at'[q] /\ at'[o] \in {"open", "read"} => loc'[o].copy # loc'[q].copy
      BY <1>0, <2>1
    <2>4. \A q \in Visitor : at'[q] \in {"open", "read"} => loc'[q].copy \notin Statement
      BY <1>0, <2>1
    <2> QED
      BY <1>s, <2>1, <2>2, <2>3, <2>4 DEF Named
  <1>6. Idles(s) \/ Texts(s) \/ Asks(s) \/ Turns(s) \/ Misses(s) \/ Looks(s) \/ Tells(s)
          => at'[s] \notin {"open", "read", "write"} /\ UNCHANGED disk
    BY DEF Idles, Texts, Asks, Turns, Misses, Looks, Tells, Silent
  <1> QED
    BY <1>1, <1>2, <1>3, <1>4, <1>5, <1>6 DEF Acts

(* A whole file stays whole unless a name was in two hands or a text       *)
(* ingest empties challenge.md.                                            *)
LEMMA WholeStays ==
  ASSUME IntakeBase, Named, ~clashed, NEW s \in Visitor, Acts(s), NEW x \in Copy, disk[x] = "whole"
  PROVE  \/ disk'[x] = "whole"
         \/ x \in Statement /\ at[s] = "text" /\ at'[s] = "write" /\ x[1] \in rewritten'
  <1>1. /\ at[s] = "open" => disk[loc[s].copy] = "absent"
        /\ at[s] = "read" => disk[loc[s].copy] = "torn"
        /\ at[s] = "write" => x \notin Statement
    BY DEF Named
  <1>2. Fills(s) => disk'[x] = disk[x]
    BY <1>1 DEF Fills, IntakeBase
  <1>3. Takes(s) => disk'[x] = disk[x]
    BY <1>1 DEF Takes, IntakeBase
  <1>4. Inks(s) => disk'[x] = disk[x]
    BY <1>1 DEF Inks
  <1>5. Empties(s) /\ x \notin Statement => disk'[x] = disk[x]
    BY DEF Empties
  <1>6. Empties(s) /\ x \in Statement => at[s] = "text" /\ at'[s] = "write" /\ x[1] \in rewritten'
    BY DEF Empties, Statement
  <1>7. ~Fills(s) /\ ~Takes(s) /\ ~Inks(s) /\ ~Empties(s) => UNCHANGED disk
    BY DEF Acts, Idles, Texts, Asks, Turns, Picks, Misses, Looks, Tells, Silent
  <1> QED
    BY <1>2, <1>3, <1>4, <1>5, <1>6, <1>7

-----------------------------------------------------------------------------
(* What a session has fetched is there, and in its scan.                   *)
LEMMA FetchedKept ==
  ASSUME IntakeBase, Named, Fetched, NEW s \in Visitor, Acts(s), Others(s)
  PROVE  Fetched'
  <1> SUFFICES ASSUME ~clashed', ~shortened' PROVE Fetched'
    BY DEF Fetched
  <1>0. /\ ~clashed /\ ~shortened
        /\ \A o \in Visitor : \A x \in loc[o].got : x[1] \in rewritten \/
             (disk[x] = "whole" /\ (at[o] \in Reporting => loc[o].scan.files[x] = "whole"))
        /\ \A o \in Visitor : o # s => at'[o] = at[o] /\ loc'[o] = loc[o]
        /\ \A o \in Visitor : loc[o].got \subseteq Copy
        /\ rewritten \subseteq rewritten'
    BY FlagsGrow DEF Fetched, IntakeBase, Others, Errands
  <1>s. \A x \in Copy : disk[x] = "whole" => disk'[x] = "whole" \/ x[1] \in rewritten'
    BY <1>0, WholeStays
  <1>1. \A o \in Visitor : o # s => \A x \in loc'[o].got : x[1] \in rewritten' \/
          (disk'[x] = "whole" /\ (at'[o] \in Reporting => loc'[o].scan.files[x] = "whole"))
    BY <1>0, <1>s
  <1>2. ASSUME \A x \in loc'[s].got : x[1] \in rewritten' \/
                 (disk'[x] = "whole" /\ (at'[s] \in Reporting => loc'[s].scan.files[x] = "whole"))
        PROVE Fetched'
    BY <1>1, <1>2 DEF Fetched
  <1>3. CASE loc'[s].got \subseteq loc[s].got /\ at'[s] \notin Reporting
    BY <1>0, <1>2, <1>3, <1>s
  <1>4. CASE Takes(s)
    <2>1. /\ loc'[s].got = loc[s].got \cup {loc[s].copy} /\ disk'[loc[s].copy] = "whole" /\ at'[s] = "choose"
      BY <1>0, <1>4 DEF Takes, IntakeBase
    <2> QED
      BY <1>0, <1>2, <2>1, <1>s DEF Reporting
  <1>5. CASE Looks(s)
    <2>1. loc'[s].got = loc[s].got /\ loc'[s].scan.files = disk
      BY <1>5 DEF Looks
    <2> QED
      BY <1>0, <1>2, <2>1, <1>s
  <1>6. CASE Tells(s)
    <2>1. loc'[s].got = loc[s].got /\ loc'[s].scan = loc[s].scan /\ at[s] \in Reporting
      BY <1>6 DEF Tells, Sames, Reporting
    <2> QED
      BY <1>0, <1>2, <2>1, <1>s
  <1>7. Idles(s) \/ Texts(s) \/ Asks(s) \/ Turns(s) \/ Picks(s) \/ Misses(s) \/ Fills(s) \/ Empties(s) \/ Inks(s)
          => loc'[s].got \subseteq loc[s].got /\ at'[s] \notin Reporting
    BY DEF Idles, Texts, Asks, Turns, Picks, Misses, Fills, Empties, Inks, Sames, Reporting
  <1> QED
    BY <1>3, <1>4, <1>5, <1>6, <1>7 DEF Acts

-----------------------------------------------------------------------------
(* Nothing the platform has is passed over by a download without failures. *)
\* What a download at l has, gets or still has to get.
Owed(l, m) == m.todo \cup Firsts(m.got) \cup (IF l = "read" THEN {m.copy[1]} ELSE {})
\* Unless something failed, that is everything the platform has.
Promised(l, m) == l \notin {"idle", "ask"} /\ m.cmd # "sync" /\ ~m.failed => hosted \subseteq Owed(l, m)

(* A file leaves one of the three sets only for the next, or with a        *)
(* failure.                                                                *)
LEMMA CollectedKept ==
  ASSUME IntakeBase, Collected, NEW s \in Visitor, Acts(s), Others(s), UNCHANGED <<adapter, hosted>>
  PROVE  Collected'
  <1> SUFFICES ASSUME ~Capped' PROVE Collected'
    BY DEF Collected
  <1>c. ~Capped
    BY DEF Capped
  <1>a. \A o \in Visitor : at[o] \in {"idle", "ask"} \/ at[o] \in Fetching \cup Preparing \cup Reporting
    BY DEF IntakeBase, Spots
  <1>b. {"idle", "ask"} \cap (Fetching \cup Preparing \cup Reporting) = {}
    BY DEF Fetching, Preparing, Reporting
  <1>0. \A o \in Visitor : Promised(at[o], loc[o])
    BY <1>a, <1>b, <1>c DEF Collected, Promised, Owed
  <1>1. ASSUME Promised(at'[s], loc'[s]) PROVE Collected'
    <2>1. \A o \in Visitor : Promised(at'[o], loc'[o])
      BY <1>0, <1>1 DEF Others
    <2>2. \A o \in Visitor :
            at'[o] \in Fetching \cup Preparing \cup Reporting /\ loc'[o].cmd # "sync" /\ ~loc'[o].failed
              => hosted' \subseteq Owed(at'[o], loc'[o])
      BY <1>b, <2>1 DEF Promised
    <2> QED
      BY <2>2 DEF Collected, Owed
  <1>2. Suits(at[s], loc[s])
    BY DEF IntakeBase
  <1>3. CASE Idles(s)
    BY <1>1, <1>3 DEF Idles, Promised
  <1>4. CASE Texts(s)
    BY <1>1, <1>4 DEF Texts, Promised, Sames
  <1>5. CASE Asks(s)
    BY <1>1, <1>5, <1>c, OfferedAll DEF Asks, Promised, Owed
  <1>6. CASE Turns(s) \/ Picks(s) \/ Empties(s) \/ Inks(s) \/ Looks(s) \/ Tells(s)
    <2>1. /\ loc'[s].todo = loc[s].todo /\ loc'[s].got = loc[s].got /\ loc'[s].cmd = loc[s].cmd
          /\ loc'[s].failed = loc[s].failed /\ at[s] \notin {"idle", "ask", "read"}
      BY <1>6 DEF Turns, Picks, Empties, Inks, Looks, Tells, Sames
    <2> QED
      BY <1>0, <1>1, <2>1 DEF Promised, Owed
  <1>7. CASE Misses(s)
    BY <1>1, <1>7 DEF Misses, Promised
  <1>8. CASE Fills(s)
    <2>1. /\ loc'[s].todo = loc[s].todo \ {loc[s].copy[1]} /\ loc'[s].got = loc[s].got /\ loc'[s].cmd = loc[s].cmd
          /\ loc'[s].failed = loc[s].failed /\ at[s] = "open" /\ at'[s] = "read" /\ loc'[s].copy = loc[s].copy
      BY <1>8 DEF Fills, Rest
    <2> QED
      BY <1>0, <1>1, <2>1 DEF Promised, Owed
  <1>9. CASE Takes(s)
    <2>1. /\ loc'[s].todo = loc[s].todo /\ loc'[s].got = loc[s].got \cup {loc[s].copy} /\ loc'[s].cmd = loc[s].cmd
          /\ loc'[s].failed = loc[s].failed /\ at[s] = "read" /\ at'[s] = "choose"
      BY <1>9 DEF Takes
    <2>2. Firsts(loc'[s].got) = Firsts(loc[s].got) \cup {loc[s].copy[1]}
      BY <2>1 DEF Firsts
    <2> HIDE DEF Firsts
    <2> QED
      BY <1>0, <1>1, <2>1, <2>2 DEF Promised, Owed
  <1> QED
    BY <1>3, <1>4, <1>5, <1>6, <1>7, <1>8, <1>9 DEF Acts
-----------------------------------------------------------------------------
(* The reports are of the scan of the one session that reports.            *)
LEMMA InformedKept ==
  ASSUME IntakeBase, Informed, NEW s \in Visitor, Acts(s), Others(s)
  PROVE  Informed'
  <1> SUFFICES ASSUME ~crossed' PROVE Informed'
    BY DEF Informed
  <1>0. /\ ~crossed
        /\ \A o, q \in Visitor : at[o] \in Reporting /\ at[q] \in Reporting => o = q
        /\ \A o \in Visitor : /\ at[o] \in {"brief", "mark"} => shown.manifest = loc[o].scan
                              /\ at[o] = "mark" => shown.brief = loc[o].scan
        /\ losses = 0 /\ (\A o \in Visitor : at[o] # "brief") => shown.brief = shown.manifest
        /\ losses # 0 => losses' # 0
        /\ \A o \in Visitor : o # s => at'[o] = at[o] /\ loc'[o] = loc[o]
    BY FlagsGrow DEF Informed, Others
  <1>r. Reporting = {"manifest", "brief", "mark"}
    BY DEF Reporting
  <1>1. ASSUME at'[s] \notin Reporting, UNCHANGED shown, at[s] = "brief" => losses' # 0
        PROVE  Informed'
    <2>1. \A o, q \in Visitor : at'[o] \in Reporting /\ at'[q] \in Reporting => o = q
      BY <1>0, <1>1
    <2>2. \A o \in Visitor : /\ at'[o] \in {"brief", "mark"} => shown'.manifest = loc'[o].scan
                             /\ at'[o] = "mark" => shown'.brief = loc'[o].scan
      BY <1>0, <1>1, <1>r
    <2>3. losses' = 0 /\ (\A o \in Visitor : at'[o] # "brief") => shown'.brief = shown'.manifest
      BY <1>0, <1>1
    <2> QED
      BY <2>1, <2>2, <2>3 DEF Informed
  <1>2. CASE Looks(s)
    <2>1. at'[s] = "manifest" /\ at[s] = "scan" /\ UNCHANGED shown /\ \A o \in Visitor : at[o] \notin Reporting
      BY <1>2, <1>0 DEF Looks
    <2>2. \A o, q \in Visitor : at'[o] \in Reporting /\ at'[q] \in Reporting => o = q
      BY <1>0, <2>1
    <2>3. \A o \in Visitor : /\ at'[o] \in {"brief", "mark"} => shown'.manifest = loc'[o].scan
                             /\ at'[o] = "mark" => shown'.brief = loc'[o].scan
      BY <1>0, <1>r, <2>1
    <2>4. losses' = 0 /\ (\A o \in Visitor : at'[o] # "brief") => shown'.brief = shown'.manifest
      BY <1>0, <1>r, <2>1
    <2> QED
      BY <2>2, <2>3, <2>4 DEF Informed
  <1>3. CASE Tells(s)
    <2>1. /\ at[s] \in Reporting /\ at'[s] \in {"brief", "mark"} /\ loc'[s].scan = loc[s].scan
          /\ shown'.manifest = loc[s].scan
          /\ at'[s] = "mark" => shown'.brief = loc[s].scan
      BY <1>0, <1>r, <1>3 DEF Tells, Sames
    <2>2. \A o \in Visitor : o # s => at'[o] \notin Reporting
      BY <1>0, <2>1
    <2>3. \A o, q \in Visitor : at'[o] \in Reporting /\ at'[q] \in Reporting => o = q
      BY <2>2
    <2>4. \A o \in Visitor : /\ at'[o] \in {"brief", "mark"} => shown'.manifest = loc'[o].scan
                             /\ at'[o] = "mark" => shown'.brief = loc'[o].scan
      BY <1>r, <2>1, <2>2
    <2>5. losses' = 0 /\ (\A o \in Visitor : at'[o] # "brief") => shown'.brief = shown'.manifest
      BY <2>1
    <2> QED
      BY <2>3, <2>4, <2>5 DEF Informed
  <1>4. Idles(s) => at'[s] \notin Reporting /\ UNCHANGED shown /\ (at[s] = "brief" => losses' # 0)
    BY <1>r DEF Idles, Silent
  <1>5. Texts(s) \/ Asks(s) \/ Turns(s) \/ Picks(s) \/ Misses(s) \/ Fills(s) \/ Takes(s) \/ Empties(s) \/ Inks(s)
          => at'[s] \notin Reporting /\ UNCHANGED shown /\ at[s] # "brief"
    BY <1>r DEF Texts, Asks, Turns, Picks, Misses, Fills, Takes, Empties, Inks, Silent
  <1> QED
    BY <1>1, <1>2, <1>3, <1>4, <1>5 DEF Acts

-----------------------------------------------------------------------------
(* A challenge that is ready has its files, in raw/ and in its manifest.   *)
LEMMA ReadyKept ==
  ASSUME IntakeBase, Named, Fetched, Collected, Informed, ReadyOk,
         NEW s \in Visitor, Acts(s), Others(s), UNCHANGED <<adapter, hosted>>
  PROVE  ReadyOk'
  <1> SUFFICES ASSUME queued' = "ready", ready' = "ok", ~clashed', ~crossed', ~shortened', ~Capped'
               PROVE  /\ Complete(rewritten', disk') /\ Complete(rewritten', shown'.manifest.files)
                      /\ \A o \in Visitor : at'[o] \in Reporting => Complete(rewritten', loc'[o].scan.files)
    BY DEF ReadyOk, Complete
  <1>0. ~clashed /\ ~crossed /\ ~shortened /\ ~Capped /\ rewritten \subseteq rewritten'
    BY FlagsGrow DEF Capped, IntakeBase
  <1>r. Reporting = {"manifest", "brief", "mark"}
    BY DEF Reporting
  <1>1. CASE Earned
    <2>1. queued = "ready" /\ ready = "ok"
      BY <1>1 DEF Earned
    <2>2. /\ Complete(rewritten, disk) /\ Complete(rewritten, shown.manifest.files)
          /\ \A o \in Visitor : at[o] \in Reporting => Complete(rewritten, loc[o].scan.files)
      BY <1>0, <2>1 DEF ReadyOk
    <2>m. \A files : Complete(rewritten, files) => Complete(rewritten', files)
      BY <1>0 DEF Complete
    <2>3. Complete(rewritten', disk')
      BY <1>0, <2>2, WholeStays DEF Complete, Copy, IntakeBase
    <2>4. Complete(rewritten', shown'.manifest.files)
      <3>1. CASE Tells(s)
        <4>1. at[s] \in Reporting
          BY <1>r, <3>1 DEF Tells
        <4>2. shown'.manifest \in {loc[s].scan, shown.manifest}
          BY <3>1 DEF Tells
        <4> QED
          BY <2>2, <2>m, <4>1, <4>2
      <3>2. ~Tells(s) => UNCHANGED shown
        BY DEF Acts, Idles, Texts, Asks, Turns, Picks, Misses, Fills, Takes, Empties, Inks, Looks, Silent
      <3> QED
        BY <2>2, <2>m, <3>1, <3>2
    <2>5. at'[s] \in Reporting => Complete(rewritten', loc'[s].scan.files)
      <3>1. Looks(s) => loc'[s].scan.files = disk
        BY DEF Looks
      <3>2. Tells(s) => loc'[s].scan = loc[s].scan /\ at[s] \in Reporting
        BY <1>r DEF Tells, Sames
      <3>3. ~Looks(s) /\ ~Tells(s) => at'[s] \notin Reporting
        BY <1>r DEF Acts, Idles, Texts, Asks, Turns, Picks, Misses, Fills, Takes, Empties, Inks
      <3> QED
        BY <2>2, <2>m, <3>1, <3>2, <3>3
    <2> QED
      BY <2>2, <2>m, <2>3, <2>4, <2>5 DEF Others
  <1>2. CASE ~Earned
    <2>1. /\ at[s] = "mark" /\ at'[s] \notin Reporting /\ UNCHANGED <<disk, shown, rewritten>>
          /\ loc[s].cmd # "sync" /\ ~loc[s].failed
      BY <1>r, <1>2 DEF Acts, Idles, Texts, Asks, Turns, Picks, Misses, Fills, Takes, Empties, Inks, Looks, Tells, Silent
    <2>2. loc[s].todo = {} /\ loc[s].got \subseteq Copy
      BY <1>r, <2>1 DEF IntakeBase, Suits, Errands
    <2>3. hosted \subseteq Firsts(loc[s].got)
      BY <1>0, <1>r, <2>1, <2>2 DEF Collected
    <2>4. \A x \in loc[s].got : x[1] \in rewritten \/ (disk[x] = "whole" /\ loc[s].scan.files[x] = "whole")
      BY <1>0, <1>r, <2>1 DEF Fetched
    <2>5. \A f \in hosted : \E n \in 0..MaxCopies : <<f, n>> \in loc[s].got
      BY <2>2, <2>3 DEF Firsts, Copy
    <2>6. Complete(rewritten, disk) /\ Complete(rewritten, loc[s].scan.files)
      BY <2>4, <2>5 DEF Complete
    <2>7. shown.manifest = loc[s].scan /\ \A o \in Visitor : o # s => at[o] \notin Reporting
      BY <1>0, <1>r, <2>1 DEF Informed
    <2> QED
      BY <2>1, <2>6, <2>7 DEF Others
  <1> QED
    BY <1>1, <1>2

-----------------------------------------------------------------------------
(* The invariant holds at the start, ...                                   *)
LEMMA IntakeStarts ==
  IntakeInit => IntakeInvariant
  <1> SUFFICES ASSUME IntakeInit PROVE IntakeInvariant
    OBVIOUS
  <1>1. NoScan \in Scans /\ NoIntake \in Errands /\ "idle" \in Spots
    BY NoScanTyped, BlankFields DEF Spots
  <1>2. \A s \in Visitor : at[s] = "idle" /\ loc[s] = NoIntake
    BY DEF IntakeInit
  <1>3. \A s \in Visitor : Suits(at[s], loc[s])
    BY <1>2, BlankFields DEF Suits, Fetching, Preparing, Reporting
  <1>4. IntakeBase
    <2>1. at \in [Visitor -> Spots] /\ loc \in [Visitor -> Errands] /\ shown \in [manifest : Scans, brief : Scans]
      BY <1>1 DEF IntakeInit
    <2>2. disk \in [Copy -> States] /\ intakes \in 0..MaxIntakes /\ losses \in 0..MaxLosses
      BY DEF IntakeInit, States
    <2> QED
      BY <1>3, <2>1, <2>2 DEF IntakeInit, IntakeBase
  <1>5. Named /\ Fetched /\ Collected /\ Informed
    <2>1. Named
      BY <1>2 DEF Named
    <2>2. Fetched
      BY <1>2, BlankFields DEF Fetched
    <2>3. Collected
      BY <1>2 DEF Collected, Fetching, Preparing, Reporting
    <2>4. shown.brief = shown.manifest
      BY DEF IntakeInit
    <2>5. Informed
      BY <1>2, <2>4 DEF Informed, Reporting
    <2> QED
      BY <2>1, <2>2, <2>3, <2>5
  <1>6. ReadyOk
    BY DEF ReadyOk, IntakeInit
  <1> QED
    BY <1>4, <1>5, <1>6 DEF IntakeInvariant

(* ... every step of a session keeps it, ...                               *)
LEMMA IntakeStep ==
  ASSUME IntakeInvariant, NEW s \in Visitor, VisitorStep(s)
  PROVE  IntakeInvariant'
  <1>1. IntakeBase' /\ Others(s) /\ UNCHANGED <<adapter, hosted, namesake>> /\ Acts(s)
    BY BaseKept, StepActs, StepLeaves DEF IntakeInvariant
  <1> QED
    BY <1>1, NamedKept, FetchedKept, CollectedKept, InformedKept, ReadyKept DEF IntakeInvariant

(* ... and so does a step of nobody.                                       *)
LEMMA IntakeStutters ==
  IntakeInvariant /\ UNCHANGED intakeVars => IntakeInvariant'
  BY DEF IntakeInvariant, intakeVars, IntakeBase, Suits, DownloadStatus, Named, Statement, Fetched, Collected, Capped,
         Informed, ReadyOk, Complete

(* Next is a step of some session.                                         *)
LEMMA NextIsStep ==
  IntakeNext => \E s \in Visitor : VisitorStep(s)
  BY DEF IntakeNext, VisitorStep

(* The invariant holds in every behaviour.                                 *)
THEOREM IntakeInvariantHolds == IntakeSpec => []IntakeInvariant
  <1>1. IntakeInvariant /\ [IntakeNext]_intakeVars => IntakeInvariant'
    BY IntakeStep, IntakeStutters, NextIsStep
  <1> QED
    BY <1>1, IntakeStarts, PTL DEF IntakeSpec

(* Every variable of an intake has its type.                               *)
THEOREM IntakeTypeCorrect == IntakeSpec => []IntakeTypeOK
  <1>1. IntakeInvariant => IntakeTypeOK
    <2> SUFFICES ASSUME IntakeBase PROVE IntakeTypeOK
      BY DEF IntakeInvariant
    <2>1. DOMAIN shown = {"manifest", "brief"} /\ shown.manifest.by \in 0..MaxIntakes /\ shown.brief.by \in 0..MaxIntakes
      BY DEF IntakeBase, Scans
    <2>2. \A s \in Visitor : loc[s].cmd \in IntakeNames \cup {"none"} /\ loc[s].got \subseteq Copy
      BY DEF IntakeBase, Errands
    <2> QED
      BY <2>1, <2>2 DEF IntakeBase, IntakeTypeOK, States
  <1> QED
    BY <1>1, IntakeInvariantHolds, PTL

(* A challenge that is ready after a download without failures has a whole *)
(* copy of each attachment in its manifest, and a brief of that scan; only *)
(* an attachment called challenge.md may be overwritten by a text ingest.  *)
THEOREM ReadyChallengesAreWhole == IntakeSpec => []ReadyIsWhole
  <1>1. IntakeInvariant => ReadyIsWhole
    <2> SUFFICES ASSUME IntakeInvariant, queued = "ready", ready = "ok", ~clashed, ~crossed, ~shortened, ~Capped
                 PROVE  /\ \A f \in hosted \ rewritten : \E n \in 0..MaxCopies : shown.manifest.files[<<f, n>>] = "whole"
                        /\ Quiet /\ losses = 0 => shown.brief = shown.manifest
      BY DEF ReadyIsWhole
    <2>1. Complete(rewritten, shown.manifest.files)
      BY DEF IntakeInvariant, ReadyOk
    <2>2. Quiet /\ losses = 0 => shown.brief = shown.manifest
      BY DEF IntakeInvariant, Informed, Quiet
    <2> QED
      BY <2>1, <2>2 DEF Complete
  <1> QED
    BY <1>1, IntakeInvariantHolds, PTL

(* A file downloaded whole stays as it is unless two commands had its name *)
(* in hand at once, or a text ingest writes challenge.md over it.          *)
THEOREM WholeFilesAreKept == IntakeSpec => OriginalsKept
  <1>1. IntakeInvariant /\ [IntakeNext]_intakeVars
          => [\A x \in Copy : disk[x] = "whole" /\ disk'[x] # "whole" =>
                clashed \/ (x \in Statement /\ \E s \in Visitor : at[s] = "text" /\ at'[s] = "write")]_intakeVars
    <2> SUFFICES ASSUME IntakeInvariant, IntakeNext, NEW x \in Copy, disk[x] = "whole", ~clashed
                 PROVE  \/ disk'[x] = "whole"
                        \/ x \in Statement /\ \E s \in Visitor : at[s] = "text" /\ at'[s] = "write"
      OBVIOUS
    <2>1. PICK s \in Visitor : VisitorStep(s)
      BY NextIsStep
    <2> QED
      BY <2>1, StepActs, WholeStays DEF IntakeInvariant
  <1> QED
    BY <1>1, IntakeInvariantHolds, PTL DEF IntakeSpec, OriginalsKept
-----------------------------------------------------------------------------
(* Extraction.                                                             *)

HIDE IntakeAssumption

\* What the destination can hold under a name, and the books of an archive.
Placed == [size : Nat, whole : BOOLEAN, by : Nat]
Books  == [files : Nat, total : Nat, errors : BOOLEAN]

\* At most, and exactly, k elements.
Small(S, k) == IsFiniteSet(S) /\ Cardinality(S) <= k
Exact(S, k) == IsFiniteSet(S) /\ Cardinality(S) = k

\* The names an archive has last written, and the chunks under some names.
Mine(p, a)   == {n \in Entry : p[n].by = a}
Pieces(p, S) == UNION {{n} \X (1..p[n].size) : n \in S}

\* The names of the archive at hand but for the one being copied.
Checked == Mine(placed, archives) \ (IF stage = "copy" THEN {copy.path} ELSE {})

(* The types of everything; the books of the archive at hand are within    *)
(* its limits.                                                             *)
ExtractionBase ==
  /\ stage \in {"rest", "list", "entry", "copy"} /\ format \in {"zip", "tar", "gz", "7z", "other"}
  /\ acct \in Books /\ placed \in [Entry -> Placed] /\ twice \in BOOLEAN
  /\ archives \in Nat /\ \A n \in Entry : placed[n].by <= archives
  /\ stage # "rest" => archives > 0 /\ ~acct.errors
  /\ acct.files <= MaxFiles /\ acct.total <= MaxBytes

\* The copy under way: what there is of it, and room for it.
Copying ==
  stage = "copy" =>
    /\ copy.path \in Entry /\ copy.size \in Nat
    /\ placed[copy.path].size = copy.size /\ placed[copy.path].by = archives
    /\ acct.files < MaxFiles /\ acct.total + copy.size <= MaxBytes /\ copy.size <= MaxSingle
    /\ Small(Pieces(placed, Mine(placed, archives)), acct.total + copy.size)
    /\ ~twice => Exact(Pieces(placed, Mine(placed, archives)), acct.total + copy.size)

\* The limits hold for what archive a has on the disk.
Bounded(a) ==
  /\ Small(Mine(placed, a), MaxFiles) /\ Small(Pieces(placed, Mine(placed, a)), MaxBytes)
  /\ \A n \in Mine(placed, a) : placed[n].size <= MaxSingle

\* The books count what is settled, and no less than there is.
Counting ==
  archives > 0 /\ ~acct.errors =>
    /\ Small(Checked, acct.files) /\ Small(Pieces(placed, Checked), acct.total)
    /\ ~twice => Exact(Checked, acct.files) /\ Exact(Pieces(placed, Checked), acct.total)
    /\ \A n \in Checked : placed[n].whole

(* The inductive invariant: the books are true of what is settled, and     *)
(* room was found before anything else was written.                        *)
ExtractionInvariant ==
  ExtractionBase /\ Copying /\ (\A a \in 1..archives : Bounded(a)) /\ Counting
-----------------------------------------------------------------------------
(* The limits are natural numbers.                                         *)
LEMMA LimitsAreNat == MaxFiles \in Nat /\ MaxSingle \in Nat /\ MaxBytes \in Nat /\ MaxSize \in Nat
  BY ExtractionAssumption

(* Of sizes: of a part, with an element more, of a larger bound.           *)
LEMMA SmallPart ==
  ASSUME NEW S, NEW T, T \subseteq S, NEW k \in Nat, Small(S, k)
  PROVE  Small(T, k)
  <1>1. IsFiniteSet(S) /\ Cardinality(S) <= k
    BY DEF Small
  <1>2. IsFiniteSet(T) /\ Cardinality(T) <= Cardinality(S)
    BY <1>1, FS_Subset
  <1>3. Cardinality(S) \in Nat /\ Cardinality(T) \in Nat
    BY <1>1, <1>2, FS_CardinalityType
  <1> QED
    BY <1>1, <1>2, <1>3 DEF Small

(* One more makes at most one more, ...                                    *)
LEMMA SmallGrows ==
  ASSUME NEW S, NEW x, NEW k \in Nat, Small(S, k)
  PROVE  Small(S \cup {x}, k + 1)
  <1>1. IsFiniteSet(S) /\ Cardinality(S) <= k
    BY DEF Small
  <1>2. /\ IsFiniteSet(S \cup {x})
        /\ Cardinality(S \cup {x}) = IF x \in S THEN Cardinality(S) ELSE Cardinality(S) + 1
    BY <1>1, FS_AddElement
  <1>3. Cardinality(S) \in Nat
    BY <1>1, FS_CardinalityType
  <1> QED
    BY <1>1, <1>2, <1>3 DEF Small

(* ... and exactly one more if it is new.                                  *)
LEMMA ExactGrows ==
  ASSUME NEW S, NEW x, x \notin S, NEW k \in Nat, Exact(S, k)
  PROVE  Exact(S \cup {x}, k + 1)
  BY FS_AddElement DEF Exact

(* A bound may be raised.                                                  *)
LEMMA SmallMore ==
  ASSUME NEW S, NEW k \in Nat, NEW m \in Nat, k <= m, Small(S, k)
  PROVE  Small(S, m)
  <1>1. IsFiniteSet(S) /\ Cardinality(S) <= k /\ Cardinality(S) \in Nat
    BY FS_CardinalityType DEF Small
  <1> QED
    BY <1>1 DEF Small

(* Nothing is within every bound.                                          *)
LEMMA NothingIsSmall ==
  ASSUME NEW k \in Nat
  PROVE  Small({}, k) /\ Exact({}, 0)
  BY FS_EmptySet DEF Small, Exact

(* Writing one name.                                                       *)
LEMMA WritingName ==
  ASSUME NEW p, NEW q, NEW x \in Entry, \A n \in Entry : n # x => q[n] = p[n]
  PROVE  /\ \A a : a # q[x].by => Mine(q, a) = Mine(p, a) \ {x}
         /\ \A a : a = q[x].by => Mine(q, a) = Mine(p, a) \cup {x}
  BY DEF Mine

(* The file that is being written, one chunk longer and complete.          *)
LEMMA Longer ==
  ASSUME NEW f \in Placed, NEW j \in Nat
  PROVE  LET g == [f EXCEPT !.size = j] IN g \in Placed /\ g.size = j /\ g.by = f.by
  BY DEF Placed

(* It keeps its size and its archive when it is complete.                  *)
LEMMA Finished ==
  ASSUME NEW f \in Placed
  PROVE  LET g == [f EXCEPT !.whole = TRUE] IN g \in Placed /\ g.size = f.size /\ g.by = f.by /\ g.whole
  BY DEF Placed

(* The chunks under some names, one by one; ...                            *)
LEMMA PiecesAre ==
  ASSUME NEW p, NEW S
  PROVE  \A y : y \in Pieces(p, S) <=> \E n \in S : \E i \in 1..p[n].size : y = <<n, i>>
  BY DEF Pieces

(* ... they depend on the sizes of these names only, ...                   *)
LEMMA PiecesOfSame ==
  ASSUME NEW p, NEW q, NEW S, \A n \in S : q[n].size = p[n].size
  PROVE  Pieces(q, S) = Pieces(p, S)
  <1>1. \A y : y \in Pieces(p, S) <=> y \in Pieces(q, S)
    BY PiecesAre
  <1> QED
    BY <1>1

(* ... fewer names have fewer, ...                                         *)
LEMMA PiecesOfPart ==
  ASSUME NEW p, NEW S, NEW T, T \subseteq S
  PROVE  Pieces(p, T) \subseteq Pieces(p, S)
  BY PiecesAre

(* ... none have none, ...                                                 *)
LEMMA PiecesOfNone ==
  ASSUME NEW p
  PROVE  Pieces(p, {}) = {}
  BY DEF Pieces

(* ... an empty file adds none, ...                                        *)
LEMMA PiecesOfEmpty ==
  ASSUME NEW p, NEW S, NEW x, p[x].size = 0
  PROVE  Pieces(p, S \cup {x}) = Pieces(p, S \ {x}) 
  <1>1. \A y : y \in Pieces(p, S \cup {x}) <=> y \in Pieces(p, S \ {x})
    BY PiecesAre
  <1> QED
    BY <1>1

(* ... and one chunk more is one element more.                             *)
LEMMA PiecesOfOneMore ==
  ASSUME NEW p, NEW q, NEW S, NEW x \in S, NEW k \in Nat, p[x].size = k, q[x].size = k + 1,
         \A n \in S : n # x => q[n].size = p[n].size
  PROVE  Pieces(q, S) = Pieces(p, S) \cup {<<x, k + 1>>} /\ <<x, k + 1>> \notin Pieces(p, S)
  <1>1. \A i : i \in 1..(k + 1) <=> i \in 1..k \/ i = k + 1
    OBVIOUS
  <1>2. \A y : y \in Pieces(q, S) <=> y \in Pieces(p, S) \cup {<<x, k + 1>>}
    <2>1. ASSUME NEW y, y \in Pieces(q, S) PROVE y \in Pieces(p, S) \cup {<<x, k + 1>>}
      <3>1. PICK n \in S : \E i \in 1..q[n].size : y = <<n, i>>
        BY <2>1, PiecesAre
      <3>2. PICK i \in 1..q[n].size : y = <<n, i>>
        BY <3>1
      <3>3. CASE n = x
        BY <1>1, <3>2, <3>3, PiecesAre
      <3>4. CASE n # x
        BY <3>2, <3>4, PiecesAre
      <3> QED
        BY <3>3, <3>4
    <2>2. ASSUME NEW y, y \in Pieces(p, S) PROVE y \in Pieces(q, S)
      <3>1. PICK n \in S : \E i \in 1..p[n].size : y = <<n, i>>
        BY <2>2, PiecesAre
      <3>2. PICK i \in 1..p[n].size : y = <<n, i>>
        BY <3>1
      <3>3. i \in 1..q[n].size
        BY <1>1, <3>2
      <3> QED
        BY <3>2, <3>3, PiecesAre
    <2>3. <<x, k + 1>> \in Pieces(q, S)
      <3>1. k + 1 \in 1..q[x].size
        OBVIOUS
      <3> QED
        BY <3>1, PiecesAre
    <2> QED
      BY <2>1, <2>2, <2>3
  <1>3. <<x, k + 1>> \notin Pieces(p, S)
    <2> SUFFICES ASSUME <<x, k + 1>> \in Pieces(p, S) PROVE FALSE
      OBVIOUS
    <2>1. PICK n \in S : \E i \in 1..p[n].size : <<x, k + 1>> = <<n, i>>
      BY PiecesAre
    <2>2. PICK i \in 1..p[n].size : <<x, k + 1>> = <<n, i>>
      BY <2>1
    <2>3. k + 1 \in 1..k
      BY <2>2
    <2> QED
      BY <2>3
  <1> QED
    BY <1>2, <1>3
-----------------------------------------------------------------------------
(* An archive keeps its limits when names of it are given to another.      *)
LEMMA BoundedKept ==
  ASSUME ExtractionBase, placed' \in [Entry -> Placed], NEW a \in Nat, Bounded(a),
         Mine(placed', a) \subseteq Mine(placed, a),
         \A n \in Mine(placed', a) : placed'[n].size = placed[n].size
  PROVE  Bounded(a)'
  <1>1. Small(Mine(placed', a), MaxFiles)
    BY SmallPart, LimitsAreNat DEF Bounded
  <1>2. Pieces(placed', Mine(placed', a)) = Pieces(placed, Mine(placed', a))
    BY PiecesOfSame
  <1>3. Pieces(placed, Mine(placed', a)) \subseteq Pieces(placed, Mine(placed, a))
    BY PiecesOfPart
  <1>4. Small(Pieces(placed', Mine(placed', a)), MaxBytes)
    BY <1>2, <1>3, SmallPart, LimitsAreNat DEF Bounded
  <1>5. \A n \in Mine(placed', a) : placed'[n].size <= MaxSingle
    BY DEF Bounded
  <1> QED
    BY <1>1, <1>4, <1>5 DEF Bounded

(* Nothing written, no limit passed.                                       *)
LEMMA OldKept ==
  ASSUME ExtractionInvariant, UNCHANGED <<placed, archives>>
  PROVE  \A a \in 1..archives' : Bounded(a)'
  BY DEF ExtractionInvariant, Bounded

(* An archive is given up.                                                 *)
LEMMA FailKeeps ==
  ASSUME ExtractionInvariant, Fail, UNCHANGED <<format, placed, twice, archives>>
  PROVE  ExtractionInvariant'
  <1>1. acct' \in Books /\ acct'.files = acct.files /\ acct'.total = acct.total /\ acct'.errors
    BY DEF Fail, ExtractionInvariant, ExtractionBase, Books
  <1>2. stage' = "rest"
    BY DEF Fail
  <1>3. ExtractionBase'
    BY <1>1, <1>2 DEF ExtractionInvariant, ExtractionBase
  <1> QED
    BY <1>1, <1>2, <1>3, OldKept DEF ExtractionInvariant, Copying, Counting

(* A new archive has nothing on the disk.                                  *)
LEMMA UnpackKeeps ==
  ASSUME ExtractionInvariant, Unpack
  PROVE  ExtractionInvariant'
  <1>1. /\ stage' \in {"list", "entry"} /\ format' \in {"zip", "tar", "gz", "7z", "other"} /\ archives' = archives + 1
        /\ acct' = NewAcct /\ ~twice' /\ twice' \in BOOLEAN /\ UNCHANGED placed
    BY ExtractionAssumption DEF Unpack
  <1>2. acct' \in Books /\ acct'.files = 0 /\ acct'.total = 0 /\ ~acct'.errors
    BY <1>1 DEF NewAcct, Books
  <1>3. /\ archives \in Nat /\ placed \in [Entry -> Placed]
        /\ \A n \in Entry : placed[n].by <= archives /\ placed[n].by \in Nat
    BY DEF ExtractionInvariant, ExtractionBase, Placed
  <1>4. ExtractionBase'
    BY <1>1, <1>2, <1>3, LimitsAreNat DEF ExtractionBase
  <1>5. Mine(placed', archives') = {}
    BY <1>1, <1>3 DEF Mine
  <1>6. Checked' = {}
    BY <1>1, <1>5 DEF Checked
  <1>7. Pieces(placed', {}) = {}
    BY PiecesOfNone
  <1>8. ASSUME NEW a \in Nat, a = archives + 1 PROVE Bounded(a)'
    <2>1. Mine(placed', a) = {}
      BY <1>1, <1>5, <1>8
    <2>2. Pieces(placed', Mine(placed', a)) = {}
      BY <1>7, <2>1
    <2>3. \A n \in Mine(placed', a) : placed'[n].size <= MaxSingle
      BY <2>1
    <2> QED
      BY <2>1, <2>2, <2>3, NothingIsSmall, LimitsAreNat DEF Bounded
  <1>9. ASSUME NEW a \in 1..archives PROVE Bounded(a)'
    BY <1>1 DEF ExtractionInvariant, Bounded
  <1>10. ASSUME NEW a \in 1..(archives + 1) PROVE Bounded(a)'
    <2>1. a \in Nat /\ (a \in 1..archives \/ a = archives + 1)
      BY <1>3
    <2> QED
      BY <1>8, <1>9, <2>1
  <1>11. Counting'
    BY <1>2, <1>6, <1>7, NothingIsSmall DEF Counting
  <1>12. Copying'
    BY <1>1 DEF Copying
  <1> QED
    BY <1>1, <1>4, <1>10, <1>11, <1>12 DEF ExtractionInvariant

(* Nothing but the stage changes, or a repeated name is noticed.           *)
LEMMA PassingKeeps ==
  ASSUME ExtractionInvariant, stage # "copy", stage' \in {"rest", "entry"}, stage' # "rest" => stage # "rest",
         UNCHANGED <<format, acct, placed, archives>>, twice' \in BOOLEAN, twice => twice'
  PROVE  ExtractionInvariant'
  <1>1. ExtractionBase'
    BY DEF ExtractionInvariant, ExtractionBase
  <1>2. Checked' = Checked
    BY DEF Checked
  <1>3. Counting'
    BY <1>2 DEF ExtractionInvariant, Counting
  <1> QED
    BY <1>1, <1>3, OldKept DEF ExtractionInvariant, Copying

(* An entry is opened: a name may pass to this archive from an older one,  *)
(* or from itself.                                                         *)
LEMMA TakeKeeps ==
  ASSUME ExtractionInvariant, TakeEntry
  PROVE  ExtractionInvariant'
  <1>1. CASE UNCHANGED <<stage, copy, placed, twice>>
    <2>1. stage = "entry" /\ UNCHANGED <<format, acct, archives>>
      BY DEF TakeEntry
    <2> QED
      BY <1>1, <2>1, PassingKeeps DEF ExtractionInvariant, ExtractionBase
  <1>2. ASSUME NEW n \in Entry, NEW says, says \in (IF format = "gz" THEN {0} ELSE 0..MaxSize),
               twice' = (twice \/ placed[n].by = archives), ~CanAdd(says), UNCHANGED <<stage, copy, placed>>
        PROVE  ExtractionInvariant'
    <2>1. stage = "entry" /\ UNCHANGED <<format, acct, archives>>
      BY DEF TakeEntry
    <2>2. twice' \in BOOLEAN /\ (twice => twice')
      BY <1>2 DEF ExtractionInvariant, ExtractionBase
    <2> QED
      BY <1>2, <2>1, <2>2, PassingKeeps
  <1>3. ASSUME NEW x \in Entry, NEW says, says \in (IF format = "gz" THEN {0} ELSE 0..MaxSize),
               twice' = (twice \/ placed[x].by = archives), CanAdd(says),
               stage' = "copy", copy' = [path |-> x, says |-> says, size |-> 0],
               placed' = [placed EXCEPT ![x] = [size |-> 0, whole |-> FALSE, by |-> archives]]
        PROVE  ExtractionInvariant'
    <2>0. /\ stage = "entry" /\ UNCHANGED <<format, acct, archives>>
          /\ acct \in Books /\ placed \in [Entry -> Placed] /\ archives \in Nat /\ archives > 0 /\ ~acct.errors
          /\ \A n \in Entry : placed[n].by <= archives
          /\ acct.files <= MaxFiles /\ acct.total <= MaxBytes /\ twice \in BOOLEAN
          /\ format \in {"zip", "tar", "gz", "7z", "other"}
      BY DEF TakeEntry, ExtractionInvariant, ExtractionBase
    <2>b. acct.files \in Nat /\ acct.total \in Nat
      BY <2>0 DEF Books
    <2>1. acct.files < MaxFiles
      BY <1>3 DEF CanAdd
    <2> DEFINE r == [size |-> 0, whole |-> FALSE, by |-> archives]
    <2>r. r \in Placed /\ r.by = archives /\ r.size = 0
      BY <2>0 DEF Placed
    <2>c. copy'.path = x /\ copy'.size = 0
      BY <1>3
    <2>2. placed' = [placed EXCEPT ![x] = r]
      BY <1>3
    <2> HIDE DEF r
    <2>3. /\ placed' \in [Entry -> Placed] /\ placed'[x] = r /\ \A n \in Entry : n # x => placed'[n] = placed[n]
          /\ \A a : a # archives => Mine(placed', a) = Mine(placed, a) \ {x}
          /\ Mine(placed', archives) = Mine(placed, archives) \cup {x}
      <3>1. placed' \in [Entry -> Placed] /\ placed'[x] = r /\ \A n \in Entry : n # x => placed'[n] = placed[n]
        BY <2>0, <2>2, <2>r
      <3> QED
        BY <2>r, <3>1, WritingName
    <2>4. ExtractionBase'
      BY <1>3, <2>0, <2>3, <2>r DEF ExtractionBase
    <2>5. Checked = Mine(placed, archives) /\ Checked' = Mine(placed, archives) \ {x}
      BY <1>3, <2>0, <2>3, <2>c DEF Checked
    <2>6. /\ Small(Checked, acct.files) /\ Small(Pieces(placed, Checked), acct.total)
          /\ ~twice => Exact(Checked, acct.files) /\ Exact(Pieces(placed, Checked), acct.total)
          /\ \A n \in Checked : placed[n].whole
      BY <2>0 DEF ExtractionInvariant, Counting
    <2>7. \A n \in Checked' : n \in Entry /\ n # x /\ placed'[n] = placed[n]
      BY <2>3, <2>5 DEF Mine
    <2>8. Pieces(placed', Checked') = Pieces(placed, Checked')
      BY <2>7, PiecesOfSame
    <2>9. Pieces(placed, Checked') \subseteq Pieces(placed, Checked)
      BY <2>5, PiecesOfPart
    <2>10. Small(Checked', acct.files) /\ Small(Pieces(placed', Checked'), acct.total)
      <3>1. Checked' \subseteq Checked
        BY <2>5
      <3> QED
        BY <2>6, <2>8, <2>9, <2>b, <3>1, SmallPart
    <2>11. ~twice' => Exact(Checked', acct.files) /\ Exact(Pieces(placed', Checked'), acct.total)
      <3>1. ~twice' => ~twice /\ Checked' = Checked
        BY <1>3, <2>5 DEF Mine
      <3> QED
        BY <2>6, <2>8, <3>1
    <2>12. Counting'
      BY <2>0, <2>6, <2>7, <2>10, <2>11, <2>5 DEF Counting
    <2>13. Pieces(placed', Mine(placed', archives)) = Pieces(placed', Checked')
      <3>0. placed'[x].size = 0
        BY <2>3, <2>r
      <3>1. Pieces(placed', Mine(placed, archives) \cup {x}) = Pieces(placed', Mine(placed, archives) \ {x})
        BY <3>0, PiecesOfEmpty
      <3> QED
        BY <2>3, <2>5, <3>1
    <2>14. Copying'
      <3>1. placed'[copy'.path].size = copy'.size /\ placed'[copy'.path].by = archives'
        BY <2>0, <2>3, <2>c, <2>r
      <3>2. acct'.total + copy'.size = acct.total /\ copy'.size <= MaxSingle
        BY <2>0, <2>b, <2>c, LimitsAreNat
      <3> QED
        BY <2>0, <2>1, <2>10, <2>11, <2>13, <2>c, <3>1, <3>2 DEF Copying
    <2>15. Bounded(archives)'
      <3>0. Small(Mine(placed, archives), acct.files)
        BY <2>5, <2>6
      <3>1. Small(Mine(placed, archives) \cup {x}, acct.files + 1)
        BY <2>b, <3>0, SmallGrows
      <3>2. Small(Mine(placed', archives), MaxFiles)
        BY <2>1, <2>3, <2>b, <3>1, SmallMore, LimitsAreNat
      <3>3. Small(Pieces(placed', Mine(placed', archives)), MaxBytes)
        BY <2>0, <2>b, <2>10, <2>13, SmallMore, LimitsAreNat
      <3>4. \A n \in Mine(placed, archives) : placed[n].size <= MaxSingle
        BY <2>0 DEF ExtractionInvariant, Bounded
      <3>5. \A n \in Mine(placed', archives) : placed'[n].size <= MaxSingle
        BY <2>3, <2>r, <3>4, LimitsAreNat DEF Mine
      <3> QED
        BY <2>0, <3>2, <3>3, <3>5 DEF Bounded
    <2>16. ASSUME NEW a \in 1..archives, a # archives PROVE Bounded(a)'
      <3>1. Mine(placed', a) \subseteq Mine(placed, a) /\ \A n \in Mine(placed', a) : placed'[n].size = placed[n].size
        BY <2>3, <2>16 DEF Mine
      <3> QED
        BY <2>3, <2>0, <3>1, BoundedKept DEF ExtractionInvariant
    <2> QED
      BY <2>0, <2>4, <2>12, <2>14, <2>15, <2>16 DEF ExtractionInvariant
  <1> QED
    BY <1>1, <1>2, <1>3 DEF TakeEntry

(* What holds while a copy goes on.                                        *)
LEMMA WhileCopying ==
  ASSUME ExtractionInvariant, stage = "copy"
  PROVE  /\ acct \in Books /\ placed \in [Entry -> Placed] /\ archives \in Nat /\ archives > 0 /\ ~acct.errors
         /\ acct.files \in Nat /\ acct.total \in Nat
         /\ \A n \in Entry : placed[n].by <= archives
         /\ copy.path \in Mine(placed, archives) /\ copy.path \in Entry /\ copy.size \in Nat
         /\ placed[copy.path].size = copy.size /\ placed[copy.path].by = archives
         /\ Checked = Mine(placed, archives) \ {copy.path}
         /\ Small(Checked, acct.files) /\ Small(Pieces(placed, Checked), acct.total)
         /\ ~twice => Exact(Checked, acct.files) /\ Exact(Pieces(placed, Checked), acct.total)
         /\ \A n \in Checked : placed[n].whole
  <1>1. copy.path \in Mine(placed, archives)
    BY DEF ExtractionInvariant, Copying, Mine
  <1> QED
    BY <1>1 DEF ExtractionInvariant, ExtractionBase, Copying, Counting, Checked, Books

(* A chunk fits and is written, or the file goes.                          *)
LEMMA ChunkKeeps ==
  ASSUME ExtractionInvariant, Chunk
  PROVE  ExtractionInvariant'
  <1>0. stage = "copy" /\ UNCHANGED <<format, acct, twice, archives>>
    BY DEF Chunk
  <1>x. PICK x \in Entry : x = copy.path
    BY <1>0, WhileCopying
  <1>k. PICK k \in Nat : k = copy.size
    BY <1>0, WhileCopying
  <1>1. /\ acct \in Books /\ placed \in [Entry -> Placed] /\ archives \in Nat /\ archives > 0 /\ ~acct.errors
        /\ acct.files \in Nat /\ acct.total \in Nat
        /\ \A n \in Entry : placed[n].by <= archives
        /\ x \in Mine(placed, archives) /\ x \in Entry /\ k \in Nat
        /\ placed[x].size = k /\ placed[x].by = archives
        /\ Checked = Mine(placed, archives) \ {x}
        /\ Small(Checked, acct.files) /\ Small(Pieces(placed, Checked), acct.total)
        /\ ~twice => Exact(Checked, acct.files) /\ Exact(Pieces(placed, Checked), acct.total)
        /\ \A n \in Checked : placed[n].whole
    BY <1>0, <1>x, <1>k, WhileCopying
  <1>2. \A a \in 1..archives : Bounded(a)
    BY DEF ExtractionInvariant
  <1>3. /\ acct.files < MaxFiles
        /\ Small(Pieces(placed, Mine(placed, archives)), acct.total + k)
        /\ ~twice => Exact(Pieces(placed, Mine(placed, archives)), acct.total + k)
    BY <1>0, <1>k DEF ExtractionInvariant, Copying
  <1>4. acct.files <= MaxFiles /\ acct.total <= MaxBytes /\ twice \in BOOLEAN /\ format \in {"zip", "tar", "gz", "7z", "other"}
    BY DEF ExtractionInvariant, ExtractionBase
  <1>5. CASE Fits(k + 1)
    <2> DEFINE r == [placed[x] EXCEPT !.size = k + 1]
    <2>r. r \in Placed /\ r.by = archives /\ r.size = k + 1
      <3>1. PICK j \in Nat : j = k + 1
        OBVIOUS
      <3>2. placed[x] \in Placed
        BY <1>1
      <3> QED
        BY <1>1, <3>1, <3>2, Longer
    <2>1. /\ placed' = [placed EXCEPT ![x].size = k + 1]
          /\ copy' = [copy EXCEPT !.size = k + 1] /\ stage' = "copy"
      BY <1>0, <1>5, <1>x, <1>k DEF Chunk
    <2>2. placed' = [placed EXCEPT ![x] = r]
      BY <2>1
    <2>f. k + 1 <= MaxSingle /\ acct.total + (k + 1) <= MaxBytes
      BY <1>5 DEF Fits
    <2>c. copy'.path = x /\ copy'.size = k + 1
      BY <1>0, <1>x, <2>1 DEF ExtractionInvariant, Copying
    <2> HIDE DEF r
    <2>3. /\ placed' \in [Entry -> Placed] /\ placed'[x] = r /\ \A n \in Entry : n # x => placed'[n] = placed[n]
          /\ \A a : a # archives => Mine(placed', a) = Mine(placed, a) \ {x}
          /\ Mine(placed', archives) = Mine(placed, archives)
      <3>1. placed' \in [Entry -> Placed] /\ placed'[x] = r /\ \A n \in Entry : n # x => placed'[n] = placed[n]
        BY <1>1, <2>2, <2>r
      <3>2. placed'[x].by = archives
        BY <2>r, <3>1
      <3>3. Mine(placed', archives) = Mine(placed, archives) \cup {x}
        BY <3>1, <3>2, WritingName
      <3> QED
        BY <1>1, <3>1, <3>2, <3>3, WritingName
    <2>4. ExtractionBase'
      BY <1>0, <1>1, <1>4, <2>1, <2>3, <2>r DEF ExtractionBase
    <2>5. Checked' = Checked
      BY <1>0, <1>1, <2>1, <2>3, <2>c DEF Checked
    <2>6. \A n \in Checked : placed'[n] = placed[n]
      BY <1>1, <2>3 DEF Mine
    <2>7. Pieces(placed', Checked) = Pieces(placed, Checked)
      BY <2>6, PiecesOfSame
    <2>8. Counting'
      BY <1>0, <1>1, <2>5, <2>6, <2>7 DEF Counting
    <2>9. /\ Pieces(placed', Mine(placed, archives)) = Pieces(placed, Mine(placed, archives)) \cup {<<x, k + 1>>}
          /\ <<x, k + 1>> \notin Pieces(placed, Mine(placed, archives))
      <3>1. placed[x].size = k /\ placed'[x].size = k + 1
        BY <1>1, <2>3, <2>r
      <3>2. \A n \in Mine(placed, archives) : n # x => placed'[n].size = placed[n].size
        BY <2>3 DEF Mine
      <3>3. x \in Mine(placed, archives)
        BY <1>1
      <3> QED
        BY <3>1, <3>2, <3>3, PiecesOfOneMore
    <2>10. acct.total + (k + 1) = (acct.total + k) + 1 /\ acct.total + k \in Nat
      BY <1>1
    <2>11. /\ Small(Pieces(placed', Mine(placed', archives)), acct.total + (k + 1))
           /\ ~twice => Exact(Pieces(placed', Mine(placed', archives)), acct.total + (k + 1))
      <3>1. Small(Pieces(placed, Mine(placed, archives)) \cup {<<x, k + 1>>}, (acct.total + k) + 1)
        BY <1>3, <2>10, SmallGrows
      <3>2. ~twice => Exact(Pieces(placed, Mine(placed, archives)) \cup {<<x, k + 1>>}, (acct.total + k) + 1)
        BY <1>3, <2>9, <2>10, ExactGrows
      <3> QED
        BY <2>3, <2>9, <2>10, <3>1, <3>2
    <2>12. Copying'
      <3>1. placed'[copy'.path].size = copy'.size /\ placed'[copy'.path].by = archives'
        BY <1>0, <2>3, <2>c, <2>r
      <3> QED
        BY <1>0, <1>1, <1>3, <2>11, <2>c, <2>f, <3>1 DEF Copying
    <2>13. Bounded(archives)'
      <3>1. archives \in 1..archives
        BY <1>1
      <3>2. Small(Mine(placed', archives), MaxFiles)
        BY <1>2, <2>3, <3>1 DEF Bounded
      <3>3. Small(Pieces(placed', Mine(placed', archives)), MaxBytes)
        BY <2>f, <2>10, <2>11, SmallMore, LimitsAreNat
      <3>4. \A n \in Mine(placed', archives) : placed'[n].size <= MaxSingle
        BY <1>2, <2>3, <2>f, <2>r, <3>1 DEF Bounded, Mine
      <3> QED
        BY <1>0, <3>2, <3>3, <3>4 DEF Bounded
    <2>14. ASSUME NEW a \in 1..archives, a # archives PROVE Bounded(a)'
      <3>1. Mine(placed', a) \subseteq Mine(placed, a) /\ \A n \in Mine(placed', a) : placed'[n].size = placed[n].size
        BY <2>3, <2>14 DEF Mine
      <3> QED
        BY <1>2, <2>3, <3>1, BoundedKept DEF ExtractionInvariant
    <2> QED
      BY <1>0, <2>4, <2>8, <2>12, <2>13, <2>14 DEF ExtractionInvariant
  <1>6. CASE ~Fits(k + 1)
    <2>1. placed' = [placed EXCEPT ![x] = NotThere] /\ stage' = "entry"
      BY <1>0, <1>6, <1>x, <1>k DEF Chunk, Unlinked
    <2>r. NotThere \in Placed /\ NotThere.by = 0
      BY DEF NotThere, Placed
    <2>3. /\ placed' \in [Entry -> Placed] /\ placed'[x] = NotThere
          /\ \A n \in Entry : n # x => placed'[n] = placed[n]
          /\ \A a : a # 0 => Mine(placed', a) = Mine(placed, a) \ {x}
      <3>1. placed' \in [Entry -> Placed] /\ placed'[x] = NotThere /\ \A n \in Entry : n # x => placed'[n] = placed[n]
        BY <1>1, <2>1, <2>r
      <3> QED
        BY <2>r, <3>1, WritingName
    <2>4. ExtractionBase'
      BY <1>0, <1>1, <1>4, <2>1, <2>3, <2>r DEF ExtractionBase
    <2>5. Checked' = Checked
      <3>1. Checked' = Mine(placed', archives)
        BY <1>0, <2>1 DEF Checked
      <3>2. Mine(placed', archives) = Mine(placed, archives) \ {x}
        BY <1>1, <2>3
      <3> QED
        BY <1>1, <3>1, <3>2
    <2>6. \A n \in Checked : placed'[n] = placed[n]
      BY <1>1, <2>3 DEF Mine
    <2>7. Pieces(placed', Checked) = Pieces(placed, Checked)
      BY <2>6, PiecesOfSame
    <2>8. Counting'
      BY <1>0, <1>1, <2>5, <2>6, <2>7 DEF Counting
    <2>9. ASSUME NEW a \in 1..archives PROVE Bounded(a)'
      <3>1. Mine(placed', a) \subseteq Mine(placed, a) /\ \A n \in Mine(placed', a) : placed'[n].size = placed[n].size
        BY <1>1, <2>3 DEF Mine
      <3> QED
        BY <1>2, <2>3, <3>1, BoundedKept DEF ExtractionInvariant
    <2> QED
      BY <1>0, <2>1, <2>4, <2>8, <2>9 DEF ExtractionInvariant, Copying
  <1> QED
    BY <1>5, <1>6

(* The file at hand is settled, and the books count it.                    *)
LEMMA CountedKeeps ==
  ASSUME ExtractionInvariant, Counted
  PROVE  ExtractionInvariant'
  <1>0. stage = "copy" /\ stage' = "entry" /\ UNCHANGED <<format, twice, archives>>
    BY DEF Counted
  <1>x. PICK x \in Entry : x = copy.path
    BY <1>0, WhileCopying
  <1>k. PICK k \in Nat : k = copy.size
    BY <1>0, WhileCopying
  <1> DEFINE r == [placed[x] EXCEPT !.whole = TRUE]
  <1>1. /\ acct \in Books /\ placed \in [Entry -> Placed] /\ archives \in Nat /\ archives > 0 /\ ~acct.errors
        /\ acct.files \in Nat /\ acct.total \in Nat
        /\ \A n \in Entry : placed[n].by <= archives
        /\ x \in Mine(placed, archives) /\ x \in Entry /\ k \in Nat
        /\ placed[x].size = k /\ placed[x].by = archives
        /\ Checked = Mine(placed, archives) \ {x}
        /\ Small(Checked, acct.files) /\ Small(Pieces(placed, Checked), acct.total)
        /\ ~twice => Exact(Checked, acct.files) /\ Exact(Pieces(placed, Checked), acct.total)
        /\ \A n \in Checked : placed[n].whole
    BY <1>0, <1>x, <1>k, WhileCopying
  <1>2. /\ acct' = [acct EXCEPT !.files = acct.files + 1, !.total = acct.total + k]
        /\ placed' = [placed EXCEPT ![x].whole = TRUE]
    BY <1>x, <1>k DEF Counted
  <1>a. acct' \in Books /\ acct'.files = acct.files + 1 /\ acct'.total = acct.total + k /\ ~acct'.errors
    <2>1. PICK f \in Nat, t \in Nat : f = acct.files + 1 /\ t = acct.total + k
      BY <1>1
    <2>2. acct' = [acct EXCEPT !.files = f, !.total = t]
      BY <1>2, <2>1
    <2> QED
      BY <1>1, <2>1, <2>2 DEF Books
  <1>p. placed' = [placed EXCEPT ![x] = r]
    BY <1>2
  <1>r. r \in Placed /\ r.by = archives /\ r.size = k /\ r.whole
    <2>1. placed[x] \in Placed
      BY <1>1
    <2> QED
      BY <1>1, <2>1, Finished
  <1> HIDE DEF r
  <1>3. /\ placed' \in [Entry -> Placed] /\ placed'[x] = r /\ \A n \in Entry : n # x => placed'[n] = placed[n]
        /\ \A a : a # archives => Mine(placed', a) = Mine(placed, a) \ {x}
        /\ Mine(placed', archives) = Mine(placed, archives)
    <2>1. placed' \in [Entry -> Placed] /\ placed'[x] = r /\ \A n \in Entry : n # x => placed'[n] = placed[n]
      BY <1>1, <1>p, <1>r
    <2>2. Mine(placed', archives) = Mine(placed, archives) \cup {x}
      BY <1>r, <2>1, WritingName
    <2> QED
      BY <1>1, <1>r, <2>1, <2>2, WritingName
  <1>4. /\ acct.files < MaxFiles /\ acct.total + k <= MaxBytes
        /\ Small(Pieces(placed, Mine(placed, archives)), acct.total + k)
        /\ ~twice => Exact(Pieces(placed, Mine(placed, archives)), acct.total + k)
    BY <1>0, <1>k DEF ExtractionInvariant, Copying
  <1>5. twice \in BOOLEAN /\ format \in {"zip", "tar", "gz", "7z", "other"} /\ \A a \in 1..archives : Bounded(a)
    BY DEF ExtractionInvariant, ExtractionBase
  <1>6. ExtractionBase'
    BY <1>0, <1>1, <1>3, <1>4, <1>5, <1>a, <1>r, LimitsAreNat DEF ExtractionBase
  <1>7. \A n \in Entry : placed'[n].size = placed[n].size
    BY <1>1, <1>3, <1>r
  <1>8. \A a \in 1..archives' : Bounded(a)'
    <2> SUFFICES ASSUME NEW a \in 1..archives PROVE Bounded(a)'
      BY <1>0
    <2>1. Mine(placed', a) \subseteq Mine(placed, a)
      BY <1>3
    <2>2. \A n \in Mine(placed', a) : placed'[n].size = placed[n].size
      BY <1>7 DEF Mine
    <2> QED
      BY <1>3, <1>5, <2>1, <2>2, BoundedKept DEF ExtractionInvariant
  <1>9. Checked' = Checked \cup {x} /\ Checked' = Mine(placed, archives) /\ x \notin Checked
    BY <1>0, <1>1, <1>3 DEF Checked
  <1>10. Pieces(placed', Checked') = Pieces(placed, Mine(placed, archives))
    <2>1. \A n \in Mine(placed, archives) : placed'[n].size = placed[n].size
      BY <1>7 DEF Mine
    <2>2. Pieces(placed', Mine(placed, archives)) = Pieces(placed, Mine(placed, archives))
      BY <2>1, PiecesOfSame
    <2> QED
      BY <1>9, <2>2
  <1>11. Counting'
    <2>1. Small(Checked', acct'.files) /\ (~twice => Exact(Checked', acct'.files))
      <3>1. Small(Checked \cup {x}, acct.files + 1)
        BY <1>1, SmallGrows
      <3>2. ~twice => Exact(Checked \cup {x}, acct.files + 1)
        BY <1>1, <1>9, ExactGrows
      <3> QED
        BY <1>9, <1>a, <3>1, <3>2
    <2>2. Small(Pieces(placed', Checked'), acct'.total) /\ (~twice => Exact(Pieces(placed', Checked'), acct'.total))
      BY <1>4, <1>10, <1>a
    <2>3. \A n \in Checked' : placed'[n].whole
      BY <1>1, <1>3, <1>9, <1>r DEF Mine
    <2> QED
      BY <1>0, <2>1, <2>2, <2>3 DEF Counting
  <1> QED
    BY <1>0, <1>6, <1>8, <1>11 DEF ExtractionInvariant, Copying
-----------------------------------------------------------------------------
(* The invariant holds at the start, ...                                   *)
LEMMA ExtractionStarts == ExtractionInit => ExtractionInvariant
  <1> SUFFICES ASSUME ExtractionInit PROVE ExtractionInvariant
    OBVIOUS
  <1>1. NotThere \in Placed /\ NotThere.by = 0 /\ NewAcct \in Books /\ NewAcct.files = 0 /\ NewAcct.total = 0
    BY DEF NotThere, NewAcct, Placed, Books
  <1>2. ExtractionBase
    <2>1. placed \in [Entry -> Placed] /\ archives = 0 /\ \A n \in Entry : placed[n].by = 0
      BY <1>1 DEF ExtractionInit
    <2>2. acct \in Books /\ acct.files = 0 /\ acct.total = 0
      BY <1>1 DEF ExtractionInit
    <2>3. stage = "rest" /\ format = "zip" /\ twice \in BOOLEAN
      BY DEF ExtractionInit
    <2>4. 0 <= MaxFiles /\ 0 <= MaxBytes
      BY LimitsAreNat
    <2> QED
      BY <2>1, <2>2, <2>3, <2>4 DEF ExtractionBase
  <1>3. archives = 0 /\ stage = "rest"
    BY DEF ExtractionInit
  <1> QED
    BY <1>2, <1>3 DEF ExtractionInvariant, Copying, Counting

(* ... every step keeps it, ...                                            *)
LEMMA ExtractionStep ==
  ASSUME ExtractionInvariant, ExtractionNext
  PROVE  ExtractionInvariant'
  <1>1. Listed7z => ExtractionInvariant'
    <2> SUFFICES ASSUME Listed7z PROVE ExtractionInvariant'
      OBVIOUS
    <2>1. Fail => ExtractionInvariant'
      BY FailKeeps DEF Listed7z
    <2>2. stage' = "entry" /\ UNCHANGED acct => ExtractionInvariant'
      BY PassingKeeps DEF Listed7z, ExtractionInvariant, ExtractionBase
    <2> QED
      BY <2>1, <2>2 DEF Listed7z
  <1>2. Damaged \/ Killed => ExtractionInvariant'
    BY FailKeeps DEF Damaged, Killed
  <1>3. Through => ExtractionInvariant'
    BY PassingKeeps DEF Through, ExtractionInvariant, ExtractionBase
  <1> QED
    BY <1>1, <1>2, <1>3, UnpackKeeps, TakeKeeps, ChunkKeeps, CountedKeeps DEF ExtractionNext

(* ... and so does a step of nobody.                                       *)
LEMMA ExtractionStutters ==
  ExtractionInvariant /\ UNCHANGED extractionVars => ExtractionInvariant'
  <1> SUFFICES ASSUME ExtractionInvariant, UNCHANGED extractionVars PROVE ExtractionInvariant'
    OBVIOUS
  <1>1. UNCHANGED <<stage, format, seen, acct, copy, placed, twice, archives, kills>>
    BY DEF extractionVars
  <1>2. Checked' = Checked /\ \A a : Bounded(a)' <=> Bounded(a)
    BY <1>1 DEF Checked, Bounded
  <1> QED
    BY <1>1, <1>2 DEF ExtractionInvariant, ExtractionBase, Copying, Counting

(* The invariant holds in every behaviour.                                 *)
THEOREM ExtractionInvariantHolds == ExtractionSpec => []ExtractionInvariant
  <1>1. ExtractionInvariant /\ [ExtractionNext]_extractionVars => ExtractionInvariant'
    BY ExtractionStep, ExtractionStutters
  <1> QED
    BY <1>1, ExtractionStarts, PTL DEF ExtractionSpec

(* The sets and sums the property speaks of are these.                     *)
LEMMA OfIsMine ==
  ASSUME ExtractionBase, NEW a \in Nat, a > 0
  PROVE  Of(a) = Mine(placed, a) /\ Bytes(Of(a)) = Cardinality(Pieces(placed, Mine(placed, a)))
  <1>1. Of(a) = Mine(placed, a)
    BY DEF Of, Mine, NotThere
  <1>2. Chunks(Of(a)) = Pieces(placed, Of(a))
    BY DEF Chunks, Pieces
  <1> QED
    BY <1>1, <1>2 DEF Bytes

(* What an archive has put on the disk stays within its limits at every    *)
(* moment, partial, failed and repeated files included, and the report of  *)
(* one that went through tells exactly what is there.                      *)
THEOREM ExtractionIsSound == ExtractionSpec => []ExtractionSound
  <1>1. ExtractionInvariant => ExtractionSound
    <2> SUFFICES ASSUME ExtractionInvariant PROVE ExtractionSound
      OBVIOUS
    <2>0. ExtractionBase /\ archives \in Nat /\ acct.files \in Nat /\ acct.total \in Nat
      BY DEF ExtractionInvariant, ExtractionBase, Books
    <2>1. DestBounded
      <3> SUFFICES ASSUME NEW a \in 1..archives
                   PROVE  /\ Cardinality(Of(a)) <= MaxFiles /\ Bytes(Of(a)) <= MaxBytes
                          /\ \A n \in Of(a) : placed[n].size <= MaxSingle
        BY DEF DestBounded
      <3>1. a \in Nat /\ a > 0
        BY <2>0
      <3>2. Of(a) = Mine(placed, a) /\ Bytes(Of(a)) = Cardinality(Pieces(placed, Mine(placed, a)))
        BY <2>0, <3>1, OfIsMine
      <3>3. Bounded(a)
        BY DEF ExtractionInvariant
      <3> QED
        BY <3>2, <3>3 DEF Bounded, Small
    <2>2. ReportTrue
      <3> SUFFICES ASSUME stage = "rest", archives > 0, ~acct.errors, ~twice
                   PROVE  /\ acct.files = Cardinality(Of(archives)) /\ acct.total = Bytes(Of(archives))
                          /\ \A n \in Of(archives) : placed[n].whole
        BY DEF ReportTrue
      <3>1. Of(archives) = Mine(placed, archives)
            /\ Bytes(Of(archives)) = Cardinality(Pieces(placed, Mine(placed, archives)))
        BY <2>0, OfIsMine
      <3>2. Checked = Mine(placed, archives)
        BY DEF Checked
      <3>3. /\ Exact(Checked, acct.files) /\ Exact(Pieces(placed, Checked), acct.total)
            /\ \A n \in Checked : placed[n].whole
        BY DEF ExtractionInvariant, Counting
      <3> QED
        BY <3>1, <3>2, <3>3 DEF Exact
    <2> QED
      BY <2>1, <2>2 DEF ExtractionSound
  <1> QED
    BY <1>1, ExtractionInvariantHolds, PTL

(* Every variable of an extraction has its type.                           *)
THEOREM ExtractionTypeCorrect == ExtractionSpec => []ExtractionTypeOK
  <1>1. ExtractionInvariant => ExtractionTypeOK
    BY ExtractionAssumption DEF ExtractionInvariant, ExtractionBase, ExtractionTypeOK, Books, Placed
  <1> QED
    BY <1>1, ExtractionInvariantHolds, PTL
-----------------------------------------------------------------------------
(* Papers and archives of a solved challenge (Finish).                     *)

USE FinishAssumption

\* What a file holds once it is written to the end, and until then.
Whole(n) == [by |-> n, whole |-> TRUE]
Torn(n)  == [by |-> n, whole |-> FALSE]
\* Texts, locals, archive directories and control states.
Cells    == [by : 0..MaxEditions, whole : BOOLEAN]
Hands    == [who : {"none", "worker", "operator"}, k : Place, no : 0..MaxEditions, file : 0..MaxEditions,
             saw : Nat, dir : 0..MaxEditions]
Shelves  == [used : BOOLEAN, files : Nat, manifest : Nat, mixed : BOOLEAN]
Steps    == {"free", "look", "rename", "open", "fill", "mkdir", "manifest"}

\* The files that are there under the name of a paper or a backup of it.
Files(k) == backups[k] \cup ({paper[k]} \ {0})

\* What a process at step l may hold when n editions and archives have begun.
Holds(l, h, n) ==
  /\ l \in {"look", "rename", "open", "fill"} => h.no \in 1..n
  /\ l = "fill" => h.file \in Dirs
  /\ l \in {"mkdir", "manifest"} => h.dir \in Dirs

(* The types of everything; whose file each is, by its number.              *)
FinishBase ==
  /\ verdict \in {"solving", "solved", "error"}
  /\ step \in [Author -> Steps] /\ hand \in [Author -> Hands]
  /\ paper \in [Place -> 0..MaxEditions] /\ backups \in [Place -> SUBSET Dirs]
  /\ text \in [Place -> [Dirs -> Cells]]
  /\ overlap \in BOOLEAN /\ work \in Nat /\ shelf \in [Dirs -> Shelves]
  /\ editions \in 0..MaxEditions /\ crashes \in Nat
  /\ \A a \in Author : Holds(step[a], hand[a], editions)
  /\ \A k \in Place : \A i \in Files(k) : i <= editions

\* One process at a time writes papers.
Alone == ~overlap => \A a, b \in Author : Writing(a) /\ Writing(b) => a = b

\* How far the edition of a writer at step l has come: the papers before are
\* whole, the files of those to come are of earlier editions.
Reached(l, h) ==
  /\ \A k \in Place : k < h.k => Readable(k, h.no)
  /\ \A k \in Place : k > h.k => \A i \in Files(k) : i < h.no
  /\ l # "fill" => \A i \in Files(h.k) : i < h.no
  /\ l = "open" => paper[h.k] = 0
  /\ l = "fill" => h.file = h.no /\ paper[h.k] = h.no /\ text[h.k][h.no] = Torn(h.no)

\* That is how far a writer has come that is alone.
Progress == ~overlap => \A a \in Author : Writing(a) => Reached(step[a], hand[a])

\* The archives under way.
Filing ==
  /\ \A d \in Dirs : ~shelf[d].used => shelf[d].manifest = 0
  /\ \A a \in Author : step[a] = "mkdir" /\ shelf[hand[a].dir].used => shelf[hand[a].dir].mixed
  /\ \A a \in Author : step[a] = "manifest" =>
       LET s == shelf[hand[a].dir] IN s.used /\ (~s.mixed => s.files = hand[a].saw)

(* Everything the proofs carry along.                                      *)
FinishInv == FinishBase /\ Alone /\ Progress /\ EditionsKept /\ Filing /\ ArchiveTrue
-----------------------------------------------------------------------------
(* What is whole is not torn, and is of one edition.                       *)
LEMMA Cell ==
  ASSUME NEW n \in 0..MaxEditions, NEW m \in 0..MaxEditions
  PROVE /\ Whole(n) \in Cells /\ Torn(n) \in Cells
        /\ Whole(n) # Torn(m) /\ (n # m => Whole(n) # Whole(m))
  <1>1. Whole(n) \in Cells /\ Torn(n) \in Cells
    BY DEF Whole, Torn, Cells
  <1>2. Whole(n).whole = TRUE /\ Torn(m).whole = FALSE
    BY DEF Whole, Torn
  <1>3. Whole(n).by = n /\ Whole(m).by = m
    BY DEF Whole
  <1> QED
    BY <1>1, <1>2, <1>3

(* Reading a paper, before and after a step.                               *)
LEMMA Reads ==
  ASSUME NEW k, NEW n
  PROVE /\ Readable(k, n) <=> \E i \in Files(k) : text[k][i] = Whole(n)
        /\ Readable(k, n)' <=> \E i \in Files(k)' : text'[k][i] = Whole(n)
  BY DEF Readable, Files, Whole

(* There is a first paper and another that is the last.                    *)
LEMMA Spans == Last \in Nat /\ Last > 1 /\ 1 \in Place /\ Last \in Place
  BY DEF Last, Place

(* The locals of a process that does nothing.                              *)
LEMMA FreeHand ==
  Free \in Hands /\ Free.who = "none" /\ Free.k = 1 /\ Free.no = 0
  BY Spans DEF Free, Hands

(* The locals of a process that has opened a paper.                        *)
LEMMA OpeningHand ==
  ASSUME NEW h \in Hands, NEW i \in Dirs
  PROVE LET g == [h EXCEPT !.file = i] IN g \in Hands /\ g.file = i /\ g.no = h.no /\ g.k = h.k /\ g.dir = h.dir
  BY DEF Hands, Dirs

(* The locals of a process that goes on to the next paper.                 *)
LEMMA NextHand ==
  ASSUME NEW h \in Hands, h.k # Last
  PROVE LET g == [h EXCEPT !.k = h.k + 1] IN g \in Hands /\ g.k = h.k + 1 /\ g.no = h.no
  BY Spans DEF Hands, Place

\* A process takes a step of its own.
Proceeds(a, l, h) ==
  /\ step' \in [Author -> Steps] /\ hand' \in [Author -> Hands]
  /\ step'[a] = l /\ hand'[a] = h
  /\ \A b \in Author : b # a => step'[b] = step[b] /\ hand'[b] = hand[b]

(* A process that changes its place and its locals.                        *)
LEMMA Moving ==
  ASSUME FinishBase, NEW a \in Author, NEW l \in Steps, NEW h \in Hands, Turn(a, l), Hold(a, h)
  PROVE Proceeds(a, l, h)
  BY DEF FinishBase, Turn, Hold, Proceeds

(* A process that changes its place and keeps its locals.                  *)
LEMMA Staying ==
  ASSUME FinishBase, NEW a \in Author, NEW l \in Steps, Turn(a, l), hand' = hand
  PROVE Proceeds(a, l, hand[a])
  BY DEF FinishBase, Turn, Proceeds

(* A process that is through, has failed or died.                          *)
LEMMA IntakeLeaving ==
  ASSUME FinishBase, NEW a \in Author, Done(a)
  PROVE Proceeds(a, "free", Free)
  BY Moving, FreeHand DEF Done, Steps
-----------------------------------------------------------------------------
\* What reading the directory goes by.
SamePapers == text' = text /\ \A k \in Place : Files(k)' = Files(k)

(* A rename loses no file: what had the name has a backup's.               *)
LEMMA Renaming ==
  ASSUME FinishBase, NEW a \in Author, Rename(a)
  PROVE /\ SamePapers
        /\ paper' \in [Place -> 0..MaxEditions] /\ backups' \in [Place -> SUBSET Dirs]
        /\ \/ Proceeds(a, "free", Free)
           \/ Proceeds(a, "open", hand[a]) /\ paper'[hand[a].k] = 0
  <1> DEFINE k == hand[a].k
  <1>k. k \in Place
    BY DEF FinishBase, Hands
  <1>t. paper \in [Place -> 0..MaxEditions] /\ backups \in [Place -> SUBSET Dirs]
    BY DEF FinishBase
  <1>1. CASE paper[k] = 0
    <2>1. paper' = paper /\ backups' = backups /\ text' = text /\ Done(a)
      BY <1>1 DEF Rename, Nth
    <2> QED
      BY <1>t, <2>1, IntakeLeaving DEF SamePapers, Files
  <1>2. CASE paper[k] # 0
    <2>1. /\ backups' = [backups EXCEPT ![k] = backups[k] \cup {paper[k]}]
          /\ paper' = [paper EXCEPT ![k] = 0] /\ text' = text
          /\ Turn(a, "open") /\ hand' = hand
      BY <1>2 DEF Rename, Nth, Kept
    <2>2. paper[k] \in Dirs
      BY <1>2, <1>k, <1>t DEF Dirs
    <2>3. paper' \in [Place -> 0..MaxEditions] /\ backups' \in [Place -> SUBSET Dirs]
      BY <2>1, <2>2, <1>k, <1>t
    <2>4. paper'[k] = 0 /\ backups'[k] = backups[k] \cup {paper[k]}
      BY <2>1, <1>k, <1>t
    <2>5. \A j \in Place : j # k => paper'[j] = paper[j] /\ backups'[j] = backups[j]
      BY <2>1, <1>t
    <2>6. \A j \in Place : Files(j)' = Files(j)
      BY <2>4, <2>5, <1>2 DEF Files
    <2>7. Proceeds(a, "open", hand[a])
      BY <2>1, Staying DEF Steps
    <2> QED
      BY <2>1, <2>3, <2>4, <2>6, <2>7 DEF SamePapers
  <1> QED
    BY <1>1, <1>2

(* An open empties one file and touches no other.                          *)
LEMMA Opening ==
  ASSUME FinishBase, NEW a \in Author, OpenPaper(a)
  PROVE \E k \in Place, i \in Dirs, h \in Hands :
          /\ k = hand[a].k /\ i <= editions /\ (paper[k] = 0 => i = hand[a].no)
          /\ paper' \in [Place -> 0..MaxEditions] /\ paper'[k] = i /\ backups' = backups
          /\ Files(k)' = Files(k) \cup {i}
          /\ \A j \in Place : j # k => Files(j)' = Files(j)
          /\ text' \in [Place -> [Dirs -> Cells]] /\ text'[k][i] = Torn(hand[a].no)
          /\ \A j \in Place, e \in Dirs : j # k \/ e # i => text'[j][e] = text[j][e]
          /\ h.k = k /\ h.no = hand[a].no /\ h.file = i /\ Proceeds(a, "fill", h)
  <1>p. PICK k \in Place : k = hand[a].k
    BY DEF FinishBase, Hands
  <1> DEFINE i == IF paper[k] = 0 THEN hand[a].no ELSE paper[k]
             h == [hand[a] EXCEPT !.file = i]
  <1>k. k \in Place /\ hand[a] \in Hands
    BY DEF FinishBase, Hands
  <1>t. /\ paper \in [Place -> 0..MaxEditions] /\ backups \in [Place -> SUBSET Dirs]
        /\ text \in [Place -> [Dirs -> Cells]] /\ editions \in 0..MaxEditions
    BY DEF FinishBase
  <1>n. hand[a].no \in 1..editions
    BY DEF FinishBase, Holds, OpenPaper
  <1>1. i \in Dirs /\ i <= editions /\ (paper[k] = 0 => i = hand[a].no)
    <2>1. CASE paper[k] = 0
      BY <2>1, <1>n, <1>t DEF Dirs
    <2>2. CASE paper[k] # 0
      <3>1. paper[k] \in Files(k)
        BY <2>2 DEF Files
      <3>2. paper[k] <= editions
        BY <3>1, <1>k DEF FinishBase
      <3> QED
        BY <2>2, <3>2, <1>k, <1>t DEF Dirs
    <2> QED
      BY <2>1, <2>2
  <1>2. /\ paper' = [paper EXCEPT ![k] = i] /\ backups' = backups
        /\ text' = [text EXCEPT ![k][i] = Torn(hand[a].no)]
        /\ Turn(a, "fill") /\ Hold(a, h)
    BY <1>p DEF OpenPaper, Nth, Torn
  <1>h. h \in Hands /\ h.k = k /\ h.no = hand[a].no /\ h.file = i
    BY <1>1, <1>k, <1>p, OpeningHand
  <1> HIDE DEF i, h
  <1>3. paper' \in [Place -> 0..MaxEditions] /\ paper'[k] = i /\ \A j \in Place : j # k => paper'[j] = paper[j]
    BY <1>1, <1>2, <1>k, <1>t DEF Dirs
  <1>4. Files(k)' = Files(k) \cup {i}
    <2>1. i # 0 /\ (paper[k] = 0 \/ paper[k] = i)
      BY <1>1 DEF Dirs, i
    <2> QED
      BY <2>1, <1>2, <1>3 DEF Files
  <1>5. \A j \in Place : j # k => Files(j)' = Files(j)
    BY <1>2, <1>3 DEF Files
  <1>6. Torn(hand[a].no) \in Cells
    <2>1. hand[a].no \in 0..MaxEditions
      BY <1>n, <1>t
    <2> QED
      BY <2>1, Cell
  <1>7. /\ text' \in [Place -> [Dirs -> Cells]] /\ text'[k][i] = Torn(hand[a].no)
        /\ \A j \in Place, e \in Dirs : j # k \/ e # i => text'[j][e] = text[j][e]
    BY <1>1, <1>2, <1>6, <1>k, <1>t
  <1>8. Proceeds(a, "fill", h)
    BY <1>2, <1>h, Moving DEF Steps
  <1> QED
    BY <1>p, <1>1, <1>2, <1>3, <1>4, <1>5, <1>7, <1>8, <1>h

(* A write completes the file that was opened, whatever it is called by now. *)
LEMMA Filling ==
  ASSUME FinishBase, NEW a \in Author, FillPaper(a)
  PROVE LET k == hand[a].k  i == hand[a].file IN
        /\ paper' = paper /\ backups' = backups /\ (\A j \in Place : Files(j)' = Files(j))
        /\ text' \in [Place -> [Dirs -> Cells]] /\ text'[k][i] = Whole(hand[a].no)
        /\ \A j \in Place, e \in Dirs : j # k \/ e # i => text'[j][e] = text[j][e]
        /\ \/ k = Last /\ Proceeds(a, "free", Free)
           \/ k # Last /\ \E h \in Hands : h.k = k + 1 /\ h.no = hand[a].no /\ Proceeds(a, "look", h)
  <1> DEFINE k == hand[a].k
             i == hand[a].file
             h == [hand[a] EXCEPT !.k = k + 1]
  <1>k. k \in Place /\ hand[a] \in Hands
    BY DEF FinishBase, Hands
  <1>t. text \in [Place -> [Dirs -> Cells]] /\ editions \in 0..MaxEditions
    BY DEF FinishBase
  <1>n. hand[a].no \in 1..editions /\ i \in Dirs
    BY DEF FinishBase, Holds, FillPaper
  <1>1. /\ text' = [text EXCEPT ![k][i] = Whole(hand[a].no)] /\ paper' = paper /\ backups' = backups
        /\ \/ k = Last /\ Done(a)
           \/ k # Last /\ Turn(a, "look") /\ Hold(a, h)
    BY DEF FillPaper, Nth, Whole
  <1>2. Whole(hand[a].no) \in Cells
    <2>1. hand[a].no \in 0..MaxEditions
      BY <1>n, <1>t
    <2> QED
      BY <2>1, Cell
  <1>3. /\ text' \in [Place -> [Dirs -> Cells]] /\ text'[k][i] = Whole(hand[a].no)
        /\ \A j \in Place, e \in Dirs : j # k \/ e # i => text'[j][e] = text[j][e]
    BY <1>1, <1>2, <1>k, <1>n, <1>t
  <1>4. \A j \in Place : Files(j)' = Files(j)
    BY <1>1 DEF Files
  <1>5. CASE k = Last
    BY <1>1, <1>3, <1>4, <1>5, IntakeLeaving
  <1>6. CASE k # Last
    <2>1. h \in Hands /\ h.k = k + 1 /\ h.no = hand[a].no
      BY <1>6, <1>k, NextHand
    <2>2. Proceeds(a, "look", h)
      BY <1>1, <1>6, <2>1, Moving DEF Steps
    <2> QED
      BY <1>1, <1>3, <1>4, <1>6, <2>1, <2>2
  <1> QED
    BY <1>5, <1>6
-----------------------------------------------------------------------------
(* The manifest is written, the rest of the record stays.                  *)
LEMMA Recorded ==
  ASSUME NEW s \in Shelves, NEW w \in Nat
  PROVE LET g == [s EXCEPT !.manifest = w]
        IN g \in Shelves /\ g.manifest = w /\ (g.used <=> s.used) /\ g.files = s.files /\ (g.mixed <=> s.mixed)
  BY DEF Shelves

(* An archive gets a directory that nobody has made yet.                   *)
LEMMA Archiving ==
  ASSUME FinishBase, NEW a \in Author, Archive(a)
  PROVE /\ \E d \in Dirs, h \in Hands : ~shelf[d].used /\ h.dir = d /\ Proceeds(a, "mkdir", h)
        /\ editions' = editions + 1 /\ editions' \in 0..MaxEditions
        /\ UNCHANGED <<verdict, paper, text, backups, overlap, work, shelf, crashes>>
  <1>1. PICK d \in FreeDir : Hold(a, [Free EXCEPT !.saw = work, !.dir = d])
    BY DEF Archive
  <1>2. d \in Dirs /\ ~shelf[d].used
    BY DEF FreeDir
  <1>w. work \in Nat
    BY DEF FinishBase
  <1>h. PICK h : h = [Free EXCEPT !.saw = work, !.dir = d]
    OBVIOUS
  <1>3. h \in Hands /\ h.dir = d
    <2>1. d \in 0..MaxEditions /\ Free \in Hands
      BY <1>2, FreeHand DEF Dirs
    <2> QED
      BY <1>w, <1>h, <2>1 DEF Hands
  <1>4. Proceeds(a, "mkdir", h)
    BY <1>1, <1>h, <1>3, Moving DEF Archive, Steps
  <1>5. editions' = editions + 1 /\ editions' \in 0..MaxEditions
    BY DEF Archive, FinishBase
  <1> QED
    BY <1>2, <1>3, <1>4, <1>5 DEF Archive

(* Files copied into a directory: their number, and who else is about it.  *)
LEMMA Shelving ==
  ASSUME FinishBase, NEW a \in Author, CopyFiles(a)
  PROVE \E d \in Dirs :
          /\ d = hand[a].dir /\ shelf' \in [Dirs -> Shelves]
          /\ \A e \in Dirs : e # d => shelf'[e] = shelf[e]
          /\ shelf'[d].used /\ shelf'[d].files = work /\ shelf'[d].manifest = shelf[d].manifest
          /\ shelf[d].mixed \/ work # hand[a].saw => shelf'[d].mixed
          /\ \A b \in Author : b # a /\ step[b] \in {"mkdir", "manifest"} /\ hand[b].dir = d => shelf'[d].mixed
          /\ Proceeds(a, "manifest", hand[a])
          /\ UNCHANGED <<verdict, hand, paper, text, backups, overlap, work, editions, crashes>>
  <1>1. PICK d \in Dirs : d = hand[a].dir
    BY DEF FinishBase, Holds, CopyFiles
  <1> DEFINE m == \/ shelf[hand[a].dir].mixed \/ work # hand[a].saw
                  \/ \E b \in Author \ {a} : step[b] \in {"mkdir", "manifest"} /\ hand[b].dir = hand[a].dir
  <1>2. shelf \in [Dirs -> Shelves] /\ work \in Nat
    BY DEF FinishBase
  <1>g. PICK g : g = [shelf[hand[a].dir] EXCEPT !.used = TRUE, !.files = work, !.mixed = m]
    OBVIOUS
  <1>3. shelf' = [shelf EXCEPT ![hand[a].dir] = g]
    BY <1>g, Zenon DEF CopyFiles
  <1>4. g \in Shelves /\ g.used /\ g.files = work /\ g.manifest = shelf[d].manifest /\ (g.mixed <=> m)
    <2>1. m \in BOOLEAN /\ shelf[d] \in Shelves
      BY <1>1, <1>2, Zenon DEF Shelves
    <2> HIDE DEF m
    <2> QED
      BY <1>1, <1>2, <1>g, <2>1 DEF Shelves
  <1>5. shelf' \in [Dirs -> Shelves] /\ shelf'[d] = g /\ \A e \in Dirs : e # d => shelf'[e] = shelf[e]
    <2> HIDE DEF m
    <2> QED
      BY <1>1, <1>2, <1>3, <1>g, <1>4
  <1>6. Proceeds(a, "manifest", hand[a])
    BY Staying DEF CopyFiles, Steps
  <1>7. UNCHANGED <<verdict, hand, paper, text, backups, overlap, work, editions, crashes>>
    BY DEF CopyFiles
  <1> QED
    BY <1>1, <1>4, <1>5, <1>6, <1>7

(* A manifest is written into the directory that was copied to.            *)
LEMMA Recording ==
  ASSUME FinishBase, NEW a \in Author, Manifest(a)
  PROVE \E d \in Dirs :
          /\ d = hand[a].dir /\ shelf' \in [Dirs -> Shelves]
          /\ \A e \in Dirs : e # d => shelf'[e] = shelf[e]
          /\ shelf'[d].manifest = hand[a].saw /\ (shelf'[d].used <=> shelf[d].used)
          /\ shelf'[d].files = shelf[d].files /\ (shelf'[d].mixed <=> shelf[d].mixed)
          /\ Proceeds(a, "free", Free)
          /\ UNCHANGED <<verdict, paper, text, backups, overlap, work, editions, crashes>>
  <1>1. PICK d \in Dirs : d = hand[a].dir
    BY DEF FinishBase, Holds, Manifest
  <1> DEFINE g == [shelf[d] EXCEPT !.manifest = hand[a].saw]
  <1>2. shelf \in [Dirs -> Shelves] /\ hand[a].saw \in Nat
    BY DEF FinishBase, Hands
  <1>3. shelf' = [shelf EXCEPT ![d] = g]
    BY <1>1 DEF Manifest
  <1>4. /\ g \in Shelves /\ g.manifest = hand[a].saw /\ (g.used <=> shelf[d].used)
        /\ g.files = shelf[d].files /\ (g.mixed <=> shelf[d].mixed)
    BY <1>2, Recorded
  <1> HIDE DEF g
  <1>5. shelf' \in [Dirs -> Shelves] /\ shelf'[d] = g /\ \A e \in Dirs : e # d => shelf'[e] = shelf[e]
    BY <1>2, <1>3, <1>4
  <1>6. Proceeds(a, "free", Free)
    BY IntakeLeaving DEF Manifest
  <1>7. UNCHANGED <<verdict, paper, text, backups, overlap, work, editions, crashes>>
    BY DEF Manifest
  <1> QED
    BY <1>1, <1>4, <1>5, <1>6, <1>7

(* A new edition: unless papers overlap, nobody else is writing any.       *)
LEMMA Beginning ==
  ASSUME FinishBase, NEW a \in Author, NEW who \in {"worker", "operator"}, Generate(a, who)
  PROVE /\ \E h \in Hands : h.k = 1 /\ h.no = editions + 1 /\ Proceeds(a, "look", h)
        /\ step[a] = "free" /\ verdict' \in {verdict, "solved"}
        /\ editions' = editions + 1 /\ editions' \in 0..MaxEditions
        /\ overlap' \in BOOLEAN /\ (~overlap' => ~overlap /\ \A b \in Author : ~Writing(b))
        /\ UNCHANGED <<paper, text, backups, work, shelf, crashes>>
  <1>1. editions' = editions + 1 /\ editions' \in 0..MaxEditions
    BY DEF Generate, FinishBase
  <1>h. PICK h : h = [Free EXCEPT !.who = who, !.no = editions + 1]
    OBVIOUS
  <1>2. h \in Hands /\ h.k = 1 /\ h.no = editions + 1
    <2>1. PICK n \in 0..MaxEditions : n = editions + 1
      BY <1>1
    <2>2. h = [Free EXCEPT !.who = who, !.no = n] /\ Free \in Hands /\ Free.k = 1
      BY <1>h, <2>1, FreeHand
    <2> QED
      BY <2>1, <2>2 DEF Hands
  <1>3. Proceeds(a, "look", h)
    BY <1>2, <1>h, Moving DEF Generate, Steps
  <1>4. overlap' \in BOOLEAN /\ (~overlap' => ~overlap /\ \A b \in Author : ~Writing(b))
    BY DEF Generate, FinishBase
  <1>5. /\ step[a] = "free" /\ verdict' \in {verdict, "solved"}
        /\ UNCHANGED <<paper, text, backups, work, shelf, crashes>>
    BY DEF Generate
  <1> QED
    BY <1>1, <1>2, <1>3, <1>4, <1>5
-----------------------------------------------------------------------------
(* Nothing happens to the papers.                                          *)
LEMMA Inert ==
  ASSUME FinishBase, paper' = paper, backups' = backups, text' = text
  PROVE /\ SamePapers
        /\ paper' \in [Place -> 0..MaxEditions] /\ backups' \in [Place -> SUBSET Dirs]
        /\ text' \in [Place -> [Dirs -> Cells]]
  BY DEF FinishBase, SamePapers, Files

(* The locals fit the places after a step of one process.                  *)
LEMMA Holding ==
  ASSUME FinishBase, NEW a \in Author, NEW l \in Steps, NEW h \in Hands, Proceeds(a, l, h),
         editions' \in 0..MaxEditions, editions <= editions', Holds(l, h, editions')
  PROVE step' \in [Author -> Steps] /\ hand' \in [Author -> Hands]
        /\ \A b \in Author : Holds(step[b], hand[b], editions)'
  <1>1. step' \in [Author -> Steps] /\ hand' \in [Author -> Hands]
    BY DEF Proceeds
  <1>2. Holds(step'[a], hand'[a], editions')
    BY DEF Proceeds
  <1>3. ASSUME NEW b \in Author, b # a
        PROVE Holds(step'[b], hand'[b], editions')
    <2>1. Holds(step[b], hand[b], editions) /\ hand[b] \in Hands /\ editions \in 0..MaxEditions
      BY DEF FinishBase
    <2>2. Holds(step[b], hand[b], editions')
      BY <2>1 DEF Holds, Hands
    <2> QED
      BY <1>3, <2>2 DEF Proceeds
  <1> QED
    BY <1>1, <1>2, <1>3

(* Every step keeps the types, the locals and the numbers of the files.    *)
LEMMA FinishBaseKept ==
  ASSUME FinishBase, [FinishNext]_finishVars
  PROVE FinishBase'
  <1> DEFINE Marked == /\ verdict' \in {"solving", "solved", "error"} /\ overlap' \in BOOLEAN
                       /\ work' \in Nat /\ editions' \in 0..MaxEditions /\ crashes' \in Nat
             Seated == /\ step' \in [Author -> Steps] /\ hand' \in [Author -> Hands]
                       /\ \A b \in Author : Holds(step[b], hand[b], editions)'
             Written == /\ paper' \in [Place -> 0..MaxEditions] /\ backups' \in [Place -> SUBSET Dirs]
                        /\ text' \in [Place -> [Dirs -> Cells]]
                        /\ \A k \in Place : \A i \in Files(k)' : i <= editions'
             Shelved == shelf' \in [Dirs -> Shelves]
  <1>t. /\ verdict \in {"solving", "solved", "error"} /\ overlap \in BOOLEAN
        /\ work \in Nat /\ editions \in 0..MaxEditions /\ crashes \in Nat
        /\ text \in [Place -> [Dirs -> Cells]] /\ shelf \in [Dirs -> Shelves]
    BY DEF FinishBase
  <1>h. ASSUME NEW a \in Author
        PROVE hand[a] \in Hands /\ step[a] \in Steps /\ Holds(step[a], hand[a], editions)
    BY DEF FinishBase
  <1>f. ASSUME NEW l \in Steps, l = "free", NEW n
        PROVE Holds(l, Free, n)
    BY <1>f DEF Holds
  <1>n. ASSUME \A k \in Place : Files(k)' = Files(k), editions <= editions', editions' \in 0..MaxEditions
        PROVE \A k \in Place : \A i \in Files(k)' : i <= editions'
    <2>1. \A k \in Place : \A i \in Files(k) : i <= editions /\ i \in Dirs
      BY DEF FinishBase, Files, Dirs
    <2> QED
      BY <1>n, <1>t, <2>1 DEF Dirs
  <1>s. ASSUME UNCHANGED <<paper, text, backups>>, editions <= editions', editions' \in 0..MaxEditions
        PROVE Written
    BY <1>s, <1>n, Inert DEF SamePapers
  <1>e. editions <= editions
    BY <1>t
  <1>1. CASE UNCHANGED finishVars
    BY <1>1 DEF FinishBase, finishVars, Files, Holds
  <1>2. CASE Change \/ Requeue
    <2>1. Marked /\ Shelved
      BY <1>2, <1>t DEF Change, Requeue
    <2>2. Written
      BY <1>2, <1>s, <1>t, <1>e DEF Change, Requeue
    <2>3. Seated
      BY <1>2 DEF Change, Requeue, FinishBase, Holds
    <2> QED
      BY <2>1, <2>2, <2>3 DEF FinishBase
  <1>3. ASSUME NEW a \in Author, NEW who \in {"worker", "operator"}, Generate(a, who)
        PROVE FinishBase'
    <2>1. PICK h \in Hands : h.k = 1 /\ h.no = editions + 1 /\ Proceeds(a, "look", h)
      BY <1>3, Beginning
    <2>2. Marked /\ editions' = editions + 1
      BY <1>3, <1>t, Beginning
    <2>3. Written /\ Shelved
      BY <1>3, <1>s, <1>t, <2>2, Beginning
    <2>4. Holds("look", h, editions')
      BY <1>t, <2>1, <2>2 DEF Holds
    <2>5. Seated
      BY <1>t, <2>1, <2>2, <2>4, Holding DEF Steps
    <2> QED
      BY <2>2, <2>3, <2>5 DEF FinishBase
  <1>4. ASSUME NEW a \in Author, Look(a)
        PROVE FinishBase'
    <2>1. PICK l \in {"open", "rename"} : Turn(a, l)
      BY <1>4 DEF Look
    <2>2. Proceeds(a, l, hand[a])
      BY <1>4, <2>1, Staying DEF Look, Steps
    <2>3. Marked /\ Shelved
      BY <1>4, <1>t DEF Look
    <2>4. Written
      BY <1>4, <1>s, <1>t, <1>e DEF Look
    <2>5. Holds(l, hand[a], editions')
      BY <1>4, <1>h, <2>1 DEF Holds, Look
    <2>6. Seated
      BY <1>4, <1>t, <1>e, <1>h, <2>1, <2>2, <2>5, Holding DEF Steps, Look
    <2> QED
      BY <2>3, <2>4, <2>6 DEF FinishBase
  <1>5. ASSUME NEW a \in Author, Rename(a)
        PROVE FinishBase'
    <2>1. Marked /\ Shelved /\ editions' = editions
      BY <1>5, <1>t DEF Rename
    <2>2. Written
      BY <1>5, <1>n, <1>t, <1>e, <2>1, Renaming DEF SamePapers
    <2>3. Holds("open", hand[a], editions)
      BY <1>5, <1>h DEF Holds, Rename
    <2>4. Seated
      BY <1>5, <1>f, <1>h, <1>t, <1>e, <2>1, <2>3, FreeHand, Renaming, Holding DEF Steps
    <2> QED
      BY <2>1, <2>2, <2>4 DEF FinishBase
  <1>6. ASSUME NEW a \in Author, OpenPaper(a)
        PROVE FinishBase'
    <2>1. Marked /\ Shelved /\ editions' = editions
      BY <1>6, <1>t DEF OpenPaper
    <2>2. PICK k \in Place, i \in Dirs, h \in Hands :
            /\ k = hand[a].k /\ i <= editions
            /\ paper' \in [Place -> 0..MaxEditions] /\ backups' = backups
            /\ Files(k)' = Files(k) \cup {i}
            /\ \A j \in Place : j # k => Files(j)' = Files(j)
            /\ text' \in [Place -> [Dirs -> Cells]]
            /\ h.no = hand[a].no /\ h.file = i /\ Proceeds(a, "fill", h)
      BY <1>6, Opening
    <2>3. \A j \in Place : \A e \in Files(j)' : e <= editions'
      BY <2>1, <2>2 DEF FinishBase
    <2>4. Written
      BY <2>2, <2>3 DEF FinishBase
    <2>5. Holds("fill", h, editions')
      BY <1>6, <1>h, <2>1, <2>2 DEF Holds, OpenPaper
    <2>6. Seated
      BY <1>t, <1>e, <2>1, <2>2, <2>5, Holding DEF Steps
    <2> QED
      BY <2>1, <2>4, <2>6 DEF FinishBase
  <1>7. ASSUME NEW a \in Author, FillPaper(a)
        PROVE FinishBase'
    <2>1. Marked /\ Shelved /\ editions' = editions
      BY <1>7, <1>t DEF FillPaper
    <2>2. Written
      <3>1. /\ paper' = paper /\ backups' = backups /\ (\A j \in Place : Files(j)' = Files(j))
            /\ text' \in [Place -> [Dirs -> Cells]]
        BY <1>7, Filling
      <3> QED
        BY <1>n, <1>t, <1>e, <2>1, <3>1, Inert DEF FinishBase
    <2>3. Seated
      <3>1. CASE Proceeds(a, "free", Free)
        BY <1>f, <1>t, <1>e, <2>1, <3>1, FreeHand, Holding DEF Steps
      <3>2. ASSUME NEW h \in Hands, h.no = hand[a].no, Proceeds(a, "look", h)
            PROVE Seated
        <4>1. Holds("look", h, editions')
          BY <1>7, <1>h, <2>1, <3>2 DEF Holds, FillPaper
        <4> QED
          BY <1>t, <1>e, <2>1, <3>2, <4>1, Holding DEF Steps
      <3> QED
        BY <1>7, <3>1, <3>2, Filling
    <2> QED
      BY <2>1, <2>2, <2>3 DEF FinishBase
  <1>8. ASSUME NEW a \in Author, Archive(a)
        PROVE FinishBase'
    <2>1. PICK d \in Dirs, h \in Hands : h.dir = d /\ Proceeds(a, "mkdir", h)
      BY <1>8, Archiving
    <2>2. Marked /\ Shelved /\ editions' = editions + 1
      BY <1>8, <1>t, Archiving
    <2>3. Written
      BY <1>8, <1>s, <1>t, <2>2, Archiving
    <2>4. Holds("mkdir", h, editions')
      BY <2>1 DEF Holds
    <2>5. Seated
      BY <1>t, <2>1, <2>2, <2>4, Holding DEF Steps
    <2> QED
      BY <2>2, <2>3, <2>5 DEF FinishBase
  <1>9. ASSUME NEW a \in Author, CopyFiles(a)
        PROVE FinishBase'
    <2>1. /\ shelf' \in [Dirs -> Shelves] /\ Proceeds(a, "manifest", hand[a])
          /\ UNCHANGED <<verdict, hand, paper, text, backups, overlap, work, editions, crashes>>
      BY <1>9, Shelving
    <2>2. Marked /\ Shelved
      BY <1>t, <2>1
    <2>3. Written
      BY <1>s, <1>t, <1>e, <2>1
    <2>4. Holds("manifest", hand[a], editions)
      BY <1>9, <1>h DEF Holds, CopyFiles
    <2>5. Seated
      BY <1>h, <1>t, <1>e, <2>1, <2>4, Holding DEF Steps
    <2> QED
      BY <2>2, <2>3, <2>5 DEF FinishBase
  <1>10. ASSUME NEW a \in Author, Manifest(a)
        PROVE FinishBase'
    <2>1. /\ shelf' \in [Dirs -> Shelves] /\ Proceeds(a, "free", Free)
          /\ UNCHANGED <<verdict, paper, text, backups, overlap, work, editions, crashes>>
      BY <1>10, Recording
    <2>2. Marked /\ Shelved
      BY <1>t, <2>1
    <2>3. Written
      BY <1>s, <1>t, <1>e, <2>1
    <2>4. Seated
      BY <1>f, <1>t, <1>e, <2>1, FreeHand, Holding DEF Steps
    <2> QED
      BY <2>2, <2>3, <2>4 DEF FinishBase
  <1>11. ASSUME NEW a \in Author, Collapse(a)
        PROVE FinishBase'
    <2>1. Marked /\ Shelved /\ Proceeds(a, "free", Free)
      BY <1>11, <1>t, IntakeLeaving DEF Collapse
    <2>2. Written
      BY <1>11, <1>s, <1>t, <1>e DEF Collapse
    <2>3. Seated
      BY <1>11, <1>f, <1>t, <1>e, <2>1, FreeHand, Holding DEF Steps, Collapse
    <2> QED
      BY <2>1, <2>2, <2>3 DEF FinishBase
  <1> QED
    BY <1>1, <1>2, <1>3, <1>4, <1>5, <1>6, <1>7, <1>8, <1>9, <1>10, <1>11 DEF FinishNext
-----------------------------------------------------------------------------
\* Writing papers, and a step that no reader of them notices.
Pens == {"look", "rename", "open", "fill"}
SameText == \A k \in Place, n \in Dirs : Readable(k, n)' <=> Readable(k, n)

(* The same files with the same text read the same.                        *)
LEMMA Rereading ==
  ASSUME SamePapers
  PROVE SameText
  BY Reads DEF SamePapers, SameText

\* Where readers see no change, nothing is lost.
LEMMA SameEditions ==
  ASSUME EditionsKept, SameText, ~overlap' => ~overlap
  PROVE EditionsKept' /\ PapersLast
  BY Spans DEF EditionsKept, PapersLast, SameText

\* Processes other than a writer that is alone hold no paper.
LEMMA SoleWriter ==
  ASSUME FinishBase, Alone, Progress, overlap' = overlap,
         NEW a \in Author, NEW l \in Steps, NEW h \in Hands, Proceeds(a, l, h),
         l \in Pens => Writing(a),
         Writing(a) \/ UNCHANGED <<paper, backups, text>>,
         ~overlap /\ l \in Pens => Reached(l, h)'
  PROVE Alone' /\ Progress'
  <1>1. ASSUME NEW b \in Author
        PROVE Writing(b)' => Writing(b)
    BY DEF Writing, Proceeds, Pens
  <1>2. Alone'
    BY <1>1 DEF Alone
  <1>3. ASSUME NEW b \in Author, ~overlap, Writing(b)'
        PROVE Reached(step[b], hand[b])'
    <2>1. CASE b = a
      <3>1. l \in Pens /\ step'[b] = l /\ hand'[b] = h
        BY <1>3, <2>1 DEF Proceeds, Writing, Pens
      <3>2. Reached(l, h)'
        BY <1>3, <3>1
      <3> QED
        BY <2>1, <3>1, <3>2 DEF Reached, Readable, Files
    <2>2. CASE b # a
      <3>1. Writing(b) /\ step'[b] = step[b] /\ hand'[b] = hand[b]
        BY <1>1, <1>3, <2>2 DEF Proceeds
      <3>2. UNCHANGED <<paper, backups, text>>
        BY <1>3, <2>2, <3>1 DEF Alone
      <3>3. Reached(step[b], hand[b])
        BY <1>3, <3>1 DEF Progress
      <3>4. PICK m \in Steps, g \in Hands : m = step[b] /\ g = hand[b]
        BY DEF FinishBase
      <3>5. Reached(m, g)'
        BY <3>2, <3>3, <3>4 DEF Reached, Readable, Files
      <3> QED
        BY <3>1, <3>4, <3>5 DEF Reached, Readable, Files
    <2> QED
      BY <2>1, <2>2
  <1> QED
    BY <1>2, <1>3 DEF Progress

(* A writer that is alone leaves every edition readable, and its own from the *)
(* first paper to the one it has come to.                                  *)
LEMMA PapersKept ==
  ASSUME FinishBase, FinishBase', Alone, Progress, EditionsKept, [FinishNext]_finishVars
  PROVE (Alone /\ Progress /\ EditionsKept)' /\ PapersLast
  <1>h. ASSUME NEW a \in Author
        PROVE hand[a] \in Hands /\ step[a] \in Steps /\ hand[a].k \in Place
    BY DEF FinishBase, Hands
  <1>w. ASSUME NEW a \in Author, Writing(a)
        PROVE hand[a].no \in 1..editions /\ hand[a].no \in Dirs
    BY <1>w DEF FinishBase, Writing, Holds, Dirs
  <1>1. CASE UNCHANGED <<step, hand, paper, text, backups, overlap>>
    <2>1. Alone' /\ Progress'
      BY <1>1 DEF Alone, Progress, Writing, Reached, Readable, Files
    <2>2. SamePapers
      BY <1>1 DEF SamePapers, Files
    <2> QED
      BY <1>1, <2>1, <2>2, Rereading, SameEditions
  <1>2. ASSUME NEW a \in Author, NEW l \in Steps \ Pens, NEW h \in Hands, Proceeds(a, l, h),
               UNCHANGED <<paper, text, backups, overlap>>
        PROVE (Alone /\ Progress /\ EditionsKept)' /\ PapersLast
    <2>1. SamePapers
      BY <1>2 DEF SamePapers, Files
    <2> QED
      BY <1>2, <2>1, Rereading, SameEditions, SoleWriter
  <1>3. ASSUME NEW a \in Author, NEW who \in {"worker", "operator"}, Generate(a, who)
        PROVE (Alone /\ Progress /\ EditionsKept)' /\ PapersLast
    <2>1. PICK h \in Hands : h.k = 1 /\ h.no = editions + 1 /\ Proceeds(a, "look", h)
      BY <1>3, Beginning
    <2>2. /\ ~overlap' => ~overlap /\ \A b \in Author : ~Writing(b)
          /\ UNCHANGED <<paper, text, backups>>
      BY <1>3, Beginning
    <2>3. SamePapers
      BY <2>2 DEF SamePapers, Files
    <2>4. EditionsKept' /\ PapersLast
      BY <2>2, <2>3, Rereading, SameEditions
    <2>5. ASSUME NEW b \in Author, ~overlap', Writing(b)'
          PROVE b = a
      BY <2>1, <2>2, <2>5 DEF Proceeds, Writing
    <2>6. \A k \in Place : \A i \in Files(k)' : i < h.no
      <3>1. \A k \in Place : \A i \in Files(k) : i <= editions /\ i \in Dirs
        BY DEF FinishBase, Files, Dirs
      <3> QED
        BY <2>1, <2>3, <3>1 DEF SamePapers, FinishBase, Dirs
    <2>7. Reached("look", h)'
      BY <2>1, <2>6, Spans DEF Reached, Place
    <2>8. Progress'
      BY <2>1, <2>5, <2>7 DEF Progress, Proceeds
    <2> QED
      BY <2>4, <2>5, <2>8 DEF Alone
  <1>4. ASSUME NEW a \in Author, Look(a)
        PROVE (Alone /\ Progress /\ EditionsKept)' /\ PapersLast
    <2>1. PICK l \in {"open", "rename"} : Turn(a, l) /\ (l = "open" => paper[hand[a].k] = 0)
      BY <1>4 DEF Look, Nth
    <2>2. /\ Proceeds(a, l, hand[a]) /\ Writing(a) /\ step[a] = "look"
          /\ UNCHANGED <<paper, text, backups, overlap>>
      BY <1>4, <2>1, Staying DEF Look, Steps, Writing
    <2>3. SamePapers
      BY <2>2 DEF SamePapers, Files
    <2>4. PICK h \in Hands : h = hand[a]
      BY <1>h
    <2>5. ~overlap => Reached("look", h)
      BY <2>2, <2>4 DEF Progress
    <2>6. ~overlap => Reached(l, h)'
      BY <2>1, <2>2, <2>4, <2>5 DEF Reached, Readable, Files
    <2>7. Alone' /\ Progress'
      BY <2>1, <2>2, <2>4, <2>6, SoleWriter DEF Steps
    <2> QED
      BY <2>2, <2>3, <2>7, Rereading, SameEditions
  <1>5. ASSUME NEW a \in Author, Rename(a)
        PROVE (Alone /\ Progress /\ EditionsKept)' /\ PapersLast
    <2>1. SamePapers /\ Writing(a) /\ step[a] = "rename" /\ overlap' = overlap
      BY <1>5, Renaming DEF Rename, Writing
    <2>2. CASE Proceeds(a, "free", Free)
      <3>1. Alone' /\ Progress'
        BY <2>1, <2>2, FreeHand, SoleWriter DEF Steps, Pens
      <3> QED
        BY <2>1, <3>1, Rereading, SameEditions
    <2>3. CASE Proceeds(a, "open", hand[a]) /\ paper'[hand[a].k] = 0
      <3>1. PICK h \in Hands : h = hand[a] /\ h.k \in Place
        BY <1>h
      <3>2. ~overlap => Reached("rename", h)
        BY <2>1, <3>1 DEF Progress
      <3>3. \A n \in Dirs, k \in Place : Readable(k, n) => Readable(k, n)'
        BY <2>1, Rereading DEF SameText
      <3>4. h.no \in Dirs
        BY <1>w, <2>1, <3>1
      <3>5. ~overlap => Reached("open", h)'
        BY <2>1, <2>3, <3>1, <3>2, <3>3, <3>4 DEF Reached, SamePapers
      <3>6. Alone' /\ Progress'
        BY <2>1, <2>3, <3>1, <3>5, SoleWriter DEF Steps
      <3> QED
        BY <2>1, <3>6, Rereading, SameEditions
    <2> QED
      BY <1>5, <2>2, <2>3, Renaming
  <1>6. ASSUME NEW a \in Author, OpenPaper(a)
        PROVE (Alone /\ Progress /\ EditionsKept)' /\ PapersLast
    <2>1. Writing(a) /\ step[a] = "open" /\ overlap' = overlap
      BY <1>6 DEF OpenPaper, Writing
    <2>2. PICK k \in Place, i \in Dirs, h \in Hands :
            /\ k = hand[a].k /\ (paper[k] = 0 => i = hand[a].no) /\ paper'[k] = i
            /\ Files(k)' = Files(k) \cup {i}
            /\ \A j \in Place : j # k => Files(j)' = Files(j)
            /\ text'[k][i] = Torn(hand[a].no)
            /\ \A j \in Place, e \in Dirs : j # k \/ e # i => text'[j][e] = text[j][e]
            /\ h.k = k /\ h.no = hand[a].no /\ h.file = i /\ Proceeds(a, "fill", h)
      BY <1>6, Opening
    <2>n. h.no \in Dirs /\ hand[a].no = h.no
      BY <1>w, <2>1, <2>2
    <2>f. \A j \in Place : \A e \in Files(j) : e \in Dirs
      BY DEF FinishBase, Files, Dirs
    <2>3. ASSUME ~overlap
          PROVE /\ SameText
                /\ Reached("fill", h)'
      <3>1. PICK g \in Hands : g = hand[a] /\ g.k = k /\ g.no = h.no
        BY <1>h, <2>2
      <3>2. Reached("open", g)
        BY <2>1, <2>3, <3>1 DEF Progress
      <3>3. i = h.no /\ \A e \in Files(k) : e < i
        BY <2>2, <3>1, <3>2 DEF Reached
      <3>4. ASSUME NEW j \in Place, NEW n \in Dirs
            PROVE Readable(j, n)' <=> Readable(j, n)
        <4>1. CASE j # k
          BY <2>2, <2>f, <4>1, Reads
        <4>2. CASE j = k
          <5>1. \A e \in Files(k) : e # i /\ text'[k][e] = text[k][e]
            BY <2>2, <2>f, <3>3 DEF Dirs
          <5>2. text'[k][i] # Whole(n)
            BY <2>2, <2>n, Cell DEF Dirs
          <5> QED
            BY <2>2, <4>2, <5>1, <5>2, Reads
        <4> QED
          BY <4>1, <4>2
      <3>5. \A j \in Place : j < h.k => Readable(j, h.no)'
        BY <2>n, <2>2, <3>1, <3>2, <3>4 DEF Reached
      <3>6. \A j \in Place : j > h.k => \A e \in Files(j)' : e < h.no
        BY <2>2, <3>1, <3>2 DEF Reached, Place
      <3> QED
        BY <2>2, <2>n, <3>3, <3>4, <3>5, <3>6 DEF Reached, SameText
    <2>4. Alone' /\ Progress'
      BY <2>1, <2>2, <2>3, SoleWriter DEF Steps
    <2>5. CASE ~overlap
      BY <2>1, <2>3, <2>4, <2>5, SameEditions
    <2>6. CASE overlap
      BY <2>1, <2>4, <2>6 DEF EditionsKept, PapersLast
    <2> QED
      BY <2>5, <2>6
  <1>7. ASSUME NEW a \in Author, FillPaper(a)
        PROVE (Alone /\ Progress /\ EditionsKept)' /\ PapersLast
    <2>1. Writing(a) /\ step[a] = "fill" /\ overlap' = overlap
      BY <1>7 DEF FillPaper, Writing
    <2>2. PICK k \in Place, i \in Dirs, no \in Dirs :
            /\ k = hand[a].k /\ i = hand[a].file /\ no = hand[a].no
            /\ \A j \in Place : Files(j)' = Files(j)
            /\ text'[k][i] = Whole(no)
            /\ \A j \in Place, e \in Dirs : j # k \/ e # i => text'[j][e] = text[j][e]
            /\ \/ k = Last /\ Proceeds(a, "free", Free)
               \/ k # Last /\ \E h \in Hands : h.k = k + 1 /\ h.no = no /\ Proceeds(a, "look", h)
      <3>1. hand[a].k \in Place /\ hand[a].file \in Dirs /\ hand[a].no \in Dirs
        BY <1>h, <1>w, <2>1 DEF FinishBase, Holds
      <3> QED
        BY <1>7, <3>1, Filling
    <2>f. \A j \in Place : \A e \in Files(j) : e \in Dirs
      BY DEF FinishBase, Files, Dirs
    <2>3. ASSUME ~overlap
          PROVE /\ \A j \in Place, n \in Dirs : Readable(j, n)' <=> Readable(j, n) \/ (j = k /\ n = no)
                /\ \A j \in Place : j < k => Readable(j, no)
                /\ \A j \in Place : j > k => \A e \in Files(j)' : e < no
      <3>1. PICK g \in Hands : g = hand[a] /\ g.k = k /\ g.no = no /\ g.file = i
        BY <1>h, <2>2
      <3>2. Reached("fill", g)
        BY <2>1, <2>3, <3>1 DEF Progress
      <3>3. i = no /\ i \in Files(k) /\ text[k][i] = Torn(no)
        BY <2>2, <3>1, <3>2 DEF Reached, Files, Dirs
      <3>4. ASSUME NEW j \in Place, NEW n \in Dirs
            PROVE Readable(j, n)' <=> Readable(j, n) \/ (j = k /\ n = no)
        <4>1. CASE j # k
          BY <2>2, <2>f, <4>1, Reads
        <4>2. CASE j = k
          <5>1. text[k][i] # Whole(n) /\ (text'[k][i] = Whole(n) <=> n = no)
            BY <2>2, <3>3, Cell DEF Dirs
          <5>2. \A e \in Files(k) : e # i => text'[k][e] = text[k][e]
            BY <2>2, <2>f
          <5> QED
            BY <2>2, <3>3, <4>2, <5>1, <5>2, Reads
        <4> QED
          BY <4>1, <4>2
      <3> QED
        BY <2>2, <3>1, <3>2, <3>4 DEF Reached
    <2>4. CASE overlap
      <3>1. EditionsKept' /\ PapersLast
        BY <2>1, <2>4 DEF EditionsKept, PapersLast
      <3>2. CASE Proceeds(a, "free", Free)
        BY <2>1, <2>4, <3>1, <3>2, FreeHand, SoleWriter DEF Steps, Pens
      <3>3. ASSUME NEW h \in Hands, Proceeds(a, "look", h)
            PROVE Alone' /\ Progress'
        BY <2>1, <2>4, <3>3, SoleWriter DEF Steps
      <3> QED
        BY <2>2, <3>1, <3>2, <3>3
    <2>5. CASE ~overlap
      <3>1. PapersLast
        BY <2>3, <2>5 DEF PapersLast
      <3>2. CASE k = Last /\ Proceeds(a, "free", Free)
        <4>1. Alone' /\ Progress'
          BY <2>1, <3>2, FreeHand, SoleWriter DEF Steps, Pens
        <4>2. ASSUME NEW n \in Dirs, Readable(Last, n)', NEW j \in Place
              PROVE Readable(j, n)'
          <5>1. CASE n = no
            BY <2>2, <2>3, <2>5, <3>2, <4>2, <5>1, Spans DEF Place
          <5>2. CASE n # no
            BY <2>3, <2>5, <4>2, <5>2, Spans DEF EditionsKept
          <5> QED
            BY <5>1, <5>2
        <4> QED
          BY <3>1, <4>1, <4>2 DEF EditionsKept
      <3>3. ASSUME k # Last, NEW h \in Hands, h.k = k + 1, h.no = no, Proceeds(a, "look", h)
            PROVE (Alone /\ Progress /\ EditionsKept)'
        <4>1. \A j \in Place : j < h.k => Readable(j, h.no)'
          BY <2>2, <2>3, <2>5, <3>3 DEF Place
        <4>2. \A j \in Place : j >= h.k => \A e \in Files(j)' : e < h.no
          BY <2>2, <2>3, <2>5, <3>3 DEF Place
        <4>3. h.k \in Place
          BY <3>3 DEF Hands
        <4>4. Reached("look", h)'
          BY <4>1, <4>2, <4>3 DEF Reached, Place
        <4>5. Alone' /\ Progress'
          BY <2>1, <3>3, <4>4, SoleWriter DEF Steps
        <4>6. EditionsKept'
          BY <2>1, <2>3, <2>5, <3>3, Spans DEF EditionsKept
        <4> QED
          BY <4>5, <4>6
      <3> QED
        BY <2>2, <3>1, <3>2, <3>3
    <2> QED
      BY <2>4, <2>5
  <1>8. ASSUME NEW a \in Author, Archive(a) \/ CopyFiles(a) \/ Manifest(a) \/ Collapse(a)
        PROVE (Alone /\ Progress /\ EditionsKept)' /\ PapersLast
    <2>1. UNCHANGED <<paper, text, backups, overlap>>
      BY <1>8 DEF Archive, CopyFiles, Manifest, Collapse
    <2>2. CASE Archive(a)
      BY <1>2, <2>1, <2>2, Archiving DEF Steps, Pens
    <2>3. CASE CopyFiles(a)
      BY <1>2, <1>h, <2>1, <2>3, Shelving DEF Steps, Pens
    <2>4. CASE Manifest(a) \/ Collapse(a)
      <3>1. Proceeds(a, "free", Free)
        BY <2>4, IntakeLeaving DEF Manifest, Collapse
      <3> QED
        BY <1>2, <2>1, <3>1, FreeHand DEF Steps, Pens
    <2> QED
      BY <1>8, <2>2, <2>3, <2>4
  <1>9. CASE UNCHANGED finishVars \/ Change \/ Requeue
    BY <1>1, <1>9 DEF finishVars, Change, Requeue
  <1> QED
    BY <1>3, <1>4, <1>5, <1>6, <1>7, <1>8, <1>9 DEF FinishNext
-----------------------------------------------------------------------------
(* A step of a process that is not at an archive.                          *)
LEMMA NoArchiver ==
  ASSUME Filing, ArchiveTrue, shelf' = shelf,
         NEW a \in Author, NEW l, l \notin {"mkdir", "manifest"}, NEW h, Proceeds(a, l, h)
  PROVE (Filing /\ ArchiveTrue)'
  <1>1. ASSUME NEW b \in Author, step'[b] \in {"mkdir", "manifest"}
        PROVE step'[b] = step[b] /\ hand'[b] = hand[b]
    BY <1>1 DEF Proceeds
  <1> QED
    BY <1>1 DEF Filing, ArchiveTrue

(* A directory that two archivers share is marked as mixed before the second *)
(* one copies into it, so what is not mixed is what one of them saw.       *)
LEMMA FilingKept ==
  ASSUME FinishBase, Filing, ArchiveTrue, [FinishNext]_finishVars
  PROVE (Filing /\ ArchiveTrue)'
  <1>t. shelf \in [Dirs -> Shelves]
    BY DEF FinishBase
  <1>1. CASE UNCHANGED finishVars \/ Change \/ Requeue
    BY <1>1 DEF finishVars, Change, Requeue, Filing, ArchiveTrue
  <1>2. ASSUME NEW a \in Author, NEW who \in {"worker", "operator"}, Generate(a, who)
        PROVE (Filing /\ ArchiveTrue)'
    BY <1>2, Beginning, NoArchiver
  <1>3. ASSUME NEW a \in Author, Look(a) \/ Rename(a) \/ OpenPaper(a) \/ FillPaper(a) \/ Collapse(a)
        PROVE (Filing /\ ArchiveTrue)'
    <2>1. shelf' = shelf
      BY <1>3 DEF Look, Rename, OpenPaper, FillPaper, Collapse
    <2>2. \E l \in {"free", "look", "rename", "open", "fill"}, h \in Hands : Proceeds(a, l, h)
      <3>1. CASE Look(a)
        <4>1. PICK l \in {"open", "rename"} : Turn(a, l) /\ hand' = hand
          BY <3>1 DEF Look
        <4> QED
          BY <4>1, Staying DEF Steps, FinishBase
      <3>2. CASE Rename(a)
        BY <3>2, FreeHand, Renaming DEF FinishBase
      <3>3. CASE OpenPaper(a)
        BY <3>3, Opening
      <3>4. CASE FillPaper(a)
        BY <3>4, FreeHand, Filling
      <3>5. CASE Collapse(a)
        BY <3>5, FreeHand, IntakeLeaving DEF Collapse
      <3> QED
        BY <1>3, <3>1, <3>2, <3>3, <3>4, <3>5
    <2>3. PICK l \in {"free", "look", "rename", "open", "fill"}, h \in Hands : Proceeds(a, l, h)
      BY <2>2
    <2> QED
      BY <2>1, <2>3, NoArchiver
  <1>4. ASSUME NEW a \in Author, Archive(a)
        PROVE (Filing /\ ArchiveTrue)'
    <2>1. PICK d \in Dirs, h \in Hands : ~shelf[d].used /\ h.dir = d /\ Proceeds(a, "mkdir", h)
      BY <1>4, Archiving
    <2>2. shelf' = shelf
      BY <1>4, Archiving
    <2>3. ASSUME NEW b \in Author, b # a
          PROVE step'[b] = step[b] /\ hand'[b] = hand[b]
      BY <2>1, <2>3 DEF Proceeds
    <2>4. step'[a] = "mkdir" /\ hand'[a].dir = d
      BY <2>1 DEF Proceeds
    <2> QED
      BY <2>1, <2>2, <2>3, <2>4 DEF Filing, ArchiveTrue
  <1>5. ASSUME NEW a \in Author, CopyFiles(a)
        PROVE (Filing /\ ArchiveTrue)'
    <2>1. PICK d \in Dirs :
            /\ d = hand[a].dir
            /\ \A e \in Dirs : e # d => shelf'[e] = shelf[e]
            /\ shelf'[d].used /\ shelf'[d].files = work /\ shelf'[d].manifest = shelf[d].manifest
            /\ shelf[d].mixed \/ work # hand[a].saw => shelf'[d].mixed
            /\ \A b \in Author : b # a /\ step[b] \in {"mkdir", "manifest"} /\ hand[b].dir = d => shelf'[d].mixed
            /\ Proceeds(a, "manifest", hand[a]) /\ hand' = hand
      BY <1>5, Shelving
    <2>2. \A b \in Author : b # a => step'[b] = step[b]
      BY <2>1 DEF Proceeds
    <2>3. step[a] = "mkdir" /\ step'[a] = "manifest"
      BY <1>5, <2>1 DEF CopyFiles, Proceeds
    <2>4. shelf[d].used => shelf[d].mixed
      BY <2>1, <2>3 DEF Filing
    <2>5. \A e \in Dirs : ~shelf'[e].used => shelf'[e].manifest = 0
      BY <2>1 DEF Filing
    <2>d. \A b \in Author : step[b] \in {"mkdir", "manifest"} => hand[b].dir \in Dirs
      BY DEF FinishBase, Holds
    <2>6. ASSUME NEW b \in Author, step'[b] = "mkdir", shelf'[hand[b].dir].used
          PROVE shelf'[hand[b].dir].mixed
      <3>1. b # a /\ step[b] = "mkdir" /\ hand[b].dir \in Dirs
        BY <2>2, <2>3, <2>6, <2>d
      <3>2. CASE hand[b].dir = d
        BY <2>1, <3>1, <3>2
      <3>3. CASE hand[b].dir # d
        BY <2>1, <2>6, <3>1, <3>3 DEF Filing
      <3> QED
        BY <3>2, <3>3
    <2>7. ASSUME NEW b \in Author, step'[b] = "manifest"
          PROVE /\ shelf'[hand[b].dir].used
                /\ ~shelf'[hand[b].dir].mixed => shelf'[hand[b].dir].files = hand[b].saw
      <3>1. CASE b = a
        BY <2>1, <3>1
      <3>2. CASE b # a
        <4>1. step[b] = "manifest" /\ hand[b].dir \in Dirs
          BY <2>2, <2>7, <2>d, <3>2
        <4>2. CASE hand[b].dir = d
          BY <2>1, <3>2, <4>1, <4>2
        <4>3. CASE hand[b].dir # d
          BY <2>1, <4>1, <4>3 DEF Filing
        <4> QED
          BY <4>2, <4>3
      <3> QED
        BY <3>1, <3>2
    <2>8. ArchiveTrue'
      <3>1. ASSUME NEW e \in Dirs, shelf'[e].manifest # 0, ~shelf'[e].mixed
            PROVE shelf'[e].files = shelf'[e].manifest
        <4>1. e # d
          BY <2>1, <2>4, <3>1 DEF Filing
        <4> QED
          BY <2>1, <3>1, <4>1 DEF ArchiveTrue
      <3> QED
        BY <3>1 DEF ArchiveTrue
    <2>9. hand' = hand
      BY <2>1
    <2> QED
      BY <2>5, <2>6, <2>7, <2>8, <2>9 DEF Filing
  <1>6. ASSUME NEW a \in Author, Manifest(a)
        PROVE (Filing /\ ArchiveTrue)'
    <2>1. PICK d \in Dirs :
            /\ d = hand[a].dir
            /\ \A e \in Dirs : e # d => shelf'[e] = shelf[e]
            /\ shelf'[d].manifest = hand[a].saw /\ (shelf'[d].used <=> shelf[d].used)
            /\ shelf'[d].files = shelf[d].files /\ (shelf'[d].mixed <=> shelf[d].mixed)
            /\ Proceeds(a, "free", Free)
      BY <1>6, Recording
    <2>2. ASSUME NEW b \in Author, step'[b] \in {"mkdir", "manifest"}
          PROVE step'[b] = step[b] /\ hand'[b] = hand[b] /\ hand[b].dir \in Dirs
      BY <2>1, <2>2 DEF Proceeds, FinishBase, Holds
    <2>3. shelf[d].used /\ (~shelf[d].mixed => shelf[d].files = hand[a].saw)
      BY <1>6, <2>1 DEF Manifest, Filing
    <2>4. ArchiveTrue'
      BY <2>1, <2>3 DEF ArchiveTrue
    <2>5. \A e \in Dirs : ~shelf'[e].used => shelf'[e].manifest = 0
      BY <2>1, <2>3 DEF Filing
    <2>6. \A e \in Dirs : /\ shelf'[e].used <=> shelf[e].used
                          /\ shelf'[e].mixed <=> shelf[e].mixed
                          /\ shelf'[e].files = shelf[e].files
      BY <2>1
    <2> QED
      BY <2>2, <2>4, <2>5, <2>6 DEF Filing
  <1> QED
    BY <1>1, <1>2, <1>3, <1>4, <1>5, <1>6 DEF FinishNext
-----------------------------------------------------------------------------
(* No file, no archive, nobody at work.                                    *)
LEMMA InitialFinish == FinishInit => FinishInv
  <1> SUFFICES ASSUME FinishInit PROVE FinishInv
    OBVIOUS
  <1>b. Bare \in Shelves /\ Bare.manifest = 0
    BY DEF Bare, Shelves
  <1>e. Empty \in Cells
    BY DEF Empty, Cells
  <1>1. /\ step = [a \in Author |-> "free"] /\ hand = [a \in Author |-> Free]
        /\ paper = [k \in Place |-> 0] /\ backups = [k \in Place |-> {}]
        /\ text = [k \in Place |-> [i \in Dirs |-> Empty]] /\ shelf = [d \in Dirs |-> Bare]
    BY DEF FinishInit
  <1>2. \A k \in Place : Files(k) = {}
    BY <1>1 DEF Files
  <1>3. /\ step \in [Author -> Steps] /\ hand \in [Author -> Hands]
        /\ paper \in [Place -> 0..MaxEditions] /\ backups \in [Place -> SUBSET Dirs]
        /\ text \in [Place -> [Dirs -> Cells]] /\ shelf \in [Dirs -> Shelves]
    BY <1>1, <1>b, <1>e, FreeHand DEF Steps
  <1>4. FinishBase
    <2>1. \A a \in Author : Holds(step[a], hand[a], editions)
      BY <1>1 DEF Holds
    <2>2. /\ verdict \in {"solving", "solved", "error"} /\ overlap \in BOOLEAN
          /\ work \in Nat /\ editions \in 0..MaxEditions /\ crashes \in Nat
      <3>1. MaxEditions \in Nat
        OBVIOUS
      <3>2. /\ verdict \in {"solving", "solved"} /\ overlap = FALSE
            /\ work = 1 /\ editions = 0 /\ crashes = 0
        BY DEF FinishInit
      <3>3. overlap \in BOOLEAN
        BY <3>2, Zenon
      <3>4. verdict \in {"solving", "solved", "error"}
        BY <3>2
      <3>5. work \in Nat /\ editions \in 0..MaxEditions /\ crashes \in Nat
        BY <3>1, <3>2
      <3> QED
        BY <3>3, <3>4, <3>5
    <2> QED
      BY <1>2, <1>3, <2>1, <2>2 DEF FinishBase
  <1>5. Alone /\ Progress
    BY <1>1 DEF Alone, Progress, Writing
  <1>6. EditionsKept
    BY <1>2, Spans, Reads DEF EditionsKept
  <1>7. Filing /\ ArchiveTrue
    BY <1>1, <1>b DEF Filing, ArchiveTrue
  <1> QED
    BY <1>4, <1>5, <1>6, <1>7 DEF FinishInv

(* The types, the progress of a lone writer and of each archiver are an    *)
(* inductive invariant.                                                    *)
THEOREM FinishInvariant == FinishSpec => []FinishInv
  <1>1. FinishInv /\ [FinishNext]_finishVars => FinishInv'
    BY FinishBaseKept, PapersKept, FilingKept DEF FinishInv
  <1> QED
    BY <1>1, InitialFinish, PTL DEF FinishSpec

(* FinishTypeOK, for any number of processes, papers, editions and deaths. *)
THEOREM FinishTypeCorrect == FinishSpec => []FinishTypeOK
  <1>1. FinishInv => FinishTypeOK
    BY DEF FinishInv, FinishBase, FinishTypeOK, Steps, Cells
  <1> QED
    BY <1>1, FinishInvariant, PTL

(* RecordsKept: unless two processes write at once, no edition is lost and a *)
(* summary vouches for all its papers; an archive is what its manifest says. *)
(* And no step takes away what could be read.                              *)
THEOREM RecordsAreKept == FinishSpec => RecordsKept
  <1>1. FinishInv => EditionsKept /\ ArchiveTrue
    BY DEF FinishInv
  <1>2. FinishInv /\ [FinishNext]_finishVars => [PapersLast]_finishVars
    BY FinishBaseKept, PapersKept DEF FinishInv
  <1> QED
    BY <1>1, <1>2, FinishInvariant, PTL DEF FinishSpec, RecordsKept
-----------------------------------------------------------------------------
(* The board, the rehearsal, the intake and the archives together, as      *)
(* MCBoard composes them.                                                  *)
LEMMA FilesRunTheParts == FilesSpec => Spec /\ RehearsalSpec /\ IntakeSpec /\ ExtractionSpec
  <1>1. FilesInit => Init /\ RehearsalInit /\ IntakeInit /\ ExtractionInit
    BY DEF FilesInit
  <1>2. [FilesNext]_<<part, vars, rehearsalVars, intakeVars, extractionVars>> =>
          /\ [Next]_vars /\ [RehearsalNext]_rehearsalVars
          /\ [IntakeNext]_intakeVars /\ [ExtractionNext]_extractionVars
    BY DEF FilesNext
  <1> QED
    BY <1>1, <1>2, PTL DEF FilesSpec, Spec, RehearsalSpec, IntakeSpec, ExtractionSpec

(* Every file around a contest, and every process on it, stays well-typed. *)
THEOREM FilesTypeCorrect == FilesSpec => []PartsTypeOK
  <1>1. TypeOK /\ RehearsalTypeOK /\ IntakeTypeOK /\ ExtractionTypeOK => PartsTypeOK
    BY DEF PartsTypeOK
  <1> QED
    BY <1>1, FilesRunTheParts, BoardTypeCorrect, RehearsalTypeCorrect, IntakeTypeCorrect,
       ExtractionTypeCorrect, PTL

(* What the parts promise holds of the composition: locks, verdicts and    *)
(* posts at the board, the rehearsal's outcome, whole downloads, archives  *)
(* within their limits.                                                    *)
THEOREM FilesHold ==
  FilesSpec => /\ [](SoleWorker /\ LocksMatchWork /\ VerdictsResurface /\ NoRepeatedPost)
               /\ NoClaimOfKnown /\ LocksAreHonoured
               /\ []RehearsalHolds /\ []ReadyIsWhole /\ OriginalsKept /\ []ExtractionSound
  BY FilesRunTheParts, ChallengeHasSoleWorker, LocksAreRight, VerdictsComeBack, FlagIsPostedOnce,
     KnownIsNotClaimed, BoardImplementsLock, RehearsalKept, ReadyChallengesAreWhole,
     WholeFilesAreKept, ExtractionIsSound, PTL
=============================================================================
