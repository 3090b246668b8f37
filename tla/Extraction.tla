----------------------------- MODULE Extraction -----------------------------
(***************************************************************************)
(* archive.py as ingest.py uses it: the archives among the inputs are      *)
(* unpacked one after the other under extracted/, each into the directory  *)
(* named after its stem, within limits on files, bytes of a file and bytes *)
(* in all.  A copy goes chunk by chunk (the unit of size here); a transfer *)
(* may break off, an archive may prove damaged and the process may die     *)
(* between two chunks.  Nothing is emptied first: a later archive of the   *)
(* same stem, or the same one again, writes over what is there.            *)
(***************************************************************************)
EXTENDS Naturals, FiniteSets

CONSTANTS
  Entry,        \* paths below the destination (the safe ones)
  Formats,      \* of the archives: "zip", "tar", "gz", "7z", "other"
  MaxFiles, MaxSingle, MaxBytes,  \* ArchiveLimits, in files and chunks
  MaxSize,      \* bound: what an entry says or has, in chunks
  MaxEntries, MaxArchives, MaxKills   \* bounds

ASSUME ExtractionAssumption ==
  /\ Formats \subseteq {"zip", "tar", "gz", "7z", "other"}
  /\ {MaxFiles, MaxSingle, MaxBytes, MaxSize, MaxEntries, MaxArchives, MaxKills} \subseteq Nat

VARIABLES
  stage,        \* what the extraction is doing
  format, seen, \* of the archive; entries met so far
  acct,         \* _ExtractionState: files, total_bytes, whether errors were reported
  copy,         \* the entry being copied: its path, declared size and chunks read
  placed,       \* [Entry -> what the destination holds there]
  twice,        \* the archive names a path more than once
  archives, kills

extractionVars == <<stage, format, seen, acct, copy, placed, twice, archives, kills>>

NotThere == [size |-> 0, whole |-> TRUE, by |-> 0]
NoCopy  == [says |-> 0, size |-> 0]
NewAcct   == [files |-> 0, total |-> 0, errors |-> FALSE]

ExtractionInit ==
  /\ stage = "rest" /\ format = "zip" /\ seen = 0 /\ acct = NewAcct
  /\ copy = NoCopy /\ placed = [n \in Entry |-> NotThere] /\ twice = FALSE
  /\ archives = 0 /\ kills = 0
-----------------------------------------------------------------------------
\* can_add_file
CanAdd(size) == /\ acct.files < MaxFiles /\ size <= MaxSingle
                /\ acct.total + size <= MaxBytes

\* Faulty: only the total is looked at.
OnlyTotal(k) == acct.total + k <= MaxBytes

\* The checks of _copy_stream on every chunk, before it is written.
Fits(k) == k <= MaxSingle /\ acct.total + k <= MaxBytes

\* Faulty: what was written stays.
LeftBehind(was) == [was EXCEPT !.whole = FALSE]

\* target.unlink: with it goes what an earlier archive had put there.
Unlinked(was) == NotThere

\* safe_extract_archive: the next archive.
Unpack ==
  /\ stage = "rest" /\ archives < MaxArchives
  /\ archives' = archives + 1 /\ acct' = NewAcct /\ seen' = 0 /\ twice' = FALSE
  /\ \E f \in Formats : format' = f /\ stage' = IF f \in {"7z", "other"} THEN "list" ELSE "entry"
  /\ UNCHANGED <<copy, placed, kills>>

Fail == acct' = [acct EXCEPT !.errors = TRUE] /\ stage' = "rest" /\ copy' = NoCopy

\* _extract_7z: no command, an unsafe path, an entry over the limits or a
\* failing run end it before anything is written; else every entry passed on
\* its own and the tree lies in a temporary directory.  An unknown format is
\* an error.
Listed7z ==
  /\ stage = "list"
  /\ \/ Fail
     \/ format = "7z" /\ stage' = "entry" /\ UNCHANGED <<acct, copy>>
  /\ UNCHANGED <<format, seen, placed, twice, archives, kills>>

\* The next entry.  A directory, a link, an encrypted or special member, a path
\* that would leave the destination and an entry over the limits are skipped;
\* the others are opened, which empties what was there.  A gzip file says
\* nothing of its size, a file staged by 7z has the size it says.
TakeEntry ==
  /\ stage = "entry" /\ seen < MaxEntries /\ (format = "gz" => seen = 0)
  /\ seen' = seen + 1
  /\ \/ UNCHANGED <<stage, copy, placed, twice>>
     \/ \E n \in Entry, says \in (IF format = "gz" THEN {0} ELSE 0..MaxSize) :
          /\ format = "7z" => placed[n].by # archives
          /\ twice' = (twice \/ placed[n].by = archives)
          /\ IF CanAdd(says)
             THEN /\ stage' = "copy" /\ copy' = [path |-> n, says |-> says, size |-> 0]
                  /\ placed' = [placed EXCEPT ![n] = [size |-> 0, whole |-> FALSE, by |-> archives]]
             ELSE UNCHANGED <<stage, copy, placed>>
  /\ UNCHANGED <<format, acct, archives, kills>>

\* One chunk: written, or the file goes and the entry is skipped.
Chunk ==
  /\ stage = "copy" /\ copy.size < MaxSize
  /\ format = "gz" \/ copy.size < copy.says
  /\ IF Fits(copy.size + 1)
     THEN /\ placed' = [placed EXCEPT ![copy.path].size = copy.size + 1]
          /\ copy' = [copy EXCEPT !.size = copy.size + 1] /\ UNCHANGED stage
     ELSE /\ placed' = [placed EXCEPT ![copy.path] = Unlinked(placed[copy.path])]
          /\ copy' = NoCopy /\ stage' = "entry"
  /\ UNCHANGED <<format, seen, acct, twice, archives, kills>>

\* The entry's end: mark_file.
Counted ==
  /\ stage = "copy" /\ (format = "gz" \/ copy.size = copy.says)
  /\ acct' = [acct EXCEPT !.files = @ + 1, !.total = @ + copy.size]
  /\ placed' = [placed EXCEPT ![copy.path].whole = TRUE]
  /\ copy' = NoCopy /\ stage' = "entry"
  /\ UNCHANGED <<format, seen, twice, archives, kills>>

\* A damaged member, a full disk or a path that cannot be made: safe_extract_archive
\* reports the error and the next archive follows.  An error it does not name
\* (EOFError, zlib.error) ends the command instead, as a death does: Killed.
Damaged ==
  /\ stage \in {"entry", "copy"} /\ Fail
  /\ UNCHANGED <<format, seen, placed, twice, archives, kills>>

Through ==
  /\ stage = "entry" /\ stage' = "rest"
  /\ UNCHANGED <<format, seen, acct, copy, placed, twice, archives, kills>>

\* The process dies; the command may be given again.
Killed ==
  /\ stage # "rest" /\ kills < MaxKills /\ kills' = kills + 1
  /\ Fail /\ UNCHANGED <<format, seen, placed, twice, archives>>

ExtractionNext == Unpack \/ Listed7z \/ TakeEntry \/ Chunk \/ Counted \/ Damaged \/ Through \/ Killed

ExtractionSpec == ExtractionInit /\ [][ExtractionNext]_extractionVars
-----------------------------------------------------------------------------
ExtractionTypeOK ==
  /\ stage \in {"rest", "list", "entry", "copy"} /\ format \in {"zip", "tar", "gz", "7z", "other"}
  /\ acct \in [files : Nat, total : Nat, errors : BOOLEAN]
  /\ placed \in [Entry -> [size : Nat, whole : BOOLEAN, by : Nat]]

Of(a)     == {n \in Entry : placed[n].by = a /\ placed[n] # NotThere}
Chunks(S) == UNION {{n} \X (1..placed[n].size) : n \in S}
Bytes(S)  == Cardinality(Chunks(S))

\* What one archive has put on the disk stays within its limits at every moment,
\* whatever its entries claim: the partial file being copied, one left by an
\* error or a death, and a path named twice included.
DestBounded ==
  \A a \in 1..archives : /\ Cardinality(Of(a)) <= MaxFiles /\ Bytes(Of(a)) <= MaxBytes
                         /\ \A n \in Of(a) : placed[n].size <= MaxSingle

\* The report of an archive tells what is on the disk: through without an error
\* and with no path named twice, it counts exactly its files and bytes, and
\* every one of its files is whole.
ReportTrue ==
  stage = "rest" /\ archives > 0 /\ ~acct.errors /\ ~twice =>
    /\ acct.files = Cardinality(Of(archives)) /\ acct.total = Bytes(Of(archives))
    /\ \A n \in Of(archives) : placed[n].whole

\* Both: the limits hold on the disk and the report tells what is there.
ExtractionSound == DestBounded /\ ReportTrue
=============================================================================
