--------------------------- MODULE SubmitPolicy ---------------------------
(***************************************************************************)
(* should_submit of ctf_runner/submit.py and the rule by which state.py    *)
(* records an attempt.  A candidate is a flag of a known confidence class. *)
(* The previous submissions are the list the caller built: a set of        *)
(* entries, where "fresh" tells the rows read from the database from those *)
(* the caller appended itself, so that one flag may be listed twice.       *)
(***************************************************************************)
EXTENDS Integers, FiniteSets

Terminal    == {"submitted", "accepted", "rejected", "rate_limited"}
NonTerminal == {"planned", "blocked", "duplicate"}
RowStatuses == Terminal \cup NonTerminal \cup {"none"}

\* "none": not a flag; "fake": flag-like but suspicious, of low confidence.
Classes == {"none", "fake", "medium", "high"}

\* The configured policy (submit_policy.yaml over load_submit_policy's defaults).
PolicyType == [autoSubmit : BOOLEAN, rejectFake : BOOLEAN, dedupe : BOOLEAN,
               maxWrong : Int, cooldown : BOOLEAN, requireHigh : BOOLEAN,
               mediumWithoutLimit : BOOLEAN]

Wrong(previous) == {e \in previous : e.status = "rejected"}

\* Faulty: only an accepted flag counts as submitted.
AlreadyAccepted(policy, f, previous) ==
  policy.dedupe /\ \E e \in previous : e.flag = f /\ e.status = "accepted"

Duplicate(policy, f, previous) ==
  policy.dedupe /\ \E e \in previous : e.flag = f /\ e.status \in Terminal

\* Faulty: one attempt too many.
WrongLimitExceeded(policy, previous) ==
  policy.maxWrong >= 0 /\ Cardinality(Wrong(previous)) > policy.maxWrong

WrongLimitReached(policy, previous) ==
  policy.maxWrong >= 0 /\ Cardinality(Wrong(previous)) >= policy.maxWrong

ConfidenceSuffices(policy, class) ==
  /\ policy.requireHigh => class = "high"
  /\ class = "medium" /\ policy.maxWrong < 0 => policy.mediumWithoutLimit

\* "cooling": the latest wrong entry is younger than cooldown_seconds.
ShouldSubmit(policy, f, class, previous, solved, cooling) ==
  /\ ~solved
  /\ policy.autoSubmit
  /\ class # "none"
  /\ ~(policy.rejectFake /\ class = "fake")
  /\ ~Duplicate(policy, f, previous)
  /\ ~WrongLimitReached(policy, previous)
  /\ ~(policy.cooldown /\ Wrong(previous) # {} /\ cooling)
  /\ ConfidenceSuffices(policy, class)

\* list_submissions: the rows of a challenge, as a list of entries.
Listed(rows) ==
  {[flag |-> f, status |-> rows[f], fresh |-> FALSE] :
     f \in {g \in DOMAIN rows : rows[g] # "none"}}

\* Faulty: the last write wins.
Overwritten(old, new) == new

\* record_submission_attempt: a verdict is never overwritten by a plan.
Recorded(old, new) ==
  IF old \in Terminal /\ new \in NonTerminal THEN old ELSE new
===========================================================================
