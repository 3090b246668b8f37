--------------------------- MODULE OperatorConfig ---------------------------
(***************************************************************************)
(* The settings of an interactive contest (interactive.py): operator.json  *)
(* with the platform profile and, for a challenge, where its service or    *)
(* page is and how it is submitted to; board.json holds a copy of the      *)
(* latter.  Every command first rewrites operator.json whole, from what it *)
(* has just read; .init.lock keeps nobody out.  A write empties the file   *)
(* and then fills it, a torn file reads as an empty one, and a process may *)
(* die anywhere.  One challenge; its settings are told apart by a number,  *)
(* later ones being higher.                                                *)
(***************************************************************************)
EXTENDS Naturals, FiniteSets

CONSTANTS
  Console,      \* operator sessions
  Derivable,    \* whether the challenge's metadata name an endpoint
  MaxCommands, MaxFalls   \* bounds: commands, deaths

ASSUME OperatorConfigAssumption ==
  /\ Derivable \in BOOLEAN /\ MaxCommands \in Nat /\ MaxFalls \in Nat

VARIABLES
  operator,     \* operator.json: can it be read, its profile (0: "TODO"), the setting (0: none)
  boardFile,        \* board.json: can it be read, its rows, the setting at the top and in the row
  at, errand,      \* control state and locals of each session
  asked,        \* the last profile a command was given and wrote
  settled,      \* the last setting whose save was completed
  explicit,     \* the numbers of the settings that were configured, not derived by a probe
  together,     \* two commands ran at once
  tornOperator, tornBoard,  \* a write of the file was broken off
  commands, falls

configVars == <<operator, boardFile, at, errand, asked, settled, explicit, together, tornOperator, tornBoard, commands, falls>>

Kinds == {"init", "sync", "config", "submit-config", "probe", "stall"}
Lost  == [ok |-> FALSE, profile |-> 0, set |-> 0]
Unread == [ok |-> FALSE, rows |-> FALSE, top |-> 0, row |-> 0]
Idle  == [kind |-> "none", no |-> 0, cfg |-> Lost, brd |-> Unread, val |-> 0]

ConfigInit ==
  /\ operator = Lost /\ boardFile = Unread      \* no files yet
  /\ at = [s \in Console |-> "idle"] /\ errand = [s \in Console |-> Idle]
  /\ asked = 0 /\ settled = 0 /\ explicit = {}
  /\ together = FALSE /\ tornOperator = FALSE /\ tornBoard = FALSE
  /\ commands = 0 /\ falls = 0
-----------------------------------------------------------------------------
To(s, l)   == at' = [at EXCEPT ![s] = l]
Locals(s, j)  == errand' = [errand EXCEPT ![s] = j]
EndCommand(s)   == To(s, "idle") /\ Locals(s, Idle)

\* _service_metadata_for_item, _web_metadata_for_item, _challenge_submit_metadata:
\* operator.json first, then the board's own copy, then the row's.
Lookup(cfg, brd) == IF cfg.set # 0 THEN cfg.set ELSE IF brd.top # 0 THEN brd.top ELSE brd.row

\* Faulty: the settings of the file are not carried over.
FromScratch(j, profile) == [ok |-> TRUE, profile |-> profile, set |-> 0]

\* _ensure_operator_files: all that was read, with the profile if one is given.
Carried(j, profile) == [j.cfg EXCEPT !.ok = TRUE, !.profile = IF profile = 0 THEN @ ELSE profile]

\* init_operator, by which every command begins: operator.json is read, ...
StartCommand(s, kind) ==
  /\ at[s] = "idle" /\ commands < MaxCommands /\ commands' = commands + 1
  /\ To(s, "empty") /\ Locals(s, [Idle EXCEPT !.kind = kind, !.no = commands + 1, !.cfg = operator])
  /\ together' = (together \/ \E t \in Console : at[t] # "idle")
  /\ UNCHANGED <<operator, boardFile, asked, settled, explicit, tornOperator, tornBoard, falls>>

\* ... emptied ...
EmptyOperator(s) ==
  /\ at[s] \in {"empty", "save"} /\ operator' = Lost
  /\ To(s, IF at[s] = "empty" THEN "fill" ELSE "saved")
  /\ UNCHANGED <<boardFile, errand, asked, settled, explicit, together, tornOperator, tornBoard, commands, falls>>

\* ... and filled; init and sync may be given a profile.  A board that does not
\* exist is made.
FillOperator(s) ==
  /\ at[s] = "fill"
  /\ \E p \in IF errand[s].kind \in {"init", "sync"} THEN {0, errand[s].no} ELSE {0} :
       /\ operator' = Carried(errand[s], p)
       /\ asked' = IF p = 0 THEN asked ELSE p
  /\ boardFile' = IF ~boardFile.ok /\ ~tornBoard THEN [boardFile EXCEPT !.ok = TRUE] ELSE boardFile
  /\ IF errand[s].kind = "init" THEN EndCommand(s) ELSE To(s, "board") /\ UNCHANGED errand
  /\ UNCHANGED <<settled, explicit, together, tornOperator, tornBoard, commands, falls>>

\* A setting is given or derived: it goes to operator.json, then to the board.
Save(s, j) == To(s, "read") /\ Locals(s, [j EXCEPT !.val = j.no])

\* web_config and service_config need the challenge's row, valid arguments, and
\* an endpoint that is given or found: web_config looks at the present setting
\* before it derives one, service_config only derives.
WebConfigured(s, j) ==
  \/ j.brd.rows /\ \E given \in BOOLEAN :
       (given \/ Lookup(operator, j.brd) # 0 \/ Derivable) /\ Save(s, j)
  \/ EndCommand(s)

ServiceConfigured(s, j) ==
  \/ j.brd.rows /\ \E given \in BOOLEAN : (given \/ Derivable) /\ Save(s, j)
  \/ EndCommand(s)

\* submit_config takes a challenge without a row for one of its id alone.
SubmitConfigured(s, j) == Save(s, j)

\* A probe or an attempt takes the setting it finds, else the endpoint it can
\* derive, which it saves before it goes on with it.
Derives(j) == Lookup(operator, j.brd) = 0 /\ Derivable

Probed(s, j) == IF j.brd.rows /\ Derives(j) THEN Save(s, j) ELSE EndCommand(s)

\* The board is read; a torn one reads as one without challenges.  sync needs a
\* profile, the entry of a stalled challenge its row; both write the board.
LoadBoard(s) ==
  /\ at[s] = "board"
  /\ LET j == [errand[s] EXCEPT !.brd = IF boardFile.ok THEN boardFile ELSE [Unread EXCEPT !.ok = TRUE]]
     IN CASE j.kind = "sync" -> IF operator.profile = 0 THEN EndCommand(s)
                                ELSE To(s, "rows") /\ Locals(s, [j EXCEPT !.brd.rows = TRUE])
          [] j.kind = "submit-config" -> SubmitConfigured(s, j)
          [] j.kind = "config" -> WebConfigured(s, j) \/ ServiceConfigured(s, j)
          [] j.kind = "stall" -> IF j.brd.rows THEN To(s, "rows") /\ Locals(s, j) ELSE EndCommand(s)
          [] j.kind = "probe" -> Probed(s, j)
  /\ explicit' = IF errand[s].kind \in {"config", "submit-config"} THEN explicit \cup {errand[s].no} ELSE explicit
  /\ UNCHANGED <<operator, boardFile, asked, settled, together, tornOperator, tornBoard, commands, falls>>

\* _save_challenge_local_metadata, _save_challenge_submit_metadata: operator.json
\* is read once more, emptied (EmptyOperator), filled with the setting, ...
ReadOperator(s) ==
  /\ at[s] = "read" /\ To(s, "save") /\ Locals(s, [errand[s] EXCEPT !.cfg = operator])
  /\ UNCHANGED <<operator, boardFile, asked, settled, explicit, together, tornOperator, tornBoard, commands, falls>>

SaveOperator(s) ==
  /\ at[s] = "saved" /\ operator' = [errand[s].cfg EXCEPT !.ok = TRUE, !.set = errand[s].val]
  /\ To(s, "rows")
  /\ UNCHANGED <<boardFile, errand, asked, settled, explicit, together, tornOperator, tornBoard, commands, falls>>

\* Faulty: the board gets no copy.
OnlyRows(j) == j.brd

\* ... then the board as it was read, with the setting at the top and in the row.
WithCopy(j) == IF j.val = 0 THEN j.brd
               ELSE [j.brd EXCEPT !.top = j.val, !.row = IF j.brd.rows THEN j.val ELSE @]

EmptyBoard(s) ==
  /\ at[s] = "rows" /\ boardFile' = Unread /\ To(s, "refill")
  /\ UNCHANGED <<operator, errand, asked, settled, explicit, together, tornOperator, tornBoard, commands, falls>>

FillBoard(s) ==
  /\ at[s] = "refill" /\ boardFile' = WithCopy(errand[s]) /\ EndCommand(s)
  /\ settled' = IF errand[s].val = 0 THEN settled ELSE errand[s].val
  /\ UNCHANGED <<operator, asked, explicit, together, tornOperator, tornBoard, commands, falls>>

\* A session dies: a file it had emptied stays so.
Fall(s) ==
  /\ at[s] # "idle" /\ falls < MaxFalls /\ falls' = falls + 1
  /\ EndCommand(s)
  /\ tornOperator' = (tornOperator \/ at[s] \in {"fill", "saved"})
  /\ tornBoard' = (tornBoard \/ at[s] = "refill")
  /\ UNCHANGED <<operator, boardFile, asked, settled, explicit, together, commands>>

ConfigNext ==
  \E s \in Console :
    \/ \E k \in Kinds : StartCommand(s, k)
    \/ EmptyOperator(s) \/ FillOperator(s) \/ LoadBoard(s) \/ ReadOperator(s) \/ SaveOperator(s)
    \/ EmptyBoard(s) \/ FillBoard(s) \/ Fall(s)

ConfigSpec == ConfigInit /\ [][ConfigNext]_configVars
-----------------------------------------------------------------------------
ConfigTypeOK ==
  /\ operator \in [ok : BOOLEAN, profile : Nat, set : Nat]
  /\ boardFile \in [ok : BOOLEAN, rows : BOOLEAN, top : Nat, row : Nat]
  /\ at \in [Console -> {"idle", "empty", "fill", "board", "read", "save", "saved", "rows", "refill"}]

Resting == \A s \in Console : at[s] = "idle"

\* What was set stays set: as long as no two commands run at once, the setting a
\* command finds is never older than the last one saved, through deaths at any
\* point, unless both files were torn.
LatestFound == Resting /\ ~together /\ ~(tornOperator /\ tornBoard) => Lookup(operator, boardFile) >= settled

\* The platform profile is the last one given, unless two commands ran at once
\* or a write of operator.json was broken off: then every later command writes
\* "TODO" into it, and sync is blocked until a profile is given again.
ProfileKept == Resting /\ ~together /\ ~tornOperator => operator.profile = asked

\* An endpoint that a probe or an attempt derived from the challenge's text
\* never takes the place of one the operator configured, under the same
\* conditions.
GivenOutlasts ==
  Resting /\ ~together /\ ~(tornOperator /\ tornBoard) /\ settled \in explicit =>
    Lookup(operator, boardFile) \in explicit

\* All three: what the operator set is what the commands find.
SettingsKept == LatestFound /\ ProfileKept /\ GivenOutlasts
=============================================================================
