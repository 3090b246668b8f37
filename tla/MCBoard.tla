------------------------------- MODULE MCBoard -------------------------------
(***************************************************************************)
(* Models for TLC of what goes on around a contest's files while nobody    *)
(* else is at the queue: the sessions at the interactive board             *)
(* (OperatorBoard), the intake of a challenge's files (Intake,             *)
(* Extraction), and the rehearsal of a whole contest (Rehearsal).  They    *)
(* share no variable: a behaviour is one of a single part, the others      *)
(* rest in a fixed state.                                                  *)
(***************************************************************************)
EXTENDS OperatorBoard, Rehearsal, Intake, Extraction, TLC

VARIABLE part

FilesInit ==
  /\ part \in {"board", "rehearsal", "intake", "extraction"}
  /\ Init /\ RehearsalInit /\ IntakeInit /\ ExtractionInit
  /\ part # "rehearsal" => kind = "full"
  /\ part # "intake" => adapter = "ctfd" /\ hosted = {}
  /\ adapter = "ctfd" => namesake = {}  \* its texts are of tasks without attachments

FilesNext ==
  \/ /\ part = "board" /\ Next
     /\ UNCHANGED <<part, rehearsalVars, intakeVars, extractionVars>>
  \/ /\ part = "rehearsal" /\ RehearsalNext
     /\ UNCHANGED <<part, vars, intakeVars, extractionVars>>
  \/ /\ part = "intake" /\ IntakeNext
     /\ UNCHANGED <<part, vars, rehearsalVars, extractionVars>>
  \/ /\ part = "extraction" /\ ExtractionNext
     /\ UNCHANGED <<part, vars, rehearsalVars, intakeVars>>

FilesSpec == FilesInit /\ [][FilesNext]_<<part, vars, rehearsalVars, intakeVars, extractionVars>>

\* Sessions are interchangeable, and so are challenges; the parts beside the
\* board use the same names for their processes and files.
Symmetry == Permutations(Agent) \cup Permutations(Challenge)

(* The values the variables of the four parts take.                        *)
PartsTypeOK == TypeOK /\ RehearsalTypeOK /\ IntakeTypeOK /\ ExtractionTypeOK
=============================================================================
