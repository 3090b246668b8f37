----------------------------- MODULE BoardSync ------------------------------
(***************************************************************************)
(* How `interactive sync` keeps track of which row of board.json stands    *)
(* for which challenge of the platform (sync_operator and what it calls in *)
(* interactive.py).  A platform lists a challenge under a number with a    *)
(* slug beside it or under the slug alone, renames it, lists variants of   *)
(* it (a static shell, a phase) of the same canonical name, and may list   *)
(* some of its challenges or none.  Between the syncs the operator has     *)
(* rows solved, given up or declared solved elsewhere.  One command at a   *)
(* time here; who overtakes whom, and the claims, are OperatorBoard's.     *)
(***************************************************************************)
EXTENDS Naturals, FiniteSets

CONSTANTS
  Task,         \* the platform's challenges
  Title,        \* the names they may carry
  Canon,        \* [Title -> Title], _canonical_name
  Shells,       \* the tasks whose page is a static shell
  Opening,      \* [Task -> Title], their names at the start
  MaxSyncs, MaxTurns  \* bounds: syncs, events between them
ASSUME BoardSyncAssumption ==
  /\ Canon \in [Title -> Title] /\ \A t \in Title : Canon[Canon[t]] = Canon[t]
  /\ Shells \subseteq Task /\ Opening \in [Task -> Title] /\ MaxSyncs \in Nat /\ MaxTurns \in Nat

VARIABLES
  title, form,  \* platform: the name of each task, and whether it goes by number or slug
  cleared,      \* platform: the tasks solved there
  rows,         \* board.json
  solvedIds, externalKeys, stalledIds,  \* solved.jsonl, external_solved.txt, stalled.jsonl
  posted, declared,   \* tasks whose flag the board had accepted, that it was told are solved
  given,        \* tasks it gave up
  listing,      \* the tasks the last sync listed
  seen,         \* [Task -> the id and name at the last sync that listed it]
  bore,         \* [Task -> the canonical names it was listed with]
  moved,        \* [Task -> whether it was listed under another id than before: "once" if only
                \*  once and under the same canonical name, else "lost"]
  syncs, turns

syncVars == <<title, form, cleared, rows, solvedIds, externalKeys, stalledIds, posted, declared,
              given, listing, seen, bore, moved, syncs, turns>>

Ident(c) == <<form[c], c>>
Slug(c)  == <<"slug", c>>
Named(t) == <<"title", t>>
Unseen   == [id |-> <<"none">>, name |-> "none"]

SyncInit ==
  /\ title = Opening /\ \E f \in {"number", "slug"} : form = [c \in Task |-> f]
  /\ cleared = {} /\ rows = {} /\ solvedIds = {} /\ externalKeys = {} /\ stalledIds = {}
  /\ posted = {} /\ declared = {} /\ given = {}
  /\ listing = {} /\ seen = [c \in Task |-> Unseen] /\ bore = [c \in Task |-> {}]
  /\ moved = [c \in Task |-> "never"]
  /\ syncs = 0 /\ turns = 0
-----------------------------------------------------------------------------
\* _challenge_keys.  The aliases, artifact sources and source ids are one set.
Keys(r) == {r.id, Named(r.name), Named(Canon[r.name])} \cup r.also

\* _find_challenge: the best of the rows that have the key: one that can be
\* claimed before a shell, then one of that id, then one of that canonical
\* name.
Best(b, k) ==
  LET has  == {r \in b : k \in Keys(r)}
      open == {r \in has : ~r.shell}
      pool == IF open # {} THEN open ELSE has
      own  == {r \in pool : r.id = k}
      name == {r \in pool : Named(Canon[r.name]) = k}
  IN IF own # {} THEN own ELSE IF name # {} THEN name ELSE pool

\* _apply_runtime_statuses: the ledgers S, E and G first, then what the row says.
Runtime(r, S, E, G) ==
  IF Keys(r) \cap S # {} THEN [r EXCEPT !.status = "solved", !.ext = FALSE]
  ELSE IF Keys(r) \cap E # {} THEN [r EXCEPT !.status = "external_solved", !.ext = TRUE]
  ELSE IF r.plat THEN [r EXCEPT !.status = "solved"]
  ELSE IF Keys(r) \cap G # {} THEN [r EXCEPT !.status = "stalled"]
  ELSE IF r.shell THEN [r EXCEPT !.status = "skipped"]
  ELSE IF r.status \in {"solved", "external_solved", "stalled", "skipped"} THEN r
  ELSE [r EXCEPT !.status = "todo"]

Now(r) == Runtime(r, solvedIds, externalKeys, stalledIds)

\* The sources of one listing that share a canonical name.
Group(L, g) == {c \in L : Canon[title[c]] = g}

\* What a source goes by: _source_alias_values.  A number has the slug beside it.
Aliases(c) == {Ident(c), Slug(c), Named(title[c])}

\* Faulty: the flag is not cleared from one group to the next.
CarriedOver(L, g, shows) == shows # {}

\* platform_solved of a group: any of its sources is marked.
Won(L, g, shows) == Group(L, g) \cap shows # {}

\* One entry of _canonicalize_challenges: the group under its leading source.
Entry(L, g, lead, shows) ==
  LET won == Won(L, g, shows)
  IN [id |-> Ident(lead), name |-> title[lead], shell |-> lead \in Shells,
      also |-> {Ident(c) : c \in Group(L, g)} \cup UNION {Aliases(c) : c \in Group(L, g) \ {lead}},
      status |-> IF won THEN "solved" ELSE IF lead \in Shells THEN "skipped" ELSE "todo",
      plat |-> won, ext |-> FALSE]

\* The ids among the keys of canonical_map.
MapIds(L) == {Ident(c) : c \in L} \cup {Slug(c) : c \in L}

\* _previous_challenge: the row of the id, else of the canonical name, else of
\* a source id, else of any key.
Previous(b, e) ==
  LET with(K) == {r \in b : Keys(r) \cap K # {}}
      ids     == {k \in e.also : k[1] # "title"}
  IN IF with({e.id}) # {} THEN with({e.id})
     ELSE IF with({Named(Canon[e.name])}) # {} THEN with({Named(Canon[e.name])})
     ELSE IF with(ids) # {} THEN with(ids) ELSE with(Keys(e))

\* Faulty: the new listing's keys replace the old ones.
NewKeys(p, e) == e.also

\* aliases, artifact_sources and source_ids of both are kept.
BothKeys(p, e) == p.also \cup e.also

\* _merge_challenge_entry.
MergedEntry(p, e) ==
  [e EXCEPT !.also = BothKeys(p, e),
            !.status = IF e.plat THEN "solved"
                       ELSE IF p.status \in {"solved", "external_solved", "stalled"} THEN p.status
                       ELSE e.status,
            !.ext = ~e.plat /\ p.status = "external_solved"]

\* Faulty: a row the platform does not list any more goes.
ListedOnly(b, L) == {}

\* Rows whose id the listing does not name are kept as they are.
Preserved(b, L) == {r \in b : r.id \notin MapIds(L)}

\* A record of --pull-solved names the challenge by its id, or its slug.
Filed(c) == Ident(c)

\* _apply_platform_solved_records: each record marks the row its id resolves to
\* (of rows that score alike the code takes the last by name, this one any fixed one).
Marked(b, D) ==
  LET hit == {CHOOSE r \in Best(b, Filed(d)) : TRUE : d \in {x \in D : Best(b, Filed(x)) # {}}}
  IN {IF r \in hit THEN [r EXCEPT !.plat = TRUE, !.status = IF r.ext THEN @ ELSE "solved"] ELSE r : r \in b}

\* sync_operator, with what the listing holds and marks as solved and what
\* --pull-solved adds.  Of a group the source that is no shell leads; among
\* several the statements decide, which is left open.
SyncBoard(L, shows, pull) ==
  /\ syncs < MaxSyncs /\ syncs' = syncs + 1
  /\ LET before == {Now(r) : r \in rows}
         names  == {Canon[title[c]] : c \in L}
     IN \E lead \in [names -> Task] :
          /\ \A g \in names : lead[g] \in Group(L, g) /\ (lead[g] \in Shells => Group(L, g) \subseteq Shells)
          /\ LET entry(g) == Entry(L, g, lead[g], shows)
                 blank(g) == [entry(g) EXCEPT !.also = {}, !.status = "none"]
             IN \E prev \in [names -> before \cup {blank(g) : g \in names}] :
                  /\ \A g \in names : IF Previous(before, entry(g)) = {} THEN prev[g] = blank(g)
                                      ELSE prev[g] \in Previous(before, entry(g))
                  /\ LET merged == {MergedEntry(prev[g], entry(g)) : g \in names} \cup Preserved(before, L)
                     IN rows' = {Now(r) : r \in Marked(merged, shows \cup pull)}
  /\ listing' = L
  /\ seen' = [c \in Task |-> IF c \in L THEN [id |-> Ident(c), name |-> Canon[title[c]]] ELSE seen[c]]
  /\ bore' = [c \in Task |-> IF c \in L THEN bore[c] \cup {Canon[title[c]]} ELSE bore[c]]
  /\ moved' = [c \in Task |->
       IF c \notin L \/ seen[c] = Unseen \/ seen[c].id = Ident(c) THEN moved[c]
       ELSE IF moved[c] = "never" /\ seen[c].name = Canon[title[c]] THEN "once" ELSE "lost"]
  /\ UNCHANGED <<title, form, cleared, solvedIds, externalKeys, stalledIds, posted, declared, given, turns>>
-----------------------------------------------------------------------------
\* A command that records something reads the board afresh and writes it back.
Refreshed == rows' = {Runtime(r, solvedIds', externalKeys', stalledIds') : r \in rows}

\* submit_flag_file: the platform accepts a flag for the row's id, solved.jsonl
\* holds that id.
Accept(r) ==
  /\ Now(r).status \notin {"solved", "external_solved"}
  /\ cleared' = cleared \cup {r.id[2]} /\ posted' = posted \cup {r.id[2]}
  /\ solvedIds' = solvedIds \cup {r.id}
  /\ UNCHANGED <<externalKeys, stalledIds, declared, given>>

\* mark_external_solved: external_solved.txt holds all the row goes by.
Declare(r) ==
  /\ declared' = declared \cup {r.id[2]} /\ externalKeys' = externalKeys \cup Keys(r)
  /\ UNCHANGED <<cleared, solvedIds, stalledIds, posted, given>>

\* stall_challenge: stalled.jsonl holds the row's id.
GiveUp(r) ==
  /\ Now(r).status = "todo"
  /\ given' = given \cup {r.id[2]} /\ stalledIds' = stalledIds \cup {r.id}
  /\ UNCHANGED <<cleared, solvedIds, externalKeys, posted, declared>>

Tell ==
  /\ turns < MaxTurns /\ turns' = turns + 1
  /\ \E r \in rows : Accept(r) \/ Declare(r) \/ GiveUp(r)
  /\ Refreshed
  /\ UNCHANGED <<title, form, listing, seen, bore, moved, syncs>>

\* The platform: a task gets another name or id form, or is solved by the team
\* elsewhere.
Platform ==
  /\ turns < MaxTurns /\ turns' = turns + 1
  /\ \E c \in Task :
       \/ /\ \E t \in Title \ {title[c]} : title' = [title EXCEPT ![c] = t]
          /\ UNCHANGED <<form, cleared>>
       \/ /\ form' = [form EXCEPT ![c] = IF @ = "slug" THEN "number" ELSE "slug"]
          /\ UNCHANGED <<title, cleared>>
       \/ /\ c \notin cleared /\ cleared' = cleared \cup {c}
          /\ UNCHANGED <<title, form>>
  /\ UNCHANGED <<rows, solvedIds, externalKeys, stalledIds, posted, declared, given, listing, seen, bore, moved,
                 syncs>>

\* What a listing marks as solved: tasks it shows, to a session that is logged in.
Ticked(L, login) == IF login THEN L \cap cleared ELSE {}

\* What --pull-solved adds: the team's solves, or nothing if it is left out,
\* refused, or the platform has no such list.
Pulled(pull) == IF pull THEN cleared ELSE {}

\* A listing shows some of the tasks.
SyncNext ==
  \/ Tell \/ Platform
  \/ \E L \in SUBSET Task, login, pull \in BOOLEAN : SyncBoard(L, Ticked(L, login), Pulled(pull))

SyncSpec == SyncInit /\ [][SyncNext]_syncVars
-----------------------------------------------------------------------------
Id == {"number", "slug"} \X Task

SyncTypeOK ==
  /\ \A r \in rows : /\ r.id \in Id /\ r.name \in Title /\ r.shell \in BOOLEAN
                     /\ r.also \subseteq Id \cup {Named(t) : t \in Title}
                     /\ r.plat \in BOOLEAN /\ r.ext \in BOOLEAN
                     /\ r.status \in {"todo", "solved", "external_solved", "stalled", "skipped"}
  /\ solvedIds \subseteq Id /\ stalledIds \subseteq Id

\* The tasks that were ever listed under a canonical name of one of S, ...
Near(S) == S \cup {d \in Task : \E c \in S : bore[c] \cap bore[d] # {}}

\* ... of one of those, and so on: the least set with c that misses none near it.
Kin(c)  == {d \in Task : \A S \in SUBSET Task : c \in S /\ Near(S) \subseteq S => d \in S}

\* What the operator is told is done or was given up (_operator_status_summary,
\* _completion_status).
Solved(r)   == r.status \in {"solved", "external_solved"} \/ r.plat \/ r.ext
Settled(r)   == Solved(r) \/ r.status = "stalled"
Work        == {r \in rows : r.status # "skipped" \/ Solved(r)}
Completion  == IF \E r \in rows : r.status = "todo" /\ ~Solved(r) THEN "active"
               ELSE IF Work # {} /\ \A r \in Work : Solved(r) THEN "all_solved"
               ELSE IF Work # {} /\ \A r \in Work : Settled(r) THEN "all_solved_or_stalled"
               ELSE "no_claimable"

\* The board calls nothing solved that was not: behind a solved row there is a
\* task the platform or the operator solved, the row's own or one that shared a
\* canonical name with it, whatever was renamed, listed in part or merged.
SolvedIsReal ==
  \A r \in rows : Solved(r) => \E d \in Kin(r.id[2]) : d \in cleared \cup declared

\* A task no other was ever listed under a canonical name of.
Unshared(c) == \A d \in Task : bore[c] \cap bore[d] # {} => d = c

\* A task that changes its id is recognised by its name alone, and its old row
\* stays beside the new one: the name may then not change at the same time nor be
\* shared, nor the id change a second time.
Recognised(c) == moved[c] = "never" \/ (moved[c] = "once" /\ Unshared(c))

\* A flag the board had accepted is never asked for again: whatever row the id
\* resolves to that the platform last listed the task with, it is solved.  There is
\* one as long as the platform lists the task.  After that only a task that was
\* always alone keeps its row: that of a folded one goes when the one that led it
\* is folded into another row.
SolvedStays ==
  \A c \in posted :
     /\ Recognised(c) => \A r \in Best(rows, seen[c].id) : Solved(r)
     /\ c \in listing \/ Unshared(c) => Best(rows, seen[c].id) # {}

\* The stop conditions are true ones: "all_solved" and "all_solved_or_stalled"
\* are said only when each task that was ever listed, shells aside, was solved or
\* given up, itself or under a name it shared.
StopIsTrue ==
  /\ Completion = "all_solved" =>
       \A c \in Task \ Shells : seen[c] # Unseen =>
          \E d \in Kin(c) : d \in cleared \cup declared
  /\ Completion = "all_solved_or_stalled" =>
       \A c \in Task \ Shells : seen[c] # Unseen =>
          \E d \in Kin(c) : d \in cleared \cup declared \cup given

\* Neither a row nor the stop condition claims more than was done.
BoardTruthful == SolvedIsReal /\ StopIsTrue
=============================================================================
