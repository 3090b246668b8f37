----------------------------- MODULE Resources -----------------------------
(***************************************************************************)
(* Callback listeners and public tunnels of a contest: callback_server.py, *)
(* tunnel_manager.py, contest_resources.py and the commands of cli.py that *)
(* call them.  A listener or tunnel is a process, a pid file and a .json   *)
(* of its own; resources.json lists those of the contest, and cleanup goes *)
(* by that list.  Every command is a process that reads, changes and       *)
(* rewrites these files without a lock.  A pid is only acted on when its   *)
(* command line names the listener or the provider, so a reused pid counts *)
(* as dead here.  The hits of a listener and the urls are left out.        *)
(***************************************************************************)
EXTENDS Naturals, Sequences, FiniteSets

CONSTANTS
  Keeper,     \* operators and workers, each running one command at a time
  Listener,    \* ids that start_listener can give out
  Tunnel,      \* ids that start_tunnel can give out
  Chores,    \* the commands the sessions use
  MaxChores,    \* bound: commands begun in a behaviour
  MaxDrops,   \* bound: sessions killed in the middle of a command
  MaxCrashes   \* bound: listeners and providers that die on their own

Rid == Listener \cup Tunnel
CommandNames == {"listen", "tunnel", "smoke", "status", "stop", "list", "cleanup"}

ASSUME ResourcesAssumption ==
  /\ Listener \cap Tunnel = {} /\ "any" \notin Rid \* stands for no id
  /\ IsFiniteSet(Listener) /\ IsFiniteSet(Tunnel)
  /\ Chores \subseteq CommandNames
  /\ MaxChores \in Nat /\ MaxDrops \in Nat /\ MaxCrashes \in Nat

VARIABLES
  daemon,       \* [Rid -> process state]
  pidf,       \* ids with a pid file
  meta,       \* status in listener.json or tunnel.json, "none" without the file
  mpid,       \* ids whose .json names the pid
  reg,        \* status in resources.json, "none" for an id it does not list
  at, own,    \* control state and locals of each session's command
  upserting,  \* two sessions updated resources.json at once
  orphaned,   \* ids whose starter died before it recorded them
  unlisted,   \* ids whose starter ended without recording them
  calm,       \* sessions no start has run at the same time with
  swept,      \* such a cleanup has said ok, and no start has begun since
  chores, drops, crashes

resourceFiles  == <<pidf, meta, mpid, reg>>
resourceGhosts == <<upserting, orphaned, unlisted, calm, swept>>
resourceBounds == <<chores, drops, crashes>>
resourceVars   == <<daemon, resourceFiles, at, own, resourceGhosts, resourceBounds>>

MetaStatuses == {"none", "starting", "started", "running", "stopped", "stale", "error"}
RegStatuses  == {"none", "active", "stale", "closed", "error"}
Open == {"active", "stale"}

\* plan: what the command has still to do, one task after the other.
Unlisted == [r \in Rid |-> "none"]
NoChore == [cmd |-> "none", plan |-> <<>>, meta |-> "none", pid |-> FALSE, pay |-> "none",
          snap |-> Unlisted, listed |-> {}, active |-> {}]

ResourcesInit ==
  /\ daemon = [r \in Rid |-> "none"] /\ pidf = {} /\ mpid = {}
  /\ meta = [r \in Rid |-> "none"]
  /\ reg = Unlisted
  /\ at = [s \in Keeper |-> "idle"] /\ own = [s \in Keeper |-> NoChore]
  /\ upserting = FALSE /\ orphaned = {} /\ unlisted = {} /\ calm = {} /\ swept = FALSE
  /\ chores = 0 /\ drops = 0 /\ crashes = 0

Lives(r) == daemon[r] \in {"launched", "up"}
-----------------------------------------------------------------------------
(* A command is a sequence of tasks <<what, id>>.                          *)

Do(s)     == Head(own[s].plan)[1]
Target(s) == Head(own[s].plan)[2]
Running(s) == at[s] # "idle"
Targets(s) == {own[s].plan[i][2] : i \in 1..Len(own[s].plan)}
Raising(s) == own[s].cmd \in {"listen", "tunnel", "smoke"}

Go(s, l) == at' = [at EXCEPT ![s] = l]

Opening == [listen |-> "spawn listener", tunnel |-> "stage tunnel", check |-> "read status",
              status |-> "read status", stop |-> "read to stop", record |-> "load",
              list |-> "list", sweep |-> "sweep", verdict |-> "verdict"]

\* Go on with a plan.
Pursue(s, m, plan) ==
  IF plan = <<>>
  THEN /\ Go(s, "idle") /\ own' = [own EXCEPT ![s] = NoChore]
  ELSE /\ Go(s, Opening[Head(plan)[1]]) /\ own' = [own EXCEPT ![s] = [m EXCEPT !.plan = plan]]

Done(s, m) == Pursue(s, [m EXCEPT !.snap = Unlisted], Tail(m.plan))

\* When a start fails the command ends; run_callback_public_smoke still stops
\* what it has begun, the last tasks of its plan.
Fail(s) == LET plan  == own[s].plan
               begun == IF own[s].cmd # "smoke" THEN 0 ELSE IF Do(s) = "tunnel" THEN 2 ELSE 1
           IN Pursue(s, own[s], SubSeq(plan, Len(plan) - begun + 1, Len(plan)))

Fresh(r) == daemon[r] = "none" /\ meta[r] = "none" /\ \A s \in Keeper : r \notin Targets(s)

\* An id is known to the operator when its start has ended or resources.json lists it.
Nameable(r) == meta[r] # "none" /\ \A s \in Keeper : Raising(s) => r \notin Targets(s)

Plan(cmd, l, t) ==
  CASE cmd = "listen"  -> << <<"listen", l>>, <<"record", l>> >>
    [] cmd = "tunnel"  -> << <<"check", l>>, <<"tunnel", t>>, <<"record", t>> >>
    [] cmd = "smoke"   -> << <<"listen", l>>, <<"record", l>>, <<"tunnel", t>>, <<"record", t>>,
                             <<"stop", t>>, <<"stop", l>> >>
    [] cmd = "list"    -> << <<"list", l>> >>
    [] cmd = "cleanup" -> << <<"list", l>>, <<"sweep", l>>, <<"list", l>>, <<"verdict", l>> >>

BeginWith(s, cmd, plan) ==
  /\ at[s] = "idle" /\ chores < MaxChores /\ cmd \in Chores
  /\ chores' = chores + 1
  /\ Pursue(s, [NoChore EXCEPT !.cmd = cmd], plan)
  /\ LET start == cmd \in {"listen", "tunnel", "smoke"} IN
       /\ swept' = (swept /\ ~start)
       /\ calm' = IF start THEN {}
                  ELSE IF \E q \in Keeper : Raising(q) THEN calm \ {s} ELSE calm \cup {s}
  /\ UNCHANGED <<daemon, resourceFiles, upserting, orphaned, unlisted, drops, crashes>>

BeginChore(s) ==
  \/ \E l \in Listener : Fresh(l) /\ BeginWith(s, "listen", Plan("listen", l, l))
  \/ \E l \in Listener, t \in Tunnel : Nameable(l) /\ Fresh(t) /\ BeginWith(s, "tunnel", Plan("tunnel", l, t))
  \/ \E l \in Listener, t \in Tunnel : Fresh(l) /\ Fresh(t) /\ BeginWith(s, "smoke", Plan("smoke", l, t))
  \/ \E r \in Rid : Nameable(r) /\ BeginWith(s, "status", << <<"status", r>> >>)
  \/ \E r \in Rid : Nameable(r) /\ BeginWith(s, "stop", << <<"stop", r>> >>)
  \/ \E cmd \in {"list", "cleanup"} : BeginWith(s, cmd, Plan(cmd, "any", "any"))
-----------------------------------------------------------------------------
(* Starting a listener: the process it launches writes its own files.      *)

SpawnListener(s) ==
  /\ at[s] = "spawn listener"
  /\ daemon' = [daemon EXCEPT ![Target(s)] = "launched"]
  /\ Go(s, "await listener")
  /\ UNCHANGED <<resourceFiles, own, resourceGhosts, resourceBounds>>

\* serve_listener, up to the metadata that names the port.
Serve(r) ==
  /\ r \in Listener /\ daemon[r] = "launched"
  /\ daemon' = [daemon EXCEPT ![r] = "up"]
  /\ pidf' = pidf \cup {r} /\ mpid' = mpid \cup {r}
  /\ meta' = [meta EXCEPT ![r] = "running"]
  /\ UNCHANGED <<reg, at, own, resourceGhosts, resourceBounds>>

AwaitListener(s) ==
  LET l == Target(s) IN
  /\ at[s] = "await listener"
  /\ \/ /\ meta[l] # "none"
        /\ Done(s, [own[s] EXCEPT !.pay = "running"])
        /\ UNCHANGED <<daemon, resourceFiles>>
     \/ /\ daemon' = [daemon EXCEPT ![l] = "gone"]   \* it exited, or took too long
        /\ meta' = [meta EXCEPT ![l] = "error"]
        /\ pidf' = pidf \ {l} /\ mpid' = mpid \ {l}
        /\ Fail(s)
        /\ UNCHANGED reg
  /\ UNCHANGED <<resourceGhosts, resourceBounds>>

(* Starting a tunnel: start_tunnel writes the files.                       *)

StageTunnel(s) ==
  /\ at[s] = "stage tunnel"
  /\ meta' = [meta EXCEPT ![Target(s)] = "starting"]
  /\ Go(s, "spawn tunnel")
  /\ UNCHANGED <<daemon, pidf, mpid, reg, own, resourceGhosts, resourceBounds>>

SpawnTunnel(s) ==
  /\ at[s] = "spawn tunnel"
  /\ daemon' = [daemon EXCEPT ![Target(s)] = "up"]
  /\ Go(s, "tunnel pid")
  /\ UNCHANGED <<resourceFiles, own, resourceGhosts, resourceBounds>>

TunnelPid(s) ==
  /\ at[s] = "tunnel pid"
  /\ pidf' = pidf \cup {Target(s)}
  /\ Go(s, "tunnel json")
  /\ UNCHANGED <<daemon, meta, mpid, reg, own, resourceGhosts, resourceBounds>>

TunnelJson(s) ==
  /\ at[s] = "tunnel json"
  /\ mpid' = mpid \cup {Target(s)}
  /\ meta' = [meta EXCEPT ![Target(s)] = "starting"]
  /\ Go(s, "await tunnel")
  /\ UNCHANGED <<daemon, pidf, reg, own, resourceGhosts, resourceBounds>>

\* A provider that printed no url is sent SIGTERM, which it may not heed.
AwaitTunnel(s) ==
  LET t == Target(s) IN
  /\ at[s] = "await tunnel"
  /\ \/ /\ meta' = [meta EXCEPT ![t] = "started"]
        /\ Done(s, [own[s] EXCEPT !.pay = "started"])
        /\ UNCHANGED <<daemon, pidf, unlisted>>
     \/ /\ daemon' \in {[daemon EXCEPT ![t] = "gone"], daemon}
        /\ meta' = [meta EXCEPT ![t] = "error"]
        /\ pidf' = pidf \ {t}
        /\ unlisted' = unlisted \cup {t}
        /\ Fail(s)
  /\ UNCHANGED <<mpid, reg, upserting, orphaned, calm, swept, resourceBounds>>
-----------------------------------------------------------------------------
(* Status, stop and the update of resources.json that follows both.        *)

ReadStatus(s) ==
  /\ at[s] = "read status"
  /\ own' = [own EXCEPT ![s].meta = meta[Target(s)],
                        ![s].pid = Target(s) \in pidf \cup mpid]
  /\ Go(s, "write status")
  /\ UNCHANGED <<daemon, resourceFiles, resourceGhosts, resourceBounds>>

\* listener_status: a dead listener whose port another process has taken
\* passes for running.  A live one has listened since before its metadata was
\* there; that it answers no connection in time is left out.
ListenerStatus(r, m, pid) ==
  IF pid /\ Lives(r) THEN {"running"}
  ELSE IF m = "running" THEN {"stale", "running"}
  ELSE IF r \in pidf THEN {"stale"} ELSE {m}

\* tunnel_status
TunnelStatus(r, m, pid) ==
  IF pid /\ Lives(r) THEN {IF m = "started" THEN "running" ELSE m}
  ELSE IF m \in {"started", "running"} THEN {"stale"} ELSE {m}

StatusOf(r, m, pid) ==
  IF r \in Listener THEN ListenerStatus(r, m, pid) ELSE TunnelStatus(r, m, pid)

PutStatus(s) ==
  LET r == Target(s) IN
  /\ at[s] = "write status"
  /\ \E st \in StatusOf(r, own[s].meta, own[s].pid) :
       /\ meta' = [meta EXCEPT ![r] = st]
       /\ IF Do(s) = "check"
          THEN IF st = "running" THEN Done(s, own[s]) ELSE Fail(s)
          ELSE Go(s, "context") /\ own' = [own EXCEPT ![s].pay = st, ![s].meta = "none", ![s].pid = FALSE]
  /\ UNCHANGED <<daemon, pidf, mpid, reg, resourceGhosts, resourceBounds>>

ReadToStop(s) ==
  /\ at[s] = "read to stop"
  /\ own' = [own EXCEPT ![s].meta = meta[Target(s)],
                        ![s].pid = Target(s) \in pidf \cup mpid]
  /\ Go(s, IF meta[Target(s)] = "none" THEN "context" ELSE "signal")
  /\ UNCHANGED <<daemon, resourceFiles, resourceGhosts, resourceBounds>>

\* SIGTERM; a listener writes that it stopped, a provider may not heed it.
Signal(s) ==
  LET r == Target(s) IN
  /\ at[s] = "signal"
  /\ IF ~own[s].pid \/ ~Lives(r)
     THEN Go(s, "write stopped") /\ UNCHANGED <<daemon, resourceFiles>>
     ELSE \/ /\ daemon' = [daemon EXCEPT ![r] = "gone"]
             /\ IF r \in Listener
                THEN /\ pidf' = pidf \ {r} /\ meta' = [meta EXCEPT ![r] = "stopped"]
                     /\ UNCHANGED <<mpid, reg>>
                ELSE UNCHANGED resourceFiles
             /\ Go(s, "write stopped")
          \/ Go(s, "kill") /\ UNCHANGED <<daemon, resourceFiles>>
  /\ UNCHANGED <<own, resourceGhosts, resourceBounds>>

\* Faulty: the provider is left to its SIGTERM.
NoKill(r) == daemon

\* SIGKILL when the time is up.
Killed(r) == [daemon EXCEPT ![r] = "gone"]

ForceDown(s) ==
  /\ at[s] = "kill"
  /\ daemon' = Killed(Target(s))
  /\ Go(s, "write stopped")
  /\ UNCHANGED <<resourceFiles, own, resourceGhosts, resourceBounds>>

WriteStopped(s) ==
  LET r == Target(s) IN
  /\ at[s] = "write stopped"
  /\ pidf' = pidf \ {r}
  /\ meta' = [meta EXCEPT ![r] = "stopped"]
  /\ own' = [own EXCEPT ![s].pay = "stopped", ![s].meta = "none", ![s].pid = FALSE]
  /\ Go(s, "context")
  /\ UNCHANGED <<daemon, mpid, reg, resourceGhosts, resourceBounds>>

\* Faulty: a tunnel that is seen running is no status the registry knows.
OnlyStarted(r, st) ==
  CASE st \in {"started", "starting"} -> "active" [] st = "stopped" -> "closed"
    [] st \in {"stale", "none"} -> "stale" [] OTHER -> "error"

\* _callback_resource_status and _tunnel_resource_status
ResourceStatus(r, st) ==
  CASE st \in {"started", "running", "starting"} -> "active" [] st = "stopped" -> "closed"
    [] st \in {"stale", "none"} -> "stale" [] OTHER -> "error"

\* What the command knows of the resource once it has updated it.
Noted(s) ==
  LET st == ResourceStatus(Target(s), own[s].pay) IN
  [own[s] EXCEPT !.listed = IF st \in Open THEN @ ELSE @ \ {Target(s)},
                 !.active = IF st = "active" THEN @ \cup {Target(s)} ELSE @ \ {Target(s)}]

\* update_callback_resource and update_tunnel_resource: nothing is written for
\* an id that resources.json does not list.
Context(s) ==
  /\ at[s] = "context"
  /\ IF reg[Target(s)] = "none" THEN Done(s, own[s])
     ELSE Go(s, "load") /\ UNCHANGED own
  /\ UNCHANGED <<daemon, resourceFiles, resourceGhosts, resourceBounds>>

\* _upsert_resource loads the whole list and writes it back.
Load(s) ==
  /\ at[s] = "load"
  /\ own' = [own EXCEPT ![s].snap = reg]
  /\ upserting' = (upserting \/ \E q \in Keeper : at[q] = "store")
  /\ Go(s, "store")
  /\ UNCHANGED <<daemon, resourceFiles, orphaned, unlisted, calm, swept, resourceBounds>>

Store(s) ==
  /\ at[s] = "store"
  /\ reg' = [own[s].snap EXCEPT ![Target(s)] = ResourceStatus(Target(s), own[s].pay)]
  /\ Done(s, Noted(s))
  /\ UNCHANGED <<daemon, pidf, meta, mpid, resourceGhosts, resourceBounds>>
-----------------------------------------------------------------------------
(* Lists and cleanup.                                                      *)

SeqOf(R) == CHOOSE q \in [1..Cardinality(R) -> R] : \A r \in R : \E i \in DOMAIN q : q[i] = r
Tasks(do, R) == [i \in 1..Cardinality(R) |-> <<do, SeqOf(R)[i]>>]

\* list_contest_resources refreshes every open record.
ListResources(s) ==
  LET R == {r \in Rid : reg[r] \in Open} IN
  /\ at[s] = "list"
  /\ Pursue(s, [own[s] EXCEPT !.listed = R, !.active = {r \in R : reg[r] = "active"}],
            Tasks("status", R) \o Tail(own[s].plan))
  /\ UNCHANGED <<daemon, resourceFiles, resourceGhosts, resourceBounds>>

\* cleanup_contest_resources stops what the refreshed list shows open.
Sweep(s) ==
  /\ at[s] = "sweep"
  /\ Pursue(s, own[s], Tasks("stop", own[s].listed) \o Tail(own[s].plan))
  /\ UNCHANGED <<daemon, resourceFiles, resourceGhosts, resourceBounds>>

Verdict(s) ==
  /\ at[s] = "verdict"
  /\ swept' = (swept \/ (own[s].active = {} /\ s \in calm))
  /\ Done(s, own[s])
  /\ UNCHANGED <<daemon, resourceFiles, upserting, orphaned, unlisted, calm, resourceBounds>>

ChoreStep(s) ==
  \/ SpawnListener(s) \/ AwaitListener(s) \/ StageTunnel(s) \/ SpawnTunnel(s) \/ TunnelPid(s)
  \/ TunnelJson(s) \/ AwaitTunnel(s) \/ ReadStatus(s) \/ PutStatus(s) \/ ReadToStop(s)
  \/ Signal(s) \/ ForceDown(s) \/ WriteStopped(s) \/ Context(s) \/ Load(s) \/ Store(s)
  \/ ListResources(s) \/ Sweep(s) \/ Verdict(s)

Drop(s) ==
  /\ Running(s) /\ drops < MaxDrops
  /\ drops' = drops + 1
  /\ orphaned' = orphaned \cup {r \in Rid : Raising(s) /\ r \in Targets(s) /\ reg[r] = "none"}
  /\ Go(s, "idle") /\ own' = [own EXCEPT ![s] = NoChore]
  /\ UNCHANGED <<daemon, resourceFiles, upserting, unlisted, calm, swept, chores, crashes>>

Crash(r) ==
  /\ Lives(r) /\ crashes < MaxCrashes
  /\ daemon' = [daemon EXCEPT ![r] = "gone"]
  /\ crashes' = crashes + 1
  /\ UNCHANGED <<resourceFiles, at, own, resourceGhosts, chores, drops>>

ResourcesNext == \/ \E s \in Keeper : BeginChore(s) \/ ChoreStep(s) \/ Drop(s)
        \/ \E r \in Rid : Serve(r) \/ Crash(r)

ResourcesSpec == ResourcesInit /\ [][ResourcesNext]_resourceVars
-----------------------------------------------------------------------------
(* Properties.                                                             *)

(* The values every variable takes. *)
ResourcesTypeOK ==
  /\ daemon \in [Rid -> {"none", "launched", "up", "gone"}]
  /\ meta \in [Rid -> MetaStatuses] /\ reg \in [Rid -> RegStatuses]
  /\ pidf \subseteq Rid /\ mpid \subseteq Rid
  /\ \A s \in Keeper : own[s].listed \cup own[s].active \subseteq Rid
  /\ orphaned \subseteq Rid /\ unlisted \subseteq Rid /\ calm \subseteq Keeper
  /\ upserting \in BOOLEAN /\ swept \in BOOLEAN

(* What resources.json calls closed or in error does not run, in every       *)
(* interleaving of commands, crashes and lost updates: cleanup never looks   *)
(* at such a record again (contest_resources.OPEN_STATUSES).                 *)
ClosedIsDead == \A r \in Rid : reg[r] \in {"closed", "error"} => ~Lives(r)

(* A listener or tunnel that runs is listed as open, unless its starter has  *)
(* not finished, died or gave up on it, or two sessions rewrote resources.   *)
(* json at once: then cleanup would leave it (contest_resources._upsert_     *)
(* resource, cli._cmd_tunnel_start).                                         *)
LiveIsListed ==
  upserting \/ \A r \in Rid :
    Lives(r) => \/ reg[r] \in Open \/ r \in orphaned \cup unlisted
                \/ \E s \in Keeper : Raising(s) /\ r \in Targets(s)

(* A cleanup that says ok leaves nothing running of what was started before, *)
(* with the same exceptions (contest_resources.cleanup_contest_resources).   *)
SweptClean == swept /\ ~upserting => \A r \in Rid : Lives(r) => r \in orphaned \cup unlisted

(* resources.json accounts for every listener and tunnel that runs, and a    *)
(* cleanup leaves none (contest_resources.py).                               *)
ResourcesAccounted == ClosedIsDead /\ LiveIsListed /\ SweptClean
=============================================================================
