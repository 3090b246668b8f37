-------------------------- MODULE ResourcesProofs --------------------------
(***************************************************************************)
(* Proofs about what a contest runs beside its workers.                    *)
(* Resources, for every set of sessions, listeners and tunnels and any     *)
(* number of commands, deaths and crashes: resources.json accounts for     *)
(* every listener and tunnel that runs, and a cleanup that says ok leaves  *)
(* none.  A command is followed through what is left of its plan.          *)
(* DockerPool, for every set of runners and slots and any number of        *)
(* commands, deaths and failures of the daemon: type correctness, that     *)
(* containers.json accounts for what runs, that a cleanup that says ok     *)
(* leaves nothing running, and that a start removes no container that      *)
(* runs.                                                                   *)
(***************************************************************************)
EXTENDS MCContest, ContestProofs, FiniteSetTheorems, TLAPS

-----------------------------------------------------------------------------
(* Callback listeners and tunnels: the plans of the sessions.              *)

\* The tasks of a command, with the id each is about.
Todo == ({"listen", "check"} \X Listener) \cup ({"tunnel"} \X Tunnel)
        \cup ({"record", "status", "stop"} \X Rid) \cup ({"list", "sweep", "verdict"} \X {"any"})

\* What a session knows of its command.
Chore == [cmd : {"none"} \cup CommandNames, plan : Seq(Todo), meta : MetaStatuses, pid : BOOLEAN,
          pay : MetaStatuses, snap : [Rid -> RegStatuses], listed : SUBSET Rid, active : SUBSET Rid]

\* The control states of a session.
Points == {"idle", "spawn listener", "await listener", "stage tunnel", "spawn tunnel", "tunnel pid",
           "tunnel json", "await tunnel", "read status", "write status", "read to stop", "signal", "kill",
           "write stopped", "context", "load", "store", "list", "sweep", "verdict"}

\* The values of the variables, the locals included.
Typed ==
  /\ daemon \in [Rid -> {"none", "launched", "up", "gone"}]
  /\ meta \in [Rid -> MetaStatuses] /\ reg \in [Rid -> RegStatuses]
  /\ pidf \subseteq Rid /\ mpid \subseteq Rid
  /\ own \in [Keeper -> Chore] /\ at \in [Keeper -> Points]
  /\ orphaned \subseteq Rid /\ unlisted \subseteq Rid /\ calm \subseteq Keeper
  /\ upserting \in BOOLEAN /\ swept \in BOOLEAN

\* The tasks of a plan.
TaskOf(p) == {p[i] : i \in 1..Len(p)}

\* The control states of a task.
LabelsOf(do) ==
  CASE do = "listen" -> {"spawn listener", "await listener"}
    [] do = "tunnel" -> {"stage tunnel", "spawn tunnel", "tunnel pid", "tunnel json", "await tunnel"}
    [] do = "check"  -> {"read status", "write status"}
    [] do = "status" -> {"read status", "write status", "context", "load", "store"}
    [] do = "stop"   -> {"read to stop", "signal", "kill", "write stopped", "context", "load", "store"}
    [] do = "record" -> {"load", "store"}
    [] OTHER         -> {do}

\* p is the last part of f.
Suffix(p, f) == Len(p) <= Len(f) /\ \A i \in 1..Len(p) : p[i] = f[Len(f) - Len(p) + i]

\* The commands that start something.
StartCommands == {"listen", "tunnel", "smoke"}

\* A plan that starts nothing: a verdict comes last, a sweep before a list.
Ordered(p, cmd) ==
  \A i \in 1..Len(p) :
    /\ p[i][1] \in {"status", "stop", "list", "sweep", "verdict"}
    /\ p[i][1] = "verdict" => i = Len(p) /\ cmd = "cleanup"
    /\ p[i][1] = "sweep" => i < Len(p) /\ p[i + 1][1] = "list"

\* What is left of a command: of a start, the end of the plan it had.
GoodPlan(p, cmd) ==
  IF cmd \in StartCommands
  THEN \E k \in Listener, t \in Rid : (cmd # "listen" => t \in Tunnel) /\ Suffix(p, Plan(cmd, k, t))
  ELSE Ordered(p, cmd)

\* A session that runs is at its plan's first task.
WellPlanned(o, l) ==
  IF l = "idle" THEN o = NoChore
  ELSE /\ o.plan # <<>> /\ l \in LabelsOf(Head(o.plan)[1]) /\ o.cmd \in CommandNames
       /\ GoodPlan(o.plan, o.cmd)

\* So is every session.
Planned == \A s \in Keeper : WellPlanned(own[s], at[s])

\* r is in the plan of s with task do; s will record it, or has yet to start
\* it; s is at a task of it.
Has(s, do, r) == <<do, r>> \in TaskOf(own[s].plan)
Pending(s, r) == Has(s, "record", r)
Coming(s, r) == Has(s, "listen", r) \/ Has(s, "tunnel", r)
Uses(s, r) == at[s] # "idle" /\ Target(s) = r

\* r is in a registry a session knows.
Noticed(r) ==
  \/ reg[r] # "none"
  \/ \E q \in Keeper : own[q].snap[r] # "none" \/ r \in own[q].listed \cup own[q].active
\* Someone but its starter may already act on r.
Touched(r) == Noticed(r) \/ \E q \in Keeper : at[q] \in {"load", "store"} /\ Target(q) = r

\* The statuses under which a process that lives is found active.
Well == {"running", "started"}
\* What the files of a known id say while its process lives: a pid to signal,
\* and a status that counts as active.
SoundBase(r) ==
  /\ r \in mpid /\ meta[r] # "none" /\ daemon[r] # "none"
  /\ Lives(r) => daemon[r] = "up" /\ meta[r] \in Well
\* What a session busy with r holds agrees with that.
Handled(q, r) ==
  Uses(q, r) =>
    /\ at[q] \in {"write status", "signal", "kill", "write stopped"} => own[q].pid
    /\ at[q] = "write status" => own[q].meta # "none" /\ (Lives(r) => own[q].meta \in Well)
    /\ at[q] \in {"context", "load", "store"} /\ Lives(r) => own[q].pay \in Well
    /\ at[q] = "write stopped" => ~Lives(r)

\* An id anyone acts on has sound files, and sound readers.
Soundness == \A r \in Rid : Touched(r) => SoundBase(r) /\ \A q \in Keeper : Handled(q, r)

\* How far the process and the files of r are while s starts it.
Scene(s, r) ==
  /\ ~Uses(s, r) \/ at[s] = "spawn listener" => daemon[r] = "none" /\ meta[r] = "none"
  /\ Uses(s, r) =>
       /\ at[s] = "await listener" =>
            \/ daemon[r] \in {"launched", "gone"} /\ meta[r] = "none"
            \/ daemon[r] \in {"up", "gone"} /\ meta[r] = "running" /\ r \in mpid
       /\ at[s] \in {"stage tunnel", "spawn tunnel"} => daemon[r] = "none"
       /\ at[s] \in {"tunnel pid", "tunnel json"} => daemon[r] \in {"up", "gone"}
       /\ at[s] = "await tunnel" => daemon[r] \in {"up", "gone"} /\ r \in mpid

\* Until its starter records it an id is in no registry and in no other plan.
Owned ==
  \A s \in Keeper, r \in Rid :
    /\ Pending(s, r) => ~Noticed(r) /\ \A q \in Keeper \ {s} : r \notin Targets(q)
    /\ Coming(s, r) => Scene(s, r)

\* What is closed, in resources.json or in a copy about to be written back, is
\* dead.
Shut == \A r \in Rid : /\ reg[r] \in {"closed", "error"} => ~Lives(r)
                       /\ \A q \in Keeper : own[q].snap[r] \in {"closed", "error"} => ~Lives(r)

\* Ids whose starter died or gave up before it recorded them.
Excused == orphaned \cup unlisted
\* LiveIsListed, with the starter about to record.
ListedLive ==
  ~upserting => \A r \in Rid : Lives(r) => reg[r] \in Open \/ r \in Excused \/ \E s \in Keeper : Pending(s, r)

\* Unless two sessions update at once, the one that does holds what is on file.
Alone ==
  /\ \A q \in Keeper : at[q] # "store" => own[q].snap = Unlisted
  /\ ~upserting => \A q \in Keeper : at[q] = "store" =>
       own[q].snap = reg /\ \A p \in Keeper \ {q} : at[p] # "store"

\* A cleanup past its sweep and its second list.
LastPass(o) == o.cmd = "cleanup" /\ \A x \in TaskOf(o.plan) : x[1] \notin {"list", "sweep"}
\* A cleanup no start ran beside still sees all that lives: as active, or among
\* those whose status it has yet to read.
Calm ==
  /\ calm # {} \/ swept => \A q \in Keeper : ~Raising(q)
  /\ ~upserting => \A s \in calm : LastPass(own[s]) =>
       \A r \in Rid : Lives(r) => r \in Excused \/ r \in own[s].active \/ Has(s, "status", r)
  /\ SweptClean

\* The invariant.
ResInv == Typed /\ Planned /\ Owned /\ Soundness /\ Shut /\ ListedLive /\ Alone /\ Calm
-----------------------------------------------------------------------------
\* A task and its id.
LEMMA TaskTypes ==
  ASSUME NEW x \in Todo
  PROVE /\ x = <<x[1], x[2]>>
        /\ x[1] \in {"listen", "check", "tunnel", "record", "status", "stop", "list", "sweep", "verdict"}
        /\ x[1] \in {"listen", "check"} => x[2] \in Listener
        /\ x[1] = "tunnel" => x[2] \in Tunnel
        /\ x[1] \in {"record", "status", "stop"} => x[2] \in Rid
  BY DEF Todo

\* Where each task begins.
LEMMA Openings ==
  /\ Opening["listen"] = "spawn listener" /\ Opening["tunnel"] = "stage tunnel"
  /\ Opening["check"] = "read status" /\ Opening["status"] = "read status"
  /\ Opening["stop"] = "read to stop" /\ Opening["record"] = "load"
  /\ Opening["list"] = "list" /\ Opening["sweep"] = "sweep" /\ Opening["verdict"] = "verdict"
  BY DEF Opening

\* The first task and the others.
LEMMA Pop ==
  ASSUME NEW p \in Seq(Todo), p # <<>>
  PROVE /\ Tail(p) \in Seq(Todo) /\ Len(Tail(p)) = Len(p) - 1 /\ Head(p) = p[1] /\ Head(p) \in TaskOf(p)
        /\ \A i \in 1..(Len(p) - 1) : Tail(p)[i] = p[i + 1]
        /\ TaskOf(Tail(p)) \subseteq TaskOf(p)
        /\ \A x \in TaskOf(p) : x = Head(p) \/ x \in TaskOf(Tail(p))
        /\ TaskOf(p) \subseteq Todo
  <1>1. Tail(p) \in Seq(Todo) /\ Len(Tail(p)) = Len(p) - 1 /\ Head(p) = p[1] /\ Len(p) \in Nat /\ Len(p) > 0
    OBVIOUS
  <1>2. \A i \in 1..(Len(p) - 1) : Tail(p)[i] = p[i + 1]
    OBVIOUS
  <1>3. Head(p) \in TaskOf(p)
    BY <1>1 DEF TaskOf
  <1>4. TaskOf(p) \subseteq Todo
    BY DEF TaskOf
  <1>5. ASSUME NEW x \in TaskOf(Tail(p))
        PROVE x \in TaskOf(p)
    <2>1. PICK i \in 1..(Len(p) - 1) : x = Tail(p)[i]
      BY <1>1 DEF TaskOf
    <2>2. i + 1 \in 1..Len(p) /\ x = p[i + 1]
      BY <1>1, <1>2, <2>1
    <2> QED
      BY <2>2 DEF TaskOf
  <1>6. ASSUME NEW x \in TaskOf(p)
        PROVE x = Head(p) \/ x \in TaskOf(Tail(p))
    <2>1. PICK i \in 1..Len(p) : x = p[i]
      BY DEF TaskOf
    <2>2. CASE i = 1
      BY <1>1, <2>1, <2>2
    <2>3. CASE i # 1
      <3>1. i - 1 \in 1..(Len(p) - 1) /\ (i - 1) + 1 = i
        BY <1>1, <2>3
      <3>2. x = Tail(p)[i - 1]
        BY <1>2, <2>1, <3>1
      <3> QED
        BY <1>1, <3>1, <3>2 DEF TaskOf
    <2> QED
      BY <2>2, <2>3
  <1> QED
    BY <1>1, <1>2, <1>3, <1>4, <1>5, <1>6

\* A plan without tasks.
LEMMA Empty == TaskOf(<<>>) = {} /\ \A q \in Seq(Todo) : Len(q) = 0 => q = <<>>
  BY DEF TaskOf

\* The tasks of two plans, one after the other.
LEMMA Joined ==
  ASSUME NEW p \in Seq(Todo), NEW q \in Seq(Todo)
  PROVE /\ p \o q \in Seq(Todo) /\ Len(p \o q) = Len(p) + Len(q)
        /\ \A i \in 1..Len(p) : (p \o q)[i] = p[i]
        /\ \A i \in 1..Len(q) : (p \o q)[Len(p) + i] = q[i]
        /\ TaskOf(p \o q) = TaskOf(p) \cup TaskOf(q)
  <1>1. p \o q \in Seq(Todo) /\ Len(p \o q) = Len(p) + Len(q) /\ Len(p) \in Nat /\ Len(q) \in Nat
    OBVIOUS
  <1>2. \A i \in 1..Len(p) : (p \o q)[i] = p[i]
    OBVIOUS
  <1>3. \A i \in 1..Len(q) : (p \o q)[Len(p) + i] = q[i]
    OBVIOUS
  <1>4. ASSUME NEW x \in TaskOf(p \o q)
        PROVE x \in TaskOf(p) \cup TaskOf(q)
    <2>1. PICK i \in 1..(Len(p) + Len(q)) : x = (p \o q)[i]
      BY <1>1 DEF TaskOf
    <2>2. CASE i \in 1..Len(p)
      BY <1>2, <2>1, <2>2 DEF TaskOf
    <2>3. CASE i \notin 1..Len(p)
      <3>1. i - Len(p) \in 1..Len(q) /\ Len(p) + (i - Len(p)) = i
        BY <1>1, <2>3
      <3>2. x = q[i - Len(p)]
        BY <1>3, <2>1, <3>1
      <3> QED
        BY <3>1, <3>2 DEF TaskOf
    <2> QED
      BY <2>2, <2>3
  <1>5. ASSUME NEW x \in TaskOf(p)
        PROVE x \in TaskOf(p \o q)
    <2>1. PICK i \in 1..Len(p) : x = p[i]
      BY DEF TaskOf
    <2>2. i \in 1..Len(p \o q) /\ x = (p \o q)[i]
      BY <1>1, <1>2, <2>1
    <2> QED
      BY <2>2 DEF TaskOf
  <1>6. ASSUME NEW x \in TaskOf(q)
        PROVE x \in TaskOf(p \o q)
    <2>1. PICK i \in 1..Len(q) : x = q[i]
      BY DEF TaskOf
    <2>2. Len(p) + i \in 1..Len(p \o q) /\ x = (p \o q)[Len(p) + i]
      BY <1>1, <1>3, <2>1
    <2> QED
      BY <2>2 DEF TaskOf
  <1> QED
    BY <1>1, <1>2, <1>3, <1>4, <1>5, <1>6

\* The tasks of a refresh or sweep are one for each id.
LEMMA Listing ==
  ASSUME NEW do \in {"status", "stop"}, NEW R \in SUBSET Rid
  PROVE /\ Tasks(do, R) \in Seq(Todo)
        /\ TaskOf(Tasks(do, R)) = {<<do, r>> : r \in R}
  <1>1. IsFiniteSet(R)
    BY ResourcesAssumption, FS_Union, FS_Subset DEF Rid
  <1>4. Cardinality(R) \in Nat
    BY <1>1, FS_CardinalityType
  <1>2. PICK q \in [1..Cardinality(R) -> R] : \A r \in R : \E i \in DOMAIN q : q[i] = r
    <2>1. PICK n \in Nat : ExistsBijection(1..n, R)
      BY <1>1, FS_NatBijection
    <2>2. n = Cardinality(R)
      BY <2>1, FS_CountingElements
    <2> QED
      BY <2>1, <2>2 DEF ExistsBijection, Bijection, Injection, Surjection
  <1>3. /\ SeqOf(R) \in [1..Cardinality(R) -> R]
        /\ \A r \in R : \E i \in DOMAIN SeqOf(R) : SeqOf(R)[i] = r
    BY <1>2 DEF SeqOf
  <1>5. PICK n \in Nat : n = Cardinality(R)
    BY <1>4
  <1>6. PICK f \in [1..n -> R] : f = SeqOf(R) /\ \A r \in R : \E i \in 1..n : f[i] = r
    BY <1>3, <1>5
  <1>7. Tasks(do, R) = [i \in 1..n |-> <<do, f[i]>>]
    BY <1>5, <1>6 DEF Tasks
  <1>8. \A r \in R : <<do, r>> \in Todo
    BY DEF Todo
  <1>9. Tasks(do, R) \in Seq(Todo) /\ Len(Tasks(do, R)) = n
    BY <1>7, <1>8
  <1>10. \A i \in 1..n : Tasks(do, R)[i] = <<do, f[i]>>
    BY <1>7
  <1>11. ASSUME NEW x \in TaskOf(Tasks(do, R))
         PROVE x \in {<<do, r>> : r \in R}
    BY <1>9, <1>10 DEF TaskOf
  <1>12. ASSUME NEW r \in R
         PROVE <<do, r>> \in TaskOf(Tasks(do, R))
    <2>1. PICK i \in 1..n : f[i] = r
      BY <1>6
    <2>2. Tasks(do, R)[i] = <<do, r>>
      BY <1>10, <2>1
    <2> QED
      BY <1>9, <2>2 DEF TaskOf
  <1> QED
    BY <1>9, <1>11, <1>12

-----------------------------------------------------------------------------
\* Session s has come to label l with o.
TurnsTo(s, o, l) ==
  /\ o \in Chore /\ l \in Points
  /\ own' = [own EXCEPT ![s] = o] /\ at' = [at EXCEPT ![s] = l]

\* It goes on with plan p, knowing what m says.
Follows(o, l, m, p) ==
  IF p = <<>> THEN o = NoChore /\ l = "idle"
  ELSE /\ o.plan = p /\ o.cmd = m.cmd /\ o.meta = m.meta /\ o.pid = m.pid /\ o.pay = m.pay
       /\ o.snap = m.snap /\ o.listed = m.listed /\ o.active = m.active
       /\ l = Opening[Head(p)[1]]

\* The locals of a session at rest.
LEMMA NoChoreTyped == NoChore \in Chore /\ NoChore.plan = <<>> /\ NoChore.snap = Unlisted
                      /\ NoChore.cmd = "none" /\ NoChore.listed = {} /\ NoChore.active = {}
  <1>1. Unlisted \in [Rid -> RegStatuses]
    BY DEF Unlisted, RegStatuses
  <1>2. "none" \in MetaStatuses /\ <<>> \in Seq(Todo) /\ FALSE \in BOOLEAN
    BY DEF MetaStatuses
  <1> QED
    BY <1>1, <1>2 DEF NoChore, Chore

\* Going on with a plan is a turn that follows it.
LEMMA Pursued ==
  ASSUME Typed, NEW s \in Keeper, NEW m \in Chore, NEW p \in Seq(Todo), Pursue(s, m, p)
  PROVE \E o, l : TurnsTo(s, o, l) /\ Follows(o, l, m, p)
  <1>1. CASE p = <<>>
    BY <1>1, NoChoreTyped DEF Pursue, Go, TurnsTo, Follows, Points
  <1>2. CASE p # <<>>
    <2>1. Head(p) \in Todo
      BY <1>2, Pop
    <2>2. Opening[Head(p)[1]] \in Points
      BY <2>1, TaskTypes, Openings DEF Points
    <2>3. PICK o : o = [m EXCEPT !.plan = p]
      OBVIOUS
    <2>4. /\ o \in Chore /\ o.plan = p /\ o.cmd = m.cmd /\ o.meta = m.meta /\ o.pid = m.pid /\ o.pay = m.pay
          /\ o.snap = m.snap /\ o.listed = m.listed /\ o.active = m.active
      BY <2>3 DEF Chore
    <2>5. own' = [own EXCEPT ![s] = o] /\ at' = [at EXCEPT ![s] = Opening[Head(p)[1]]]
      BY <1>2, <2>3 DEF Pursue, Go
    <2> QED
      BY <1>2, <2>2, <2>4, <2>5 DEF TurnsTo, Follows
  <1> QED
    BY <1>1, <1>2

-----------------------------------------------------------------------------
\* A running session is at its first task.
LEMMA AtWork ==
  ASSUME Typed, Planned, NEW s \in Keeper, at[s] # "idle"
  PROVE /\ own[s] \in Chore /\ own[s].plan \in Seq(Todo) /\ own[s].plan # <<>>
        /\ Head(own[s].plan) = <<Do(s), Target(s)>> /\ Head(own[s].plan) \in Todo
        /\ Head(own[s].plan) \in TaskOf(own[s].plan) /\ TaskOf(own[s].plan) \subseteq Todo
        /\ at[s] \in LabelsOf(Do(s)) /\ own[s].cmd \in CommandNames /\ Target(s) \in Targets(s)
  <1>1. own[s] \in Chore /\ own[s].plan \in Seq(Todo)
    BY DEF Typed, Chore
  <1>2. own[s].plan # <<>> /\ at[s] \in LabelsOf(Head(own[s].plan)[1]) /\ own[s].cmd \in CommandNames
    BY DEF Planned, WellPlanned
  <1>3. Head(own[s].plan) \in Todo /\ Head(own[s].plan) \in TaskOf(own[s].plan) /\ TaskOf(own[s].plan) \subseteq Todo
    BY <1>1, <1>2, Pop
  <1>4. Head(own[s].plan) = <<Do(s), Target(s)>>
    BY <1>3, TaskTypes DEF Do, Target
  <1>5. Target(s) \in Targets(s)
    BY <1>3 DEF TaskOf, Targets, Target
  <1> QED
    BY <1>1, <1>2, <1>3, <1>4, <1>5 DEF Do

\* What a session at a label is doing.
LEMMA Doing ==
  ASSUME Typed, Planned, NEW s \in Keeper, at[s] # "idle"
  PROVE /\ at[s] \in {"spawn listener", "await listener"} => Do(s) = "listen" /\ Target(s) \in Listener
        /\ at[s] \in {"stage tunnel", "spawn tunnel", "tunnel pid", "tunnel json", "await tunnel"}
             => Do(s) = "tunnel" /\ Target(s) \in Tunnel
        /\ at[s] \in {"read status", "write status"} => Do(s) \in {"check", "status"} /\ Target(s) \in Rid
        /\ at[s] \in {"read to stop", "signal", "kill", "write stopped"} => Do(s) = "stop" /\ Target(s) \in Rid
        /\ at[s] = "context" => Do(s) \in {"status", "stop"} /\ Target(s) \in Rid
        /\ at[s] \in {"load", "store"} => Do(s) \in {"status", "stop", "record"} /\ Target(s) \in Rid
        /\ at[s] \in {"list", "sweep", "verdict"} => Do(s) = at[s] /\ Target(s) = "any"
        /\ Do(s) \in {"listen", "tunnel", "check", "status", "stop", "record"} => Target(s) \in Rid
  <1>1. <<Do(s), Target(s)>> \in Todo /\ at[s] \in LabelsOf(Do(s))
    BY AtWork
  <1>2. PICK d, x : d = Do(s) /\ x = Target(s)
    OBVIOUS
  <1>3. <<d, x>> \in Todo /\ at[s] \in LabelsOf(d)
    BY <1>1, <1>2
  <1>4. /\ d \in {"listen", "check", "tunnel", "record", "status", "stop", "list", "sweep", "verdict"}
        /\ d \in {"listen", "check"} => x \in Listener
        /\ d = "tunnel" => x \in Tunnel
        /\ d \in {"record", "status", "stop"} => x \in Rid
        /\ d \in {"list", "sweep", "verdict"} => x = "any"
    BY <1>3 DEF Todo
  <1>5. Listener \subseteq Rid /\ Tunnel \subseteq Rid
    BY DEF Rid
  <1> QED
    BY <1>2, <1>3, <1>4, <1>5 DEF LabelsOf

-----------------------------------------------------------------------------
\* What the rest of the plan of a start looks like: its head h, its tasks S,
\* whether there are more, the next one g and the tasks R without the head.
CourseOf(h, S, more, g, R) ==
  /\ h[1] \in {"listen", "check", "tunnel", "record", "stop"}
  /\ \A r \in Rid :
       /\ <<"listen", r>> \in S \/ <<"tunnel", r>> \in S
            => <<"record", r>> \in S /\ (h[2] = r => h[1] \in {"listen", "tunnel"})
       /\ <<"record", r>> \in S => h = <<"record", r>> \/ <<"listen", r>> \in S \/ <<"tunnel", r>> \in S
       /\ h[1] = "tunnel" /\ <<"record", r>> \in S => r = h[2]
  /\ h[1] \in {"listen", "tunnel"} =>
       /\ more /\ g = <<"record", h[2]>>
       /\ <<"listen", h[2]>> \notin R /\ <<"tunnel", h[2]>> \notin R
  /\ h[1] = "record" => <<"record", h[2]>> \notin R /\ (more => g[1] \in {"tunnel", "stop"})
  /\ h[1] = "stop" => \A x \in S : x[1] = "stop"
  /\ h[1] = "check" => more /\ g[1] = "tunnel"

\* The same of plan p.
Course(p) == CourseOf(Head(p), TaskOf(p), Tail(p) # <<>>, Head(Tail(p)), TaskOf(Tail(p)))

\* The tasks of f from the j-th on.
Rest(f, j) == {f[i] : i \in j..Len(f)}

\* A last part of f is f from some task on.
LEMMA Position ==
  ASSUME NEW p \in Seq(Todo), p # <<>>, NEW f \in Seq(Todo), Suffix(p, f)
  PROVE \E j \in 1..Len(f) :
          /\ Len(p) = Len(f) - j + 1
          /\ Head(p) = f[j] /\ TaskOf(p) = Rest(f, j)
          /\ TaskOf(Tail(p)) = Rest(f, j + 1)
          /\ j = Len(f) => Tail(p) = <<>>
          /\ j # Len(f) => Tail(p) # <<>> /\ Head(Tail(p)) = f[j + 1]
          /\ Suffix(Tail(p), f)
  <1>1. Len(p) \in Nat /\ Len(p) > 0 /\ Tail(p) \in Seq(Todo) /\ Len(Tail(p)) = Len(p) - 1 /\ Head(p) = p[1]
        /\ \A i \in 1..(Len(p) - 1) : Tail(p)[i] = p[i + 1]
    BY Pop
  <1>2. Len(p) <= Len(f) /\ Len(f) \in Nat /\ \A i \in 1..Len(p) : p[i] = f[Len(f) - Len(p) + i]
    BY DEF Suffix
  <1>3. PICK n, m : n = Len(p) /\ m = Len(f) /\ n \in Nat /\ m \in Nat /\ n > 0 /\ n <= m
    BY <1>1, <1>2
  <1>4. PICK q : q = Tail(p)
    OBVIOUS
  <1>5. \A i \in 1..n : p[i] = f[m - n + i]
    BY <1>2, <1>3
  <1>6. \A i \in 1..(n - 1) : q[i] = p[i + 1]
    BY <1>1, <1>3, <1>4
  <1>7. \A i \in 1..(n - 1) : q[i] = f[m - n + 1 + i]
    <2> SUFFICES ASSUME NEW i \in 1..(n - 1)
                 PROVE q[i] = f[m - n + 1 + i]
      OBVIOUS
    <2>1. i + 1 \in 1..n /\ m - n + (i + 1) = m - n + 1 + i
      BY <1>3
    <2> QED
      BY <1>5, <1>6, <2>1
  <1>8. TaskOf(p) = Rest(f, m - n + 1)
    <2>1. TaskOf(p) = {p[i] : i \in 1..n}
      BY <1>3 DEF TaskOf
    <2>2. ASSUME NEW i \in 1..n
          PROVE \E j \in (m - n + 1)..m : p[i] = f[j]
      <3>1. m - n + i \in (m - n + 1)..m
        BY <1>3
      <3> QED
        BY <1>5, <3>1
    <2>3. ASSUME NEW j \in (m - n + 1)..m
          PROVE \E i \in 1..n : p[i] = f[j]
      <3>1. j - (m - n) \in 1..n /\ m - n + (j - (m - n)) = j
        BY <1>3
      <3> QED
        BY <1>5, <3>1
    <2>4. ASSUME NEW x \in TaskOf(p)
          PROVE x \in Rest(f, m - n + 1)
      <3>1. PICK i \in 1..n : x = p[i]
        BY <2>1
      <3> QED
        BY <1>3, <2>2, <3>1 DEF Rest
    <2>5. ASSUME NEW x \in Rest(f, m - n + 1)
          PROVE x \in TaskOf(p)
      <3>1. PICK j \in (m - n + 1)..m : x = f[j]
        BY <1>3 DEF Rest
      <3> QED
        BY <2>1, <2>3, <3>1
    <2> QED
      BY <2>4, <2>5
  <1>9. TaskOf(q) = Rest(f, m - n + 2)
    <2>1. TaskOf(q) = {q[i] : i \in 1..(n - 1)}
      BY <1>1, <1>3, <1>4 DEF TaskOf
    <2>2. ASSUME NEW i \in 1..(n - 1)
          PROVE \E j \in (m - n + 2)..m : q[i] = f[j]
      <3>1. m - n + 1 + i \in (m - n + 2)..m
        BY <1>3
      <3> QED
        BY <1>7, <3>1
    <2>3. ASSUME NEW j \in (m - n + 2)..m
          PROVE \E i \in 1..(n - 1) : q[i] = f[j]
      <3>1. j - (m - n + 1) \in 1..(n - 1) /\ m - n + 1 + (j - (m - n + 1)) = j
        BY <1>3
      <3> QED
        BY <1>7, <3>1
    <2>4. ASSUME NEW x \in TaskOf(q)
          PROVE x \in Rest(f, m - n + 2)
      <3>1. PICK i \in 1..(n - 1) : x = q[i]
        BY <2>1
      <3> QED
        BY <1>3, <2>2, <3>1 DEF Rest
    <2>5. ASSUME NEW x \in Rest(f, m - n + 2)
          PROVE x \in TaskOf(q)
      <3>1. PICK j \in (m - n + 2)..m : x = f[j]
        BY <1>3 DEF Rest
      <3> QED
        BY <2>1, <2>3, <3>1
    <2> QED
      BY <2>4, <2>5
  <1>10. Suffix(q, f)
    <2>1. Len(q) = n - 1 /\ Len(q) <= m
      BY <1>1, <1>3, <1>4
    <2>2. \A i \in 1..(n - 1) : m - n + 1 + i = m - (n - 1) + i
      BY <1>3
    <2> QED
      BY <1>3, <1>7, <2>1, <2>2 DEF Suffix
  <1>11. m - n + 1 \in 1..m /\ (m - n + 1) + 1 = m - n + 2 /\ n = m - (m - n + 1) + 1
    BY <1>3
  <1>12. Head(p) = f[m - n + 1]
    <2>1. 1 \in 1..n
      BY <1>3
    <2> QED
      BY <1>1, <1>5, <2>1
  <1>13. m - n + 1 = m => q = <<>>
    <2>1. m - n + 1 = m => Len(q) = 0
      BY <1>1, <1>3, <1>4
    <2> QED
      BY <1>1, <1>4, <2>1
  <1>14. m - n + 1 # m => q # <<>> /\ Head(q) = f[m - n + 2]
    <2> SUFFICES ASSUME m - n + 1 # m
                 PROVE q # <<>> /\ Head(q) = f[m - n + 2]
      OBVIOUS
    <2>1. Len(q) = n - 1 /\ n - 1 > 0 /\ 1 \in 1..(n - 1)
      BY <1>1, <1>3, <1>4
    <2>2. q \in Seq(Todo) /\ q # <<>>
      BY <1>1, <1>4, <2>1
    <2>3. Head(q) = q[1]
      BY <2>2
    <2>4. q[1] = f[m - n + 1 + 1] /\ m - n + 1 + 1 = m - n + 2
      BY <1>3, <1>7, <2>1
    <2> QED
      BY <2>2, <2>3, <2>4
  <1> QED
    BY <1>3, <1>4, <1>8, <1>9, <1>10, <1>11, <1>12, <1>13, <1>14

\* So every last part of a start's plan runs its course: the tasks of each plan
\* are gone through one by one.
LEMMA Courses ==
  ASSUME NEW p \in Seq(Todo), p # <<>>, NEW cmd \in StartCommands, NEW k \in Listener, NEW t \in Rid,
         cmd # "listen" => t \in Tunnel, Suffix(p, Plan(cmd, k, t))
  PROVE Course(p)
  <1>0. k \in Rid /\ t \in Rid /\ (cmd # "listen" => k # t /\ t \in Tunnel)
    BY ResourcesAssumption DEF Rid
  <1>1. CASE cmd = "listen"
    <2>1. PICK f : f = << <<"listen", k>>, <<"record", k>> >>
      OBVIOUS
    <2>2. f = Plan(cmd, k, t)
      BY <1>1, <2>1 DEF Plan
    <2>3. f \in Seq(Todo) /\ Len(f) = 2
      BY <1>0, <2>1 DEF Todo
    <2>4. f[1] = <<"listen", k>> /\ f[2] = <<"record", k>>
      BY <2>1
    <2>5. PICK j \in 1..2 :
            /\ Head(p) = f[j] /\ TaskOf(p) = Rest(f, j) /\ TaskOf(Tail(p)) = Rest(f, j + 1)
            /\ j = 2 => Tail(p) = <<>>
            /\ j # 2 => Tail(p) # <<>> /\ Head(Tail(p)) = f[j + 1]
      BY <2>2, <2>3, Position
    <2>6. CASE j = 1
      <3>1. Rest(f, 1) = {<<"listen", k>>, <<"record", k>>}
        <4>1. 1..2 = {1, 2}
          OBVIOUS
        <4> QED
          BY <2>3, <2>4, <4>1 DEF Rest
      <3>2. Rest(f, 2) = {<<"record", k>>}
        <4>1. 2..2 = {2}
          OBVIOUS
        <4> QED
          BY <2>3, <2>4, <4>1 DEF Rest
      <3>3. Tail(p) # <<>> /\ Head(Tail(p)) = <<"record", k>>
        BY <2>4, <2>5, <2>6
      <3>4. CourseOf(<<"listen", k>>, {<<"listen", k>>, <<"record", k>>}, TRUE,
                     <<"record", k>>, {<<"record", k>>})
        BY <1>0 DEF CourseOf
      <3>5. /\ Head(p) = <<"listen", k>>
            /\ TaskOf(p) = {<<"listen", k>>, <<"record", k>>}
            /\ TaskOf(Tail(p)) = {<<"record", k>>}
        BY <2>4, <2>5, <2>6, <3>1, <3>2
      <3> QED
        BY <3>3, <3>4, <3>5 DEF Course
    <2>7. CASE j = 2
      <3>1. Rest(f, 2) = {<<"record", k>>}
        <4>1. 2..2 = {2}
          OBVIOUS
        <4> QED
          BY <2>3, <2>4, <4>1 DEF Rest
      <3>2. Rest(f, 3) = {}
        <4>1. 3..2 = {}
          OBVIOUS
        <4> QED
          BY <2>3, <2>4, <4>1 DEF Rest
      <3>3. Tail(p) = <<>>
        BY <2>4, <2>5, <2>7
      <3>4. CourseOf(<<"record", k>>, {<<"record", k>>}, FALSE, Head(Tail(p)), {})
        BY <1>0 DEF CourseOf
      <3>5. Head(p) = <<"record", k>> /\ TaskOf(p) = {<<"record", k>>} /\ TaskOf(Tail(p)) = {}
        BY <2>4, <2>5, <2>7, <3>1, <3>2
      <3> QED
        BY <3>3, <3>4, <3>5 DEF Course
    <2> QED
      BY <2>5, <2>6, <2>7
  <1>2. CASE cmd = "tunnel"
    <2>0. k \in Rid /\ t \in Rid /\ k # t /\ t \in Tunnel
      BY <1>0, <1>2
    <2>1. PICK f : f = << <<"check", k>>, <<"tunnel", t>>, <<"record", t>> >>
      OBVIOUS
    <2>2. f = Plan(cmd, k, t)
      BY <1>2, <2>1 DEF Plan
    <2>3. f \in Seq(Todo) /\ Len(f) = 3
      BY <2>0, <2>1 DEF Todo
    <2>4. f[1] = <<"check", k>> /\ f[2] = <<"tunnel", t>> /\ f[3] = <<"record", t>>
      BY <2>1
    <2>5. PICK j \in 1..3 :
            /\ Head(p) = f[j] /\ TaskOf(p) = Rest(f, j) /\ TaskOf(Tail(p)) = Rest(f, j + 1)
            /\ j = 3 => Tail(p) = <<>>
            /\ j # 3 => Tail(p) # <<>> /\ Head(Tail(p)) = f[j + 1]
      BY <2>2, <2>3, Position
    <2>6. CASE j = 1
      <3>1. Rest(f, 1) = {<<"check", k>>, <<"tunnel", t>>, <<"record", t>>}
        <4>1. 1..3 = {1, 2, 3}
          OBVIOUS
        <4> QED
          BY <2>3, <2>4, <4>1 DEF Rest
      <3>2. Rest(f, 2) = {<<"tunnel", t>>, <<"record", t>>}
        <4>1. 2..3 = {2, 3}
          OBVIOUS
        <4> QED
          BY <2>3, <2>4, <4>1 DEF Rest
      <3>3. Tail(p) # <<>> /\ Head(Tail(p)) = <<"tunnel", t>>
        BY <2>4, <2>5, <2>6
      <3>4. CourseOf(<<"check", k>>, {<<"check", k>>, <<"tunnel", t>>, <<"record", t>>}, TRUE,
                     <<"tunnel", t>>, {<<"tunnel", t>>, <<"record", t>>})
        BY <2>0 DEF CourseOf
      <3>5. /\ Head(p) = <<"check", k>>
            /\ TaskOf(p) = {<<"check", k>>, <<"tunnel", t>>, <<"record", t>>}
            /\ TaskOf(Tail(p)) = {<<"tunnel", t>>, <<"record", t>>}
        BY <2>4, <2>5, <2>6, <3>1, <3>2
      <3> QED
        BY <3>3, <3>4, <3>5 DEF Course
    <2>7. CASE j = 2
      <3>1. Rest(f, 2) = {<<"tunnel", t>>, <<"record", t>>}
        <4>1. 2..3 = {2, 3}
          OBVIOUS
        <4> QED
          BY <2>3, <2>4, <4>1 DEF Rest
      <3>2. Rest(f, 3) = {<<"record", t>>}
        <4>1. 3..3 = {3}
          OBVIOUS
        <4> QED
          BY <2>3, <2>4, <4>1 DEF Rest
      <3>3. Tail(p) # <<>> /\ Head(Tail(p)) = <<"record", t>>
        BY <2>4, <2>5, <2>7
      <3>4. CourseOf(<<"tunnel", t>>, {<<"tunnel", t>>, <<"record", t>>}, TRUE,
                     <<"record", t>>, {<<"record", t>>})
        BY <2>0 DEF CourseOf
      <3>5. /\ Head(p) = <<"tunnel", t>>
            /\ TaskOf(p) = {<<"tunnel", t>>, <<"record", t>>}
            /\ TaskOf(Tail(p)) = {<<"record", t>>}
        BY <2>4, <2>5, <2>7, <3>1, <3>2
      <3> QED
        BY <3>3, <3>4, <3>5 DEF Course
    <2>8. CASE j = 3
      <3>1. Rest(f, 3) = {<<"record", t>>}
        <4>1. 3..3 = {3}
          OBVIOUS
        <4> QED
          BY <2>3, <2>4, <4>1 DEF Rest
      <3>2. Rest(f, 4) = {}
        <4>1. 4..3 = {}
          OBVIOUS
        <4> QED
          BY <2>3, <2>4, <4>1 DEF Rest
      <3>3. Tail(p) = <<>>
        BY <2>4, <2>5, <2>8
      <3>4. CourseOf(<<"record", t>>, {<<"record", t>>}, FALSE, Head(Tail(p)), {})
        BY <2>0 DEF CourseOf
      <3>5. Head(p) = <<"record", t>> /\ TaskOf(p) = {<<"record", t>>} /\ TaskOf(Tail(p)) = {}
        BY <2>4, <2>5, <2>8, <3>1, <3>2
      <3> QED
        BY <3>3, <3>4, <3>5 DEF Course
    <2> QED
      BY <2>5, <2>6, <2>7, <2>8
  <1>3. CASE cmd = "smoke"
    <2> DEFINE Lk == <<"listen", k>>
               Rk == <<"record", k>>
               Tt == <<"tunnel", t>>
               Rt == <<"record", t>>
               St == <<"stop", t>>
               Sk == <<"stop", k>>
    <2>0. k \in Rid /\ t \in Rid /\ k # t /\ t \in Tunnel
      BY <1>0, <1>3
    <2>1. PICK f : f = << Lk, Rk, Tt, Rt, St, Sk >>
      OBVIOUS
    <2>2. f = Plan(cmd, k, t)
      BY <1>3, <2>1 DEF Plan
    <2>3. f \in Seq(Todo) /\ Len(f) = 6
      BY <2>0, <2>1 DEF Todo
    <2>4. f[1] = Lk /\ f[2] = Rk /\ f[3] = Tt /\ f[4] = Rt /\ f[5] = St /\ f[6] = Sk
      BY <2>1
    <2>5. PICK j \in 1..6 :
            /\ Head(p) = f[j] /\ TaskOf(p) = Rest(f, j) /\ TaskOf(Tail(p)) = Rest(f, j + 1)
            /\ j = 6 => Tail(p) = <<>>
            /\ j # 6 => Tail(p) # <<>> /\ Head(Tail(p)) = f[j + 1]
      BY <2>2, <2>3, Position
    <2>6. CASE j = 1
      <3>1. Rest(f, 1) = {Lk, Rk, Tt, Rt, St, Sk}
        <4>1. 1..6 = {1, 2, 3, 4, 5, 6}
          OBVIOUS
        <4> QED
          BY <2>3, <2>4, <4>1 DEF Rest
      <3>2. Rest(f, 2) = {Rk, Tt, Rt, St, Sk}
        <4>1. 2..6 = {2, 3, 4, 5, 6}
          OBVIOUS
        <4> QED
          BY <2>3, <2>4, <4>1 DEF Rest
      <3>3. Tail(p) # <<>> /\ Head(Tail(p)) = Rk
        BY <2>4, <2>5, <2>6
      <3>4. CourseOf(Lk, {Lk, Rk, Tt, Rt, St, Sk}, TRUE, Rk, {Rk, Tt, Rt, St, Sk})
        BY <2>0 DEF CourseOf
      <3>5. Head(p) = Lk /\ TaskOf(p) = {Lk, Rk, Tt, Rt, St, Sk} /\ TaskOf(Tail(p)) = {Rk, Tt, Rt, St, Sk}
        BY <2>4, <2>5, <2>6, <3>1, <3>2
      <3> QED
        BY <3>3, <3>4, <3>5 DEF Course
    <2>7. CASE j = 2
      <3>1. Rest(f, 2) = {Rk, Tt, Rt, St, Sk}
        <4>1. 2..6 = {2, 3, 4, 5, 6}
          OBVIOUS
        <4> QED
          BY <2>3, <2>4, <4>1 DEF Rest
      <3>2. Rest(f, 3) = {Tt, Rt, St, Sk}
        <4>1. 3..6 = {3, 4, 5, 6}
          OBVIOUS
        <4> QED
          BY <2>3, <2>4, <4>1 DEF Rest
      <3>3. Tail(p) # <<>> /\ Head(Tail(p)) = Tt
        BY <2>4, <2>5, <2>7
      <3>4. CourseOf(Rk, {Rk, Tt, Rt, St, Sk}, TRUE, Tt, {Tt, Rt, St, Sk})
        BY <2>0 DEF CourseOf
      <3>5. Head(p) = Rk /\ TaskOf(p) = {Rk, Tt, Rt, St, Sk} /\ TaskOf(Tail(p)) = {Tt, Rt, St, Sk}
        BY <2>4, <2>5, <2>7, <3>1, <3>2
      <3> QED
        BY <3>3, <3>4, <3>5 DEF Course
    <2>8. CASE j = 3
      <3>1. Rest(f, 3) = {Tt, Rt, St, Sk}
        <4>1. 3..6 = {3, 4, 5, 6}
          OBVIOUS
        <4> QED
          BY <2>3, <2>4, <4>1 DEF Rest
      <3>2. Rest(f, 4) = {Rt, St, Sk}
        <4>1. 4..6 = {4, 5, 6}
          OBVIOUS
        <4> QED
          BY <2>3, <2>4, <4>1 DEF Rest
      <3>3. Tail(p) # <<>> /\ Head(Tail(p)) = Rt
        BY <2>4, <2>5, <2>8
      <3>4. CourseOf(Tt, {Tt, Rt, St, Sk}, TRUE, Rt, {Rt, St, Sk})
        BY <2>0 DEF CourseOf
      <3>5. Head(p) = Tt /\ TaskOf(p) = {Tt, Rt, St, Sk} /\ TaskOf(Tail(p)) = {Rt, St, Sk}
        BY <2>4, <2>5, <2>8, <3>1, <3>2
      <3> QED
        BY <3>3, <3>4, <3>5 DEF Course
    <2>9. CASE j = 4
      <3>1. Rest(f, 4) = {Rt, St, Sk}
        <4>1. 4..6 = {4, 5, 6}
          OBVIOUS
        <4> QED
          BY <2>3, <2>4, <4>1 DEF Rest
      <3>2. Rest(f, 5) = {St, Sk}
        <4>1. 5..6 = {5, 6}
          OBVIOUS
        <4> QED
          BY <2>3, <2>4, <4>1 DEF Rest
      <3>3. Tail(p) # <<>> /\ Head(Tail(p)) = St
        BY <2>4, <2>5, <2>9
      <3>4. CourseOf(Rt, {Rt, St, Sk}, TRUE, St, {St, Sk})
        BY <2>0 DEF CourseOf
      <3>5. Head(p) = Rt /\ TaskOf(p) = {Rt, St, Sk} /\ TaskOf(Tail(p)) = {St, Sk}
        BY <2>4, <2>5, <2>9, <3>1, <3>2
      <3> QED
        BY <3>3, <3>4, <3>5 DEF Course
    <2>10. CASE j = 5
      <3>1. Rest(f, 5) = {St, Sk}
        <4>1. 5..6 = {5, 6}
          OBVIOUS
        <4> QED
          BY <2>3, <2>4, <4>1 DEF Rest
      <3>2. Rest(f, 6) = {Sk}
        <4>1. 6..6 = {6}
          OBVIOUS
        <4> QED
          BY <2>3, <2>4, <4>1 DEF Rest
      <3>3. Tail(p) # <<>> /\ Head(Tail(p)) = Sk
        BY <2>4, <2>5, <2>10
      <3>4. CourseOf(St, {St, Sk}, TRUE, Sk, {Sk})
        BY <2>0 DEF CourseOf
      <3>5. Head(p) = St /\ TaskOf(p) = {St, Sk} /\ TaskOf(Tail(p)) = {Sk}
        BY <2>4, <2>5, <2>10, <3>1, <3>2
      <3> QED
        BY <3>3, <3>4, <3>5 DEF Course
    <2>11. CASE j = 6
      <3>1. Rest(f, 6) = {Sk}
        <4>1. 6..6 = {6}
          OBVIOUS
        <4> QED
          BY <2>3, <2>4, <4>1 DEF Rest
      <3>2. Rest(f, 7) = {}
        <4>1. 7..6 = {}
          OBVIOUS
        <4> QED
          BY <2>3, <2>4, <4>1 DEF Rest
      <3>3. Tail(p) = <<>>
        BY <2>4, <2>5, <2>11
      <3>4. CourseOf(Sk, {Sk}, FALSE, Head(Tail(p)), {})
        BY <2>0 DEF CourseOf
      <3>5. Head(p) = Sk /\ TaskOf(p) = {Sk} /\ TaskOf(Tail(p)) = {}
        BY <2>4, <2>5, <2>11, <3>1, <3>2
      <3> QED
        BY <3>3, <3>4, <3>5 DEF Course
    <2> QED
      BY <2>5, <2>6, <2>7, <2>8, <2>9, <2>10, <2>11
  <1> QED
    BY <1>1, <1>2, <1>3 DEF StartCommands

-----------------------------------------------------------------------------
\* The plan of a start is a sequence of tasks.
LEMMA PlanTyped ==
  ASSUME NEW cmd \in StartCommands, NEW k \in Listener, NEW t \in Rid, cmd # "listen" => t \in Tunnel
  PROVE Plan(cmd, k, t) \in Seq(Todo)
  <1>0. k \in Rid /\ t \in Rid
    BY DEF Rid
  <1>1. CASE cmd = "listen"
    BY <1>0, <1>1 DEF Plan, Todo
  <1>2. CASE cmd = "tunnel"
    BY <1>0, <1>2 DEF Plan, Todo
  <1>3. CASE cmd = "smoke"
    BY <1>0, <1>3 DEF Plan, Todo
  <1> QED
    BY <1>1, <1>2, <1>3 DEF StartCommands

\* What is left of a plan once its first task is done is a plan.
LEMMA TailGood ==
  ASSUME NEW p \in Seq(Todo), p # <<>>, NEW cmd \in CommandNames, GoodPlan(p, cmd)
  PROVE GoodPlan(Tail(p), cmd)
  <1>1. CASE cmd \in StartCommands
    <2>1. PICK k \in Listener, t \in Rid : (cmd # "listen" => t \in Tunnel) /\ Suffix(p, Plan(cmd, k, t))
      BY <1>1 DEF GoodPlan
    <2>2. Suffix(Tail(p), Plan(cmd, k, t))
      BY <1>1, <2>1, PlanTyped, Position
    <2> QED
      BY <1>1, <2>1, <2>2 DEF GoodPlan
  <1>2. CASE cmd \notin StartCommands
    <2>1. Ordered(p, cmd)
      BY <1>2 DEF GoodPlan
    <2>6. Len(p) \in Nat /\ Len(p) > 0 /\ Len(Tail(p)) = Len(p) - 1
          /\ \A i \in 1..(Len(p) - 1) : Tail(p)[i] = p[i + 1]
      BY Pop
    <2>5. PICK q, n : q = Tail(p) /\ n = Len(p)
      OBVIOUS
    <2>2. /\ q = Tail(p) /\ n = Len(p) /\ n \in Nat /\ n > 0 /\ Len(q) = n - 1
          /\ \A i \in 1..(n - 1) : q[i] = p[i + 1]
      BY <2>5, <2>6
    <2>3. ASSUME NEW i \in 1..(n - 1)
          PROVE /\ q[i][1] \in {"status", "stop", "list", "sweep", "verdict"}
                /\ q[i][1] = "verdict" => i = n - 1 /\ cmd = "cleanup"
                /\ q[i][1] = "sweep" => i < n - 1 /\ q[i + 1][1] = "list"
      <3>1. i + 1 \in 1..n /\ q[i] = p[i + 1]
        BY <2>2
      <3>2. /\ p[i + 1][1] \in {"status", "stop", "list", "sweep", "verdict"}
            /\ p[i + 1][1] = "verdict" => i + 1 = n /\ cmd = "cleanup"
            /\ p[i + 1][1] = "sweep" => i + 1 < n /\ p[i + 1 + 1][1] = "list"
        BY <2>1, <2>2, <3>1 DEF Ordered
      <3>3. i + 1 < n => i + 1 \in 1..(n - 1) /\ q[i + 1] = p[i + 1 + 1]
        BY <2>2
      <3> QED
        BY <2>2, <3>1, <3>2, <3>3
    <2>7. Len(q) = n - 1
      BY <2>2
    <2>4. Ordered(q, cmd)
      BY <2>3, <2>7 DEF Ordered
    <2> QED
      BY <1>2, <2>2, <2>4 DEF GoodPlan
  <1> QED
    BY <1>1, <1>2

\* The last tasks of a sequence.
LEMMA LastOnes ==
  ASSUME NEW p \in Seq(Todo), NEW b \in Nat, b <= Len(p)
  PROVE /\ SubSeq(p, Len(p) - b + 1, Len(p)) \in Seq(Todo)
        /\ Len(SubSeq(p, Len(p) - b + 1, Len(p))) = b
        /\ \A i \in 1..b : SubSeq(p, Len(p) - b + 1, Len(p))[i] = p[Len(p) - b + i]
  <1>1. PICK n \in Nat : n = Len(p)
    OBVIOUS
  <1>2. SubSeq(p, n - b + 1, n) = [i \in 1..b |-> p[n - b + i]]
    BY <1>1
  <1>3. \A i \in 1..b : n - b + i \in 1..n
    BY <1>1
  <1>4. \A i \in 1..b : p[n - b + i] \in Todo
    BY <1>1, <1>3
  <1>5. [i \in 1..b |-> p[n - b + i]] \in Seq(Todo) /\ Len([i \in 1..b |-> p[n - b + i]]) = b
    BY <1>4
  <1> QED
    BY <1>1, <1>2, <1>5

\* What a start that fails still does: it stops what it began.
LEMMA FailGood ==
  ASSUME NEW p \in Seq(Todo), p # <<>>, NEW cmd \in StartCommands, GoodPlan(p, cmd),
         Head(p)[1] \in {"listen", "check", "tunnel"}, NEW b \in Nat,
         cmd # "smoke" => b = 0, cmd = "smoke" => b \in {1, 2},
         NEW q, q = SubSeq(p, Len(p) - b + 1, Len(p))
  PROVE q \in Seq(Todo) /\ GoodPlan(q, cmd) /\ \A x \in TaskOf(q) : x \in TaskOf(p) /\ x[1] = "stop"
  <1>1. PICK k \in Listener, t \in Rid : (cmd # "listen" => t \in Tunnel) /\ Suffix(p, Plan(cmd, k, t))
    BY DEF GoodPlan
  <1>2. Course(p)
    BY <1>1, Courses
  <1>3. Tail(p) # <<>>
    BY <1>2 DEF Course, CourseOf
  <1>4. PICK n \in Nat : n = Len(p) /\ n >= 2
    <2>1. Len(Tail(p)) = Len(p) - 1 /\ Tail(p) \in Seq(Todo)
      BY Pop
    <2>2. Len(Tail(p)) # 0
      BY <1>3, <2>1, Empty
    <2>3. Len(p) \in Nat /\ Len(Tail(p)) \in Nat
      BY <2>1
    <2>4. Len(p) >= 2
      BY <2>1, <2>2, <2>3
    <2> QED
      BY <2>3, <2>4
  <1>5. b <= n
    BY <1>4
  <1>6. q \in Seq(Todo) /\ Len(q) = b /\ \A i \in 1..b : q[i] = p[n - b + i]
    BY <1>4, <1>5, LastOnes
  <1>7. PICK f : f = Plan(cmd, k, t) /\ f \in Seq(Todo)
    BY <1>1, PlanTyped
  <1>8. PICK m \in Nat : m = Len(f) /\ n <= m /\ \A i \in 1..n : p[i] = f[m - n + i]
    BY <1>1, <1>4, <1>7 DEF Suffix
  <1>9. ASSUME NEW i \in 1..b
        PROVE q[i] = f[m - b + i] /\ q[i] \in TaskOf(p)
    <2>1. n - b + i \in 1..n /\ m - n + (n - b + i) = m - b + i
      BY <1>4, <1>5
    <2> QED
      BY <1>4, <1>6, <1>8, <2>1 DEF TaskOf
  <1>10. Suffix(q, f)
    <2>1. b <= m
      BY <1>4, <1>5, <1>8
    <2> QED
      BY <1>6, <1>8, <1>9, <2>1 DEF Suffix
  <1>11. ASSUME NEW i \in 1..b
         PROVE q[i][1] = "stop"
    <2>1. cmd = "smoke"
      BY <1>11
    <2>2. m = 6 /\ f[5] = <<"stop", t>> /\ f[6] = <<"stop", k>>
      BY <1>7, <1>8, <2>1 DEF Plan
    <2>3. m - b + i \in {5, 6}
      BY <2>1, <2>2
    <2>4. q[i] = f[m - b + i]
      BY <1>9
    <2>5. f[m - b + i] \in {f[5], f[6]}
      BY <2>3
    <2>6. f[5][1] = "stop" /\ f[6][1] = "stop"
      BY <2>2
    <2> QED
      BY <2>4, <2>5, <2>6
  <1>12. \A x \in TaskOf(q) : x \in TaskOf(p) /\ x[1] = "stop"
    BY <1>6, <1>9, <1>11 DEF TaskOf
  <1> QED
    BY <1>1, <1>6, <1>7, <1>10, <1>12 DEF GoodPlan

\* A refreshed or swept list, in front of what is left of the plan.
LEMMA ListGood ==
  ASSUME NEW p \in Seq(Todo), p # <<>>, NEW cmd \in CommandNames, cmd \notin StartCommands, GoodPlan(p, cmd),
         NEW do \in {"status", "stop"}, NEW R \in SUBSET Rid
  PROVE /\ Tasks(do, R) \o Tail(p) \in Seq(Todo) /\ GoodPlan(Tasks(do, R) \o Tail(p), cmd)
        /\ TaskOf(Tasks(do, R) \o Tail(p)) = {<<do, r>> : r \in R} \cup TaskOf(Tail(p))
  <1>1. Ordered(Tail(p), cmd)
    BY TailGood DEF GoodPlan
  <1>2. PICK a, c : a = Tasks(do, R) /\ c = Tail(p) /\ a \in Seq(Todo) /\ c \in Seq(Todo)
                    /\ TaskOf(a) = {<<do, r>> : r \in R}
    BY Pop, Listing
  <1>8. PICK e : e = a \o c
    OBVIOUS
  <1>3.          /\ e = a \o c /\ e \in Seq(Todo) /\ Len(e) = Len(a) + Len(c)
                 /\ \A i \in 1..Len(a) : e[i] = a[i]
                 /\ \A i \in 1..Len(c) : e[Len(a) + i] = c[i]
                 /\ TaskOf(e) = TaskOf(a) \cup TaskOf(c)
    <2>1. a \in Seq(Todo) /\ c \in Seq(Todo)
      BY <1>2
    <2>2. /\ a \o c \in Seq(Todo) /\ Len(a \o c) = Len(a) + Len(c)
          /\ \A i \in 1..Len(a) : (a \o c)[i] = a[i]
          /\ \A i \in 1..Len(c) : (a \o c)[Len(a) + i] = c[i]
          /\ TaskOf(a \o c) = TaskOf(a) \cup TaskOf(c)
      BY <2>1, Joined
    <2> QED
      BY <1>8, <2>2
  <1>4. PICK n, m : n = Len(a) /\ m = Len(c) /\ n \in Nat /\ m \in Nat
    BY <1>2
  <1>5. \A i \in 1..n : e[i][1] = do
    <2>1. \A x \in TaskOf(a) : x[1] = do
      BY <1>2
    <2> QED
      BY <1>3, <1>4, <2>1 DEF TaskOf
  <1>6. ASSUME NEW i \in 1..(n + m)
        PROVE /\ e[i][1] \in {"status", "stop", "list", "sweep", "verdict"}
              /\ e[i][1] = "verdict" => i = n + m /\ cmd = "cleanup"
              /\ e[i][1] = "sweep" => i < n + m /\ e[i + 1][1] = "list"
    <2>1. CASE i \in 1..n
      BY <1>5, <2>1
    <2>2. CASE i \notin 1..n
      <3>1. i - n \in 1..m /\ n + (i - n) = i
        BY <1>4, <2>2
      <3>2. e[i] = c[i - n]
        BY <1>3, <1>4, <3>1
      <3>3. /\ c[i - n][1] \in {"status", "stop", "list", "sweep", "verdict"}
            /\ c[i - n][1] = "verdict" => i - n = m /\ cmd = "cleanup"
            /\ c[i - n][1] = "sweep" => i - n < m /\ c[i - n + 1][1] = "list"
        BY <1>1, <1>2, <1>4, <3>1 DEF Ordered
      <3>4. i - n < m => i - n + 1 \in 1..m /\ n + (i - n + 1) = i + 1 /\ e[i + 1] = c[i - n + 1]
        BY <1>3, <1>4, <3>1
      <3> QED
        BY <1>4, <3>1, <3>2, <3>3, <3>4
    <2> QED
      BY <2>1, <2>2
  <1>7. Ordered(e, cmd)
    BY <1>3, <1>4, <1>6 DEF Ordered
  <1> QED
    BY <1>2, <1>3, <1>7 DEF GoodPlan

-----------------------------------------------------------------------------
\* A session at rest has no tasks.
LEMMA Idle ==
  ASSUME Planned, NEW s \in Keeper, at[s] = "idle"
  PROVE own[s] = NoChore /\ TaskOf(own[s].plan) = {} /\ Targets(s) = {}
  <1>1. own[s] = NoChore
    BY DEF Planned, WellPlanned
  <1>2. own[s].plan = <<>>
    BY <1>1, NoChoreTyped
  <1>3. TaskOf(own[s].plan) = {}
    BY <1>2, Empty
  <1>4. Targets(s) = {}
    BY <1>2 DEF Targets
  <1> QED
    BY <1>1, <1>3, <1>4

\* The ids of a plan are those of its tasks.
LEMMA Aims ==
  ASSUME NEW s, NEW x \in TaskOf(own[s].plan)
  PROVE x[2] \in Targets(s)
  BY DEF TaskOf, Targets

\* The tasks of a start, and those of the other commands.
LEMMA Errand ==
  ASSUME Typed, Planned, NEW s \in Keeper, at[s] # "idle"
  PROVE /\ own[s].cmd \in StartCommands => Course(own[s].plan)
        /\ own[s].cmd \notin StartCommands =>
             \A x \in TaskOf(own[s].plan) : x[1] \in {"status", "stop", "list", "sweep", "verdict"}
  <1>1. GoodPlan(own[s].plan, own[s].cmd)
    BY DEF Planned, WellPlanned
  <1>2. own[s].plan \in Seq(Todo) /\ own[s].plan # <<>>
    BY AtWork
  <1>3. own[s].cmd \in StartCommands => Course(own[s].plan)
    BY <1>1, <1>2, Courses DEF GoodPlan
  <1>4. ASSUME own[s].cmd \notin StartCommands, NEW x \in TaskOf(own[s].plan)
        PROVE x[1] \in {"status", "stop", "list", "sweep", "verdict"}
    BY <1>1, <1>4 DEF GoodPlan, Ordered, TaskOf
  <1> QED
    BY <1>3, <1>4

\* Who has yet to start an id will record it, and who will record it is a start
\* that is at the record or has yet to start it.
LEMMA StartFacts ==
  ASSUME Typed, Planned, NEW s \in Keeper, NEW r \in Rid
  PROVE /\ Coming(s, r) => Pending(s, r) /\ (Target(s) = r => Do(s) \in {"listen", "tunnel"})
        /\ Pending(s, r) => /\ Raising(s) /\ at[s] # "idle" /\ r \in Targets(s)
                            /\ (Do(s) = "record" /\ Target(s) = r) \/ Coming(s, r)
                            /\ Do(s) = "tunnel" => r = Target(s)
  <1>1. CASE at[s] = "idle"
    BY <1>1, Idle DEF Coming, Pending, Has
  <1>2. CASE at[s] # "idle"
    <2>1. Pending(s, r) => r \in Targets(s)
      BY Aims DEF Pending, Has
    <2>2. Head(own[s].plan) = <<Do(s), Target(s)>>
      BY <1>2, AtWork
    <2>3. CASE own[s].cmd \in StartCommands
      <3>1. Course(own[s].plan)
        BY <1>2, <2>3, Errand
      <3> QED
        BY <1>2, <2>1, <2>2, <2>3, <3>1 DEF Course, CourseOf, Coming, Pending, Has, Raising, StartCommands
    <2>4. CASE own[s].cmd \notin StartCommands
      <3>1. \A x \in TaskOf(own[s].plan) : x[1] \in {"status", "stop", "list", "sweep", "verdict"}
        BY <1>2, <2>4, Errand
      <3> QED
        BY <3>1 DEF Coming, Pending, Has
    <2> QED
      BY <2>3, <2>4
  <1> QED
    BY <1>1, <1>2

\* A task of a start is only found in a start.
LEMMA StartTask ==
  ASSUME Typed, Planned, NEW s \in Keeper, at[s] # "idle", Do(s) \in {"listen", "check", "tunnel", "record"}
  PROVE Raising(s) /\ own[s].cmd \in StartCommands /\ Course(own[s].plan)
  <1>1. Head(own[s].plan) = <<Do(s), Target(s)>> /\ Head(own[s].plan) \in TaskOf(own[s].plan)
    BY AtWork
  <1>2. own[s].cmd \in StartCommands
    BY <1>1, Errand
  <1> QED
    BY <1>2, Errand DEF Raising, StartCommands

\* Before its starter is done nobody else knows the id.
LEMMA NotYet ==
  ASSUME Typed, Planned, Owned, NEW s \in Keeper, at[s] # "idle", Do(s) \in {"listen", "tunnel"}
  PROVE /\ Coming(s, Target(s)) /\ Pending(s, Target(s)) /\ Scene(s, Target(s)) /\ Uses(s, Target(s))
        /\ ~Touched(Target(s)) /\ Target(s) \in Rid /\ \A q \in Keeper \ {s} : Target(s) \notin Targets(q)
  <1>1. PICK r : r = Target(s) /\ r \in Rid
    BY Doing
  <1>2. Coming(s, r)
    BY <1>1, AtWork DEF Coming, Has
  <1>3. Pending(s, r)
    BY <1>1, <1>2, StartFacts
  <1>4. ~Noticed(r) /\ Scene(s, r) /\ \A q \in Keeper \ {s} : r \notin Targets(q)
    BY <1>1, <1>2, <1>3 DEF Owned
  <1>5. ASSUME NEW q \in Keeper, at[q] \in {"load", "store"}, Target(q) = r
        PROVE FALSE
    <2>1. at[q] # "idle"
      BY <1>5
    <2>2. q = s
      BY <1>4, <1>5, <2>1, AtWork
    <2> QED
      BY <1>5, <2>1, <2>2, Doing
  <1> QED
    BY <1>1, <1>2, <1>3, <1>4, <1>5 DEF Touched, Uses
-----------------------------------------------------------------------------
\* Where a session is between two tasks.
Beginnings == {"idle", "spawn listener", "stage tunnel", "read status", "read to stop", "load", "list",
               "sweep", "verdict"}

\* What a step of session s does to the session.
Moves(s, o, l) ==
  /\ TurnsTo(s, o, l) /\ WellPlanned(o, l) /\ o.cmd \in {own[s].cmd, "none"}
  /\ \A x \in TaskOf(o.plan) :
       \/ x \in TaskOf(own[s].plan)
       \/ x[1] \in {"status", "stop"} /\ x[2] \in Rid /\ Noticed(x[2])
  /\ \A r \in Rid : o.snap[r] # "none" => Noticed(r)
  /\ \A r \in o.listed \cup o.active : Noticed(r) \/ (at[s] = "store" /\ r = Target(s))
  /\ \/ o.plan = own[s].plan
     \/ l \in Beginnings /\ (l = "load" => Head(o.plan)[2] = Target(s))

\* It leaves alone what it is not busy with.
Local(s) ==
  /\ \A r \in Rid \ {Target(s)} :
       daemon'[r] = daemon[r] /\ meta'[r] = meta[r] /\ (r \in mpid' <=> r \in mpid)
  /\ \A r \in Rid : reg'[r] # "none" => Noticed(r) \/ (at[s] = "store" /\ r = Target(s))

\* What it does to r, which it is busy with.
Careful(s, l, r) ==
  /\ at[s] = "store" => ~Pending(s, r)'
  /\ Coming(s, r)' => Scene(s, r)'
  /\ l \in {"load", "store"} => Touched(r) \/ (SoundBase(r)' /\ Handled(s, r)' /\ Pending(s, r))
  /\ Touched(r) => SoundBase(r)' /\ Handled(s, r)' /\ (Lives(r)' => Lives(r))

\* A step of s that keeps plans and files in order.
Lawful(s, o, l) == Moves(s, o, l) /\ Local(s) /\ \A r \in Rid : r = Target(s) => Careful(s, l, r)

\* A turn of s changes no other session.
LEMMA Turned ==
  ASSUME Typed, NEW s \in Keeper, NEW o, NEW l, TurnsTo(s, o, l)
  PROVE /\ own'[s] = o /\ at'[s] = l /\ own' \in [Keeper -> Chore] /\ at' \in [Keeper -> Points]
        /\ \A q \in Keeper \ {s} : own'[q] = own[q] /\ at'[q] = at[q]
  BY DEF Typed, TurnsTo

\* Turning to a good plan keeps every plan good.
LEMMA PlansKept ==
  ASSUME Typed, Planned, NEW s \in Keeper, NEW o, NEW l, TurnsTo(s, o, l), WellPlanned(o, l)
  PROVE Planned'
  <1> SUFFICES ASSUME NEW q \in Keeper
               PROVE WellPlanned(own'[q], at'[q])
    BY DEF Planned
  <1> QED
    BY Turned DEF Planned

\* No step makes a start have more to start or record.
LEMMA PendingKept ==
  ASSUME Typed, Planned, NEW s \in Keeper, NEW o, NEW l, Moves(s, o, l), NEW p \in Keeper, NEW r \in Rid
  PROVE /\ Pending(p, r)' => Pending(p, r)
        /\ Coming(p, r)' => Coming(p, r)
        /\ p # s => (Pending(p, r) => Pending(p, r)')
        /\ Raising(p)' => Raising(p)
  <1>1. own'[s] = o /\ \A q \in Keeper \ {s} : own'[q] = own[q]
    BY Turned DEF Moves
  <1>2. CASE p # s
    BY <1>1, <1>2 DEF Pending, Coming, Has, Raising
  <1>3. CASE p = s
    <2>1. \A d \in {"record", "listen", "tunnel"} : <<d, r>> \in TaskOf(o.plan) => <<d, r>> \in TaskOf(own[s].plan)
      BY DEF Moves
    <2>2. o.cmd \in {own[s].cmd, "none"}
      BY DEF Moves
    <2> QED
      BY <1>1, <1>3, <2>1, <2>2 DEF Pending, Coming, Has, Raising
  <1> QED
    BY <1>2, <1>3

\* An id enters a registry only when it is stored.
LEMMA NoticedKept ==
  ASSUME Typed, NEW s \in Keeper, NEW o, NEW l, Moves(s, o, l), Local(s), NEW r \in Rid, Noticed(r)'
  PROVE Noticed(r) \/ (at[s] = "store" /\ r = Target(s))
  <1>1. own'[s] = o /\ \A q \in Keeper \ {s} : own'[q] = own[q]
    BY Turned DEF Moves
  <1>2. CASE reg'[r] # "none"
    BY <1>2 DEF Local
  <1>3. CASE \E q \in Keeper : own'[q].snap[r] # "none" \/ r \in own'[q].listed \cup own'[q].active
    <2>1. PICK q \in Keeper : own'[q].snap[r] # "none" \/ r \in own'[q].listed \cup own'[q].active
      BY <1>3
    <2>2. CASE q = s
      <3>1. CASE o.snap[r] # "none"
        BY <3>1 DEF Moves
      <3>2. CASE r \in o.listed \cup o.active
        BY <3>2 DEF Moves
      <3> QED
        BY <1>1, <2>1, <2>2, <3>1, <3>2
    <2>3. CASE q # s
      <3>1. own[q].snap[r] # "none" \/ r \in own[q].listed \cup own[q].active
        BY <1>1, <2>1, <2>3
      <3> QED
        BY <3>1 DEF Noticed
    <2> QED
      BY <2>2, <2>3
  <1> QED
    BY <1>2, <1>3 DEF Noticed

\* A lawful step keeps what is being started to its starter.
LEMMA OwnedKept ==
  ASSUME Typed, Planned, Owned, NEW s \in Keeper, at[s] # "idle", NEW o, NEW l, Lawful(s, o, l)
  PROVE Owned'
  <1>1. Moves(s, o, l) /\ Local(s) /\ \A r \in Rid : r = Target(s) => Careful(s, l, r)
    BY DEF Lawful
  <1>2. own'[s] = o /\ at'[s] = l /\ \A q \in Keeper \ {s} : own'[q] = own[q] /\ at'[q] = at[q]
    BY <1>1, Turned DEF Moves
  <1>3. Target(s) \in Targets(s)
    BY AtWork
  <1>4. ASSUME NEW p \in Keeper, NEW r \in Rid, Pending(p, r)'
        PROVE ~Noticed(r)' /\ \A q \in Keeper \ {p} : r \notin Targets(q)'
    <2>1. Pending(p, r)
      BY <1>1, <1>4, PendingKept
    <2>2. ~Noticed(r) /\ \A q \in Keeper \ {p} : r \notin Targets(q)
      BY <2>1 DEF Owned
    <2>3. ASSUME Noticed(r)'
          PROVE FALSE
      <3>1. at[s] = "store" /\ r = Target(s)
        BY <1>1, <2>2, <2>3, NoticedKept
      <3>2. p = s
        BY <1>3, <2>2, <3>1
      <3> QED
        BY <1>1, <1>4, <3>1, <3>2 DEF Careful
    <2>4. ASSUME NEW q \in Keeper \ {p}, r \in Targets(q)'
          PROVE FALSE
      <3>1. CASE q # s
        <4>1. Targets(q)' = Targets(q)
          BY <1>2, <3>1 DEF Targets
        <4> QED
          BY <2>2, <2>4, <4>1
      <3>2. CASE q = s
        <4>1. PICK x \in TaskOf(o.plan) : x[2] = r
          BY <1>2, <2>4, <3>2 DEF Targets, TaskOf
        <4>2. x \in TaskOf(own[s].plan)
          BY <1>1, <2>2, <4>1 DEF Moves
        <4> QED
          BY <2>2, <3>2, <4>1, <4>2, Aims
      <3> QED
        BY <3>1, <3>2
    <2> QED
      BY <2>3, <2>4
  <1>5. ASSUME NEW p \in Keeper, NEW r \in Rid, Coming(p, r)'
        PROVE Scene(p, r)'
    <2>1. Coming(p, r)
      BY <1>1, <1>5, PendingKept
    <2>2. Pending(p, r) /\ Scene(p, r) /\ \A q \in Keeper \ {p} : r \notin Targets(q)
      BY <2>1, StartFacts DEF Owned
    <2>3. CASE p = s /\ r = Target(s)
      BY <1>1, <1>5, <2>3 DEF Careful
    <2>4. CASE p = s /\ r # Target(s)
      <3>1. daemon[r] = "none" /\ meta[r] = "none"
        BY <2>2, <2>4 DEF Scene, Uses
      <3>2. daemon'[r] = "none" /\ meta'[r] = "none"
        BY <1>1, <2>4, <3>1 DEF Local
      <3>3. Uses(s, r)' => l \in Beginnings
        <4>1. Uses(s, r)' => Head(o.plan)[2] = r
          BY <1>2 DEF Uses, Target
        <4> QED
          BY <1>1, <2>4, <4>1 DEF Moves, Target
      <3> QED
        BY <1>2, <2>4, <3>2, <3>3 DEF Scene, Beginnings
    <2>5. CASE p # s
      <3>1. r # Target(s)
        BY <1>3, <2>2, <2>5
      <3>2. daemon'[r] = daemon[r] /\ meta'[r] = meta[r] /\ (r \in mpid' <=> r \in mpid)
        BY <1>1, <3>1 DEF Local
      <3>3. Uses(p, r)' = Uses(p, r) /\ at'[p] = at[p]
        BY <1>2, <2>5 DEF Uses, Target
      <3> QED
        BY <2>2, <3>2, <3>3 DEF Scene
    <2> QED
      BY <2>3, <2>4, <2>5
  <1> QED
    BY <1>4, <1>5 DEF Owned

\* And keeps the files of known ids sound.
LEMMA SoundnessKept ==
  ASSUME Typed, Planned, Owned, Soundness, NEW s \in Keeper, at[s] # "idle", NEW o, NEW l, Lawful(s, o, l)
  PROVE Soundness'
  <1>1. Moves(s, o, l) /\ Local(s) /\ \A r \in Rid : r = Target(s) => Careful(s, l, r)
    BY DEF Lawful
  <1>2. own'[s] = o /\ at'[s] = l /\ \A q \in Keeper \ {s} : own'[q] = own[q] /\ at'[q] = at[q]
    BY <1>1, Turned DEF Moves
  <1> SUFFICES ASSUME NEW r \in Rid, Touched(r)'
               PROVE SoundBase(r)' /\ \A q \in Keeper : Handled(q, r)'
    BY DEF Soundness
  <1>3. \A q \in Keeper \ {s} : Uses(q, r)' = Uses(q, r)
    BY <1>2 DEF Uses, Target
  <1>4. \/ Touched(r)
        \/ r = Target(s) /\ SoundBase(r)' /\ Handled(s, r)' /\ Pending(s, r)
    <2>1. CASE Noticed(r)'
      BY <1>1, <2>1, NoticedKept DEF Touched
    <2>2. CASE \E q \in Keeper : at'[q] \in {"load", "store"} /\ Target(q)' = r
      <3>1. PICK q \in Keeper : at'[q] \in {"load", "store"} /\ Target(q)' = r
        BY <2>2
      <3>2. CASE q # s
        BY <1>2, <3>1, <3>2 DEF Touched, Target
      <3>3. CASE q = s
        <4>1. l \in {"load", "store"} /\ Head(o.plan)[2] = r
          BY <1>2, <3>1, <3>3 DEF Target
        <4>2. r = Target(s)
          BY <1>1, <4>1 DEF Moves, Target, Beginnings
        <4> QED
          BY <1>1, <4>1, <4>2 DEF Careful
      <3> QED
        BY <3>2, <3>3
    <2> QED
      BY <2>1, <2>2 DEF Touched
  <1>5. CASE r # Target(s)
    <2>1. Touched(r) /\ SoundBase(r) /\ \A q \in Keeper : Handled(q, r)
      BY <1>4, <1>5 DEF Soundness
    <2>2. daemon'[r] = daemon[r] /\ meta'[r] = meta[r] /\ (r \in mpid' <=> r \in mpid)
      BY <1>1, <1>5 DEF Local
    <2>3. SoundBase(r)' /\ (Lives(r)' <=> Lives(r))
      BY <2>1, <2>2 DEF SoundBase, Lives
    <2>4. ASSUME NEW q \in Keeper \ {s}
          PROVE Handled(q, r)'
      BY <1>2, <1>3, <2>1, <2>3, <2>4 DEF Handled
    <2>5. Uses(s, r)' => l \in Beginnings /\ l # "load"
      <3>1. Uses(s, r)' => Head(o.plan)[2] = r
        BY <1>2 DEF Uses, Target
      <3> QED
        BY <1>1, <1>5, <3>1 DEF Moves, Target
    <2>6. Handled(s, r)'
      BY <1>2, <2>5 DEF Handled, Beginnings
    <2> QED
      BY <2>3, <2>4, <2>6
  <1>6. CASE r = Target(s) /\ Touched(r)
    <2>1. SoundBase(r) /\ \A q \in Keeper : Handled(q, r)
      BY <1>6 DEF Soundness
    <2>2. SoundBase(r)' /\ Handled(s, r)' /\ (Lives(r)' => Lives(r))
      BY <1>1, <1>6 DEF Careful
    <2>3. ASSUME NEW q \in Keeper \ {s}
          PROVE Handled(q, r)'
      BY <1>2, <1>3, <2>1, <2>2, <2>3 DEF Handled
    <2> QED
      BY <2>2, <2>3
  <1>7. CASE r = Target(s) /\ ~Touched(r)
    <2>1. SoundBase(r)' /\ Handled(s, r)' /\ Pending(s, r)
      BY <1>4, <1>7
    <2>2. ASSUME NEW q \in Keeper \ {s}
          PROVE Handled(q, r)'
      <3>1. r \notin Targets(q)
        BY <2>1 DEF Owned
      <3>2. ~Uses(q, r)
        BY <3>1, AtWork DEF Uses
      <3> QED
        BY <1>3, <3>2 DEF Handled
    <2> QED
      BY <2>1, <2>2
  <1> QED
    BY <1>5, <1>6, <1>7

-----------------------------------------------------------------------------
\* What is still to be seen of the resources when the last pass of a cleanup
\* goes on with o.
Balances(s, o) ==
  LastPass(o) =>
    IF at[s] = "list" THEN \A r \in Rid : reg[r] \in Open => <<"status", r>> \in TaskOf(o.plan)
    ELSE /\ LastPass(own[s])
         /\ \A r \in Rid : Lives(r)' /\ (r \in own[s].active \/ Has(s, "status", r))
              => r \in o.active \/ <<"status", r>> \in TaskOf(o.plan) \/ reg[r] = "none"

\* What a step of s does to the registry and to what the ghosts remember.
Settled(s, o, l) ==
  /\ \A r \in Rid : Lives(r)' => Lives(r) \/ (at[s] # "store" /\ Coming(s, r) /\ Pending(s, r)')
  /\ at[s] # "store" => reg' = reg
  /\ at[s] = "store" => /\ l # "store"
                        /\ \A r \in Rid : IF r = Target(s) THEN Lives(r) => reg'[r] = "active"
                                          ELSE reg'[r] = own[s].snap[r]
  /\ o.snap \in {Unlisted, own[s].snap, reg}
  /\ l # "store" => o.snap = Unlisted
  /\ l = "store" => o.snap = reg /\ (upserting' \/ \A q \in Keeper : at[q] # "store")
  /\ \A r \in Rid : Pending(s, r) /\ Lives(r)' =>
       Pending(s, r)' \/ (at[s] = "store" /\ r = Target(s)) \/ r \in unlisted'
  /\ orphaned \subseteq orphaned' /\ unlisted \subseteq unlisted' /\ (upserting => upserting') /\ calm' = calm
  /\ swept' => swept \/ (at[s] = "verdict" /\ own[s].active = {} /\ s \in calm)
  /\ Balances(s, o)

\* What comes to life is being started and is in no registry.
LEMMA NoRise ==
  ASSUME Typed, Planned, Owned, NEW s \in Keeper, NEW o, NEW l, Settled(s, o, l), Moves(s, o, l),
         NEW r \in Rid, Lives(r)', ~Lives(r)
  PROVE at[s] # "store" /\ Coming(s, r) /\ Pending(s, r)' /\ Raising(s) /\ reg[r] = "none" /\ o.snap[r] = "none"
        /\ \A q \in Keeper : own[q].snap[r] = "none"
  <1>1. at[s] # "store" /\ Coming(s, r) /\ Pending(s, r)'
    BY DEF Settled
  <1>2. Pending(s, r) /\ Raising(s)
    BY <1>1, StartFacts
  <1>3. ~Noticed(r)
    BY <1>2 DEF Owned
  <1> QED
    BY <1>1, <1>2, <1>3 DEF Noticed, Moves

\* A settled step writes nothing closed that lives.
LEMMA ShutKept ==
  ASSUME Typed, Planned, Owned, Shut, NEW s \in Keeper, NEW o, NEW l, Settled(s, o, l), Moves(s, o, l)
  PROVE Shut'
  <1>1. own'[s] = o /\ at'[s] = l /\ \A q \in Keeper \ {s} : own'[q] = own[q] /\ at'[q] = at[q]
    BY Turned DEF Moves
  <1> SUFFICES ASSUME NEW r \in Rid, Lives(r)'
               PROVE /\ reg'[r] \notin {"closed", "error"}
                     /\ \A q \in Keeper : own'[q].snap[r] \notin {"closed", "error"}
    BY DEF Shut
  <1>2. CASE ~Lives(r)
    <2>1. at[s] # "store" /\ reg[r] = "none" /\ o.snap[r] = "none" /\ \A q \in Keeper : own[q].snap[r] = "none"
      BY <1>2, NoRise
    <2>2. reg' = reg
      BY <2>1 DEF Settled
    <2> QED
      BY <1>1, <2>1, <2>2
  <1>3. CASE Lives(r)
    <2>1. reg[r] \notin {"closed", "error"} /\ \A q \in Keeper : own[q].snap[r] \notin {"closed", "error"}
      BY <1>3 DEF Shut
    <2>2. reg'[r] \notin {"closed", "error"}
      BY <1>3, <2>1 DEF Settled
    <2>3. o.snap[r] \notin {"closed", "error"}
      <3>1. Unlisted[r] = "none"
        BY DEF Unlisted
      <3> QED
        BY <2>1, <3>1 DEF Settled
    <2> QED
      BY <1>1, <2>1, <2>2, <2>3
  <1> QED
    BY <1>2, <1>3

\* Nor loses what lives from resources.json.
LEMMA ListedLiveKept ==
  ASSUME Typed, Planned, Owned, ListedLive, Alone, NEW s \in Keeper, NEW o, NEW l, Settled(s, o, l), Moves(s, o, l)
  PROVE ListedLive'
  <1> SUFFICES ASSUME ~upserting', NEW r \in Rid, Lives(r)'
               PROVE reg'[r] \in Open \/ r \in Excused' \/ \E q \in Keeper : Pending(q, r)'
    BY DEF ListedLive
  <1>1. ~upserting /\ Excused \subseteq Excused'
    BY DEF Settled, Excused
  <1>2. CASE ~Lives(r)
    BY <1>2, NoRise
  <1>3. CASE Lives(r)
    <2>1. reg[r] \in Open \/ r \in Excused \/ \E q \in Keeper : Pending(q, r)
      BY <1>1, <1>3 DEF ListedLive
    <2>2. CASE reg[r] \in Open
      <3>1. CASE at[s] # "store"
        BY <2>2, <3>1 DEF Settled
      <3>2. CASE at[s] = "store"
        <4>1. own[s].snap = reg
          BY <1>1, <3>2 DEF Alone
        <4> QED
          BY <1>3, <2>2, <3>2, <4>1 DEF Settled, Open
      <3> QED
        BY <3>1, <3>2
    <2>3. CASE r \in Excused
      BY <1>1, <2>3
    <2>4. CASE \E q \in Keeper : Pending(q, r)
      <3>1. PICK q \in Keeper : Pending(q, r)
        BY <2>4
      <3>2. CASE q # s
        BY <3>1, <3>2, PendingKept
      <3>3. CASE q = s
        <4>1. Pending(s, r)' \/ (at[s] = "store" /\ r = Target(s)) \/ r \in unlisted'
          BY <3>1, <3>3 DEF Settled
        <4>2. at[s] = "store" /\ r = Target(s) => reg'[r] = "active"
          BY <1>3 DEF Settled
        <4> QED
          BY <4>1, <4>2 DEF Open, Excused
      <3> QED
        BY <3>2, <3>3
    <2> QED
      BY <2>1, <2>2, <2>3, <2>4
  <1> QED
    BY <1>2, <1>3

\* Nor breaks what an update that is alone holds.
LEMMA AloneKept ==
  ASSUME Typed, Alone, NEW s \in Keeper, NEW o, NEW l, Settled(s, o, l), Moves(s, o, l)
  PROVE Alone'
  <1>1. own'[s] = o /\ at'[s] = l /\ \A q \in Keeper \ {s} : own'[q] = own[q] /\ at'[q] = at[q]
    BY Turned DEF Moves
  <1>2. ASSUME NEW q \in Keeper, at'[q] # "store"
        PROVE own'[q].snap = Unlisted
    <2>1. CASE q = s
      BY <1>1, <1>2, <2>1 DEF Settled
    <2>2. CASE q # s
      BY <1>1, <1>2, <2>2 DEF Alone
    <2> QED
      BY <2>1, <2>2
  <1>3. ASSUME ~upserting', NEW q \in Keeper, at'[q] = "store"
        PROVE own'[q].snap = reg' /\ \A p \in Keeper \ {q} : at'[p] # "store"
    <2>1. ~upserting
      BY <1>3 DEF Settled
    <2>2. CASE q = s
      <3>1. o.snap = reg /\ \A p \in Keeper : at[p] # "store"
        BY <1>1, <1>3, <2>2 DEF Settled
      <3>2. reg' = reg
        BY <3>1 DEF Settled
      <3> QED
        BY <1>1, <2>2, <3>1, <3>2
    <2>3. CASE q # s
      <3>1. at[q] = "store" /\ own[q].snap = reg /\ \A p \in Keeper \ {q} : at[p] # "store"
        BY <1>1, <1>3, <2>1, <2>3 DEF Alone
      <3>2. reg' = reg /\ l # "store"
        BY <1>3, <2>3, <3>1 DEF Settled
      <3> QED
        BY <1>1, <2>3, <3>1, <3>2
    <2> QED
      BY <2>2, <2>3
  <1> QED
    BY <1>2, <1>3 DEF Alone

\* A cleanup at its verdict has read every status.
LEMMA AtVerdict ==
  ASSUME Typed, Planned, NEW s \in Keeper, at[s] = "verdict", \A q \in Keeper : ~Raising(q)
  PROVE LastPass(own[s]) /\ \A r \in Rid : ~Has(s, "status", r)
  <1>1. own[s].plan \in Seq(Todo) /\ own[s].plan # <<>> /\ Do(s) = "verdict" /\ own[s].cmd \notin StartCommands
    BY AtWork, Doing DEF Raising, StartCommands
  <1>2. Ordered(own[s].plan, own[s].cmd)
    BY <1>1 DEF Planned, WellPlanned, GoodPlan
  <1>3. Len(own[s].plan) \in Nat /\ Len(own[s].plan) > 0 /\ own[s].plan[1][1] = "verdict"
    BY <1>1, Pop DEF Do
  <1>4. Len(own[s].plan) = 1 /\ own[s].cmd = "cleanup"
    <2>1. 1 \in 1..Len(own[s].plan)
      BY <1>3
    <2>2. own[s].plan[1][1] = "verdict" => 1 = Len(own[s].plan) /\ own[s].cmd = "cleanup"
      BY <1>2, <2>1 DEF Ordered
    <2> QED
      BY <1>3, <2>2
  <1>5. \A x \in TaskOf(own[s].plan) : x[1] = "verdict"
    BY <1>3, <1>4 DEF TaskOf
  <1> QED
    BY <1>4, <1>5 DEF LastPass, Has

\* Nor hides from a calm cleanup what lives.
LEMMA CalmKept ==
  ASSUME Typed, Planned, Owned, ListedLive, Calm, NEW s \in Keeper, NEW o, NEW l, Settled(s, o, l), Moves(s, o, l)
  PROVE Calm'
  <1>1. own'[s] = o /\ at'[s] = l /\ \A q \in Keeper \ {s} : own'[q] = own[q] /\ at'[q] = at[q]
    BY Turned DEF Moves
  <1>2. calm' = calm /\ (swept' => swept \/ calm # {}) /\ Excused \subseteq Excused' /\ (upserting => upserting')
    BY DEF Settled, Excused
  <1>3. ASSUME calm' # {} \/ swept'
        PROVE /\ \A q \in Keeper : ~Raising(q) /\ ~Raising(q)'
              /\ \A r \in Rid : Lives(r)' => Lives(r)
    <2>1. \A q \in Keeper : ~Raising(q)
      BY <1>2, <1>3 DEF Calm
    <2>2. \A r \in Rid : Lives(r)' => Lives(r)
      BY <2>1, NoRise
    <2>3. \A q \in Keeper : Raising(q)' => Raising(q)
      <3>1. o.cmd \in {own[s].cmd, "none"}
        BY DEF Moves
      <3> QED
        BY <1>1, <3>1 DEF Raising
    <2> QED
      BY <2>1, <2>2, <2>3
  <1>4. ASSUME ~upserting', calm' # {} \/ swept', NEW r \in Rid, Lives(r)'
        PROVE Lives(r) /\ (reg[r] \in Open \/ r \in Excused)
    <2>1. ~upserting /\ Lives(r)
      BY <1>2, <1>3, <1>4
    <2>2. \A q \in Keeper : ~Pending(q, r)
      BY <1>3, <1>4, StartFacts
    <2> QED
      BY <2>1, <2>2 DEF ListedLive
  <1>5. ASSUME ~upserting', NEW p \in calm', p \in Keeper, LastPass(own'[p]), NEW r \in Rid, Lives(r)'
        PROVE r \in Excused' \/ r \in own'[p].active \/ <<"status", r>> \in TaskOf(own'[p].plan)
    <2>1. Lives(r) /\ (reg[r] \in Open \/ r \in Excused) /\ ~upserting /\ p \in calm
      BY <1>2, <1>4, <1>5
    <2>2. CASE p # s
      <3>1. r \in Excused \/ r \in own[p].active \/ Has(p, "status", r)
        BY <1>1, <1>5, <2>1, <2>2 DEF Calm
      <3> QED
        BY <1>1, <1>2, <1>5, <2>2, <3>1 DEF Has
    <2>3. CASE p = s
      <3>1. Balances(s, o) /\ LastPass(o)
        BY <1>1, <1>5, <2>3 DEF Settled
      <3>2. CASE at[s] = "list"
        BY <1>1, <1>2, <2>1, <2>3, <3>1, <3>2 DEF Balances
      <3>3. CASE at[s] # "list"
        <4>1. LastPass(own[s])
          BY <3>1, <3>3 DEF Balances
        <4>2. r \in Excused \/ r \in own[s].active \/ Has(s, "status", r)
          BY <2>1, <2>3, <4>1 DEF Calm
        <4>3. reg[r] = "none" => r \in Excused
          BY <2>1 DEF Open
        <4> QED
          BY <1>1, <1>2, <1>5, <2>3, <3>1, <3>3, <4>2, <4>3 DEF Balances
      <3> QED
        BY <3>2, <3>3
    <2> QED
      BY <2>2, <2>3
  <1>6. SweptClean'
    <2> SUFFICES ASSUME swept', ~upserting', NEW r \in Rid, Lives(r)'
                 PROVE r \in Excused'
      BY DEF SweptClean, Excused
    <2>1. Lives(r) /\ ~upserting
      BY <1>2, <1>4
    <2>2. CASE swept
      BY <1>2, <2>1, <2>2 DEF Calm, SweptClean, Excused
    <2>3. CASE at[s] = "verdict" /\ own[s].active = {} /\ s \in calm
      <3>1. LastPass(own[s]) /\ ~Has(s, "status", r)
        BY <1>3, <2>3, AtVerdict
      <3>2. r \in Excused
        BY <2>1, <2>3, <3>1 DEF Calm
      <3> QED
        BY <1>2, <3>2
    <2> QED
      BY <2>2, <2>3 DEF Settled
  <1>7. calm' \subseteq Keeper
    BY <1>2 DEF Typed
  <1> QED
    BY <1>3, <1>5, <1>6, <1>7 DEF Calm, Has

-----------------------------------------------------------------------------
\* A session goes on with the task it has.
LEMMA Keeping ==
  ASSUME Typed, Planned, Alone, NEW s \in Keeper, at[s] \notin {"idle", "store"}, NEW o, NEW l, TurnsTo(s, o, l),
         o.plan = own[s].plan, o.cmd = own[s].cmd, o.listed = own[s].listed, o.active = own[s].active,
         o.snap = own[s].snap, l \in LabelsOf(Do(s)), l \notin {"idle", "store"}, at[s] \notin {"list", "verdict"},
         reg' = reg, upserting' = upserting, orphaned' = orphaned, unlisted' = unlisted, calm' = calm, swept' = swept,
         \A r \in Rid : Lives(r)' => Lives(r) \/ Coming(s, r)
  PROVE Moves(s, o, l) /\ Settled(s, o, l)
  <1>1. own'[s] = o
    BY Turned
  <1>2. own[s].plan # <<>> /\ own[s].cmd \in CommandNames /\ GoodPlan(own[s].plan, own[s].cmd)
        /\ Do(s) = Head(own[s].plan)[1]
    BY DEF Planned, WellPlanned, Do
  <1>3. WellPlanned(o, l)
    BY <1>2 DEF WellPlanned
  <1>4. \A r \in Rid : o.snap[r] # "none" => Noticed(r)
    BY DEF Noticed
  <1>5. \A r \in o.listed \cup o.active : Noticed(r)
    BY DEF Noticed
  <1>6. Moves(s, o, l)
    BY <1>3, <1>4, <1>5 DEF Moves
  <1>7. \A r \in Rid : Pending(s, r)' = Pending(s, r)
    BY <1>1 DEF Pending, Has
  <1>8. \A r \in Rid : Lives(r)' => Lives(r) \/ (Coming(s, r) /\ Pending(s, r)')
    BY <1>7, StartFacts
  <1>9. Balances(s, o)
    <2>1. CASE ~LastPass(o)
      BY <2>1 DEF Balances
    <2>2. CASE LastPass(o)
      BY <2>2 DEF Balances, LastPass, Has
    <2> QED
      BY <2>1, <2>2
  <1>10. own[s].snap = Unlisted
    BY DEF Alone
  <1> QED
    BY <1>6, <1>7, <1>8, <1>9, <1>10 DEF Settled

\* What a session holds that has turned to what is next.
LEMMA Followed ==
  ASSUME NEW o, NEW l, NEW m, NEW p \in Seq(Todo), Follows(o, l, m, p)
  PROVE /\ o.plan = p /\ o.cmd \in {m.cmd, "none"} /\ o.snap \in {m.snap, Unlisted}
        /\ o.listed \subseteq m.listed /\ o.active \subseteq m.active
        /\ l \in Beginnings /\ (l = "load" => p # <<>> /\ Head(p)[1] = "record")
        /\ o.cmd = "cleanup" => o.active = m.active
        /\ p # <<>> => l # "idle" /\ l \in LabelsOf(Head(p)[1]) /\ o.cmd = m.cmd
        /\ p = <<>> => o = NoChore /\ l = "idle"
  <1>1. CASE p = <<>>
    BY <1>1, NoChoreTyped DEF Follows, Beginnings
  <1>2. CASE p # <<>>
    <2>1. PICK d : d = Head(p)[1]
      OBVIOUS
    <2>2. d \in {"listen", "check", "tunnel", "record", "status", "stop", "list", "sweep", "verdict"}
      BY <1>2, <2>1, Pop, TaskTypes
    <2>3. l = Opening[d]
      BY <1>2, <2>1 DEF Follows
    <2>4. l \in Beginnings /\ l # "idle" /\ l \in LabelsOf(d) /\ (l = "load" => d = "record")
      BY <2>2, <2>3, Openings DEF Beginnings, LabelsOf
    <2> QED
      BY <1>2, <2>1, <2>4 DEF Follows
  <1> QED
    BY <1>1, <1>2

\* A session turns to what is next in its plan.
LEMMA Resumed ==
  ASSUME Typed, Planned, NEW s \in Keeper, at[s] # "idle",
         NEW m \in Chore, m.cmd = own[s].cmd, m.snap \in {Unlisted, own[s].snap},
         \A r \in m.listed \cup m.active : Noticed(r) \/ (at[s] = "store" /\ r = Target(s)),
         NEW p \in Seq(Todo), GoodPlan(p, own[s].cmd),
         \A x \in TaskOf(p) : \/ x \in TaskOf(own[s].plan)
                              \/ x[1] \in {"status", "stop"} /\ x[2] \in Rid /\ Noticed(x[2]),
         p # <<>> /\ Head(p)[1] = "record" => Head(p)[2] = Target(s),
         Pursue(s, m, p)
  PROVE \E o, l : Moves(s, o, l) /\ Follows(o, l, m, p)
  <1>1. PICK o, l : TurnsTo(s, o, l) /\ Follows(o, l, m, p)
    BY Pursued
  <1>2. /\ o.plan = p /\ o.cmd \in {m.cmd, "none"} /\ o.snap \in {m.snap, Unlisted}
        /\ o.listed \subseteq m.listed /\ o.active \subseteq m.active
        /\ l \in Beginnings /\ (l = "load" => p # <<>> /\ Head(p)[1] = "record")
        /\ p # <<>> => l # "idle" /\ l \in LabelsOf(Head(p)[1]) /\ o.cmd = m.cmd
        /\ p = <<>> => o = NoChore /\ l = "idle"
    BY <1>1, Followed
  <1>3. own[s].cmd \in CommandNames
    BY AtWork
  <1>4. WellPlanned(o, l)
    <2>1. CASE p = <<>>
      BY <1>2, <2>1 DEF WellPlanned
    <2>2. CASE p # <<>>
      BY <1>2, <1>3, <2>2 DEF WellPlanned
    <2> QED
      BY <2>1, <2>2
  <1>5. \A r \in Rid : o.snap[r] # "none" => Noticed(r)
    <2>1. \A r \in Rid : Unlisted[r] = "none"
      BY DEF Unlisted
    <2> QED
      BY <1>2, <2>1 DEF Noticed
  <1>6. \A r \in o.listed \cup o.active : Noticed(r) \/ (at[s] = "store" /\ r = Target(s))
    BY <1>2
  <1>7. l = "load" => Head(o.plan)[2] = Target(s)
    BY <1>2
  <1> QED
    BY <1>1, <1>2, <1>4, <1>5, <1>6, <1>7 DEF Moves

\* The head of the plan is done.
LEMMA NextUp ==
  ASSUME Typed, Planned, NEW s \in Keeper, at[s] # "idle"
  PROVE /\ Tail(own[s].plan) \in Seq(Todo) /\ GoodPlan(Tail(own[s].plan), own[s].cmd)
        /\ TaskOf(Tail(own[s].plan)) \subseteq TaskOf(own[s].plan)
        /\ \A x \in TaskOf(own[s].plan) : x = <<Do(s), Target(s)>> \/ x \in TaskOf(Tail(own[s].plan))
        /\ Tail(own[s].plan) # <<>> /\ Head(Tail(own[s].plan))[1] = "record"
             => Head(Tail(own[s].plan))[2] = Target(s) /\ Do(s) \in {"listen", "tunnel"}
        /\ Do(s) = "record" => <<"record", Target(s)>> \notin TaskOf(Tail(own[s].plan))
        /\ \A d \in {"listen", "tunnel"} : Target(s) \in Rid => <<d, Target(s)>> \notin TaskOf(Tail(own[s].plan))
  <1>1. own[s].plan \in Seq(Todo) /\ own[s].plan # <<>> /\ Head(own[s].plan) = <<Do(s), Target(s)>>
        /\ own[s].cmd \in CommandNames
    BY AtWork
  <1>2. GoodPlan(own[s].plan, own[s].cmd)
    BY DEF Planned, WellPlanned
  <1>3. PICK q : q = Tail(own[s].plan)
    OBVIOUS
  <1>4. q \in Seq(Todo) /\ GoodPlan(q, own[s].cmd) /\ TaskOf(q) \subseteq TaskOf(own[s].plan)
        /\ \A x \in TaskOf(own[s].plan) : x = <<Do(s), Target(s)>> \/ x \in TaskOf(q)
    BY <1>1, <1>2, <1>3, Pop, TailGood
  <1>5. q # <<>> => Head(q) \in TaskOf(q)
    BY <1>4, Pop
  <1>6. CASE own[s].cmd \in StartCommands
    <2>1. CourseOf(<<Do(s), Target(s)>>, TaskOf(own[s].plan), q # <<>>, Head(q), TaskOf(q))
      BY <1>1, <1>3, <1>6, Errand DEF Course
    <2>2. q # <<>> /\ Head(q)[1] = "record" => Head(q)[2] = Target(s) /\ Do(s) \in {"listen", "tunnel"}
      BY <1>4, <1>5, <2>1 DEF CourseOf
    <2>3. Do(s) = "record" => <<"record", Target(s)>> \notin TaskOf(q)
      BY <2>1 DEF CourseOf
    <2>4. \A d \in {"listen", "tunnel"} : Target(s) \in Rid => <<d, Target(s)>> \notin TaskOf(q)
      BY <1>4, <2>1 DEF CourseOf
    <2> QED
      BY <1>3, <1>4, <2>2, <2>3, <2>4
  <1>7. CASE own[s].cmd \notin StartCommands
    <2>1. \A x \in TaskOf(own[s].plan) : x[1] \in {"status", "stop", "list", "sweep", "verdict"}
      BY <1>7, Errand
    <2> QED
      BY <1>3, <1>4, <1>5, <2>1
  <1> QED
    BY <1>6, <1>7

\* The task is done and changed nothing in resources.json.
LEMMA Popping ==
  ASSUME Typed, Planned, Alone, NEW s \in Keeper, at[s] \notin {"idle", "store", "list", "sweep"},
         NEW m \in Chore, m.plan = own[s].plan, m.cmd = own[s].cmd, m.listed = own[s].listed,
         m.active = own[s].active, Done(s, m), Do(s) # "record",
         reg' = reg, upserting' = upserting, orphaned' = orphaned, unlisted' = unlisted, calm' = calm,
         swept' => swept \/ (at[s] = "verdict" /\ own[s].active = {} /\ s \in calm),
         \A r \in Rid : Lives(r)' => Lives(r),
         Do(s) \in {"status", "stop"} => reg[Target(s)] = "none"
  PROVE \E o, l : /\ Moves(s, o, l) /\ Settled(s, o, l) /\ o.plan = Tail(own[s].plan) /\ l \in Beginnings
                  /\ l = "load" => Do(s) \in {"listen", "tunnel"} /\ o.pay = m.pay
                  /\ l = "load" => Head(o.plan)[1] = "record"
  <1>1. PICK n : n = [m EXCEPT !.snap = Unlisted]
    OBVIOUS
  <1>2. Unlisted \in [Rid -> RegStatuses]
    BY DEF Unlisted, RegStatuses
  <1>3. n \in Chore /\ n.plan = own[s].plan /\ n.cmd = own[s].cmd /\ n.listed = own[s].listed
        /\ n.active = own[s].active /\ n.snap = Unlisted /\ n.pay = m.pay
    BY <1>1, <1>2 DEF Chore
  <1>4. PICK p : p = Tail(own[s].plan)
    OBVIOUS
  <1>5. /\ p \in Seq(Todo) /\ GoodPlan(p, own[s].cmd) /\ TaskOf(p) \subseteq TaskOf(own[s].plan)
        /\ \A x \in TaskOf(own[s].plan) : x = <<Do(s), Target(s)>> \/ x \in TaskOf(p)
        /\ p # <<>> /\ Head(p)[1] = "record" => Head(p)[2] = Target(s) /\ Do(s) \in {"listen", "tunnel"}
    BY <1>4, NextUp
  <1>6. Pursue(s, n, p)
    BY <1>1, <1>4 DEF Done
  <1>7. \A r \in n.listed \cup n.active : Noticed(r)
    BY <1>3 DEF Noticed
  <1>8. PICK o, l : Moves(s, o, l) /\ Follows(o, l, n, p)
    BY <1>3, <1>5, <1>6, <1>7, Resumed
  <1>9. /\ o.plan = p /\ o.cmd \in {n.cmd, "none"} /\ o.snap \in {n.snap, Unlisted}
        /\ l \in Beginnings /\ (l = "load" => p # <<>> /\ Head(p)[1] = "record")
        /\ o.cmd = "cleanup" => o.active = n.active
    BY <1>5, <1>8, Followed
  <1>10. l = "load" => o.pay = n.pay
    BY <1>8, <1>9 DEF Follows
  <1>11. own'[s] = o
    BY <1>8, Turned DEF Moves
  <1>12. \A r \in Rid : Pending(s, r) => Pending(s, r)'
    BY <1>5, <1>9, <1>11 DEF Pending, Has
  <1>13. Balances(s, o)
    <2> SUFFICES ASSUME LastPass(o)
                 PROVE /\ LastPass(own[s])
                       /\ \A r \in Rid : Lives(r)' /\ (r \in own[s].active \/ Has(s, "status", r))
                            => r \in o.active \/ <<"status", r>> \in TaskOf(o.plan) \/ reg[r] = "none"
      BY DEF Balances
    <2>1. own[s].cmd = "cleanup" /\ o.active = own[s].active
      BY <1>3, <1>9 DEF LastPass
    <2>2. Do(s) \notin {"list", "sweep"}
      BY AtWork, Doing DEF LabelsOf
    <2>3. LastPass(own[s])
      BY <1>5, <1>9, <2>1, <2>2 DEF LastPass
    <2>4. \A r \in Rid : Has(s, "status", r) => <<"status", r>> \in TaskOf(o.plan) \/ reg[r] = "none"
      BY <1>5, <1>9 DEF Has
    <2> QED
      BY <2>1, <2>3, <2>4
  <1>14. l # "store"
    BY <1>9 DEF Beginnings
  <1>15. Settled(s, o, l)
    BY <1>3, <1>9, <1>12, <1>13, <1>14 DEF Settled
  <1> QED
    BY <1>3, <1>4, <1>5, <1>8, <1>9, <1>10, <1>15

\* A start that failed goes on to stop what it began.
LEMMA Failing ==
  ASSUME Typed, Planned, Alone, NEW s \in Keeper, at[s] \notin {"idle", "store", "list", "sweep", "verdict"},
         Do(s) \in {"listen", "check", "tunnel"}, Fail(s),
         reg' = reg, upserting' = upserting, orphaned' = orphaned, unlisted \subseteq unlisted', calm' = calm,
         swept' = swept, \A r \in Rid : Lives(r)' => Lives(r),
         \A r \in Rid : Pending(s, r) /\ Lives(r)' => r \in unlisted'
  PROVE \E o, l : /\ Moves(s, o, l) /\ Settled(s, o, l) /\ l \in Beginnings \ {"load"}
                  /\ \A x \in TaskOf(o.plan) : x[1] = "stop"
  <1>1. own[s] \in Chore /\ own[s].plan \in Seq(Todo) /\ own[s].plan # <<>> /\ Head(own[s].plan)[1] = Do(s)
        /\ own[s].cmd \in StartCommands /\ GoodPlan(own[s].plan, own[s].cmd)
    BY AtWork, StartTask DEF Planned, WellPlanned, Do
  <1>2. PICK b \in Nat : /\ own[s].cmd # "smoke" => b = 0
                         /\ own[s].cmd = "smoke" => b \in {1, 2}
                         /\ b = IF own[s].cmd # "smoke" THEN 0 ELSE IF Do(s) = "tunnel" THEN 2 ELSE 1
    OBVIOUS
  <1>3. PICK q : q = SubSeq(own[s].plan, Len(own[s].plan) - b + 1, Len(own[s].plan))
    OBVIOUS
  <1>4. Pursue(s, own[s], q)
    BY <1>2, <1>3 DEF Fail
  <1>5. q \in Seq(Todo) /\ GoodPlan(q, own[s].cmd) /\ \A x \in TaskOf(q) : x \in TaskOf(own[s].plan) /\ x[1] = "stop"
    <2>1. PICK p, c : p = own[s].plan /\ c = own[s].cmd
      OBVIOUS
    <2>2. /\ p \in Seq(Todo) /\ p # <<>> /\ c \in StartCommands /\ GoodPlan(p, c)
          /\ Head(p)[1] \in {"listen", "check", "tunnel"}
          /\ c # "smoke" => b = 0
          /\ c = "smoke" => b \in {1, 2}
          /\ q = SubSeq(p, Len(p) - b + 1, Len(p))
      BY <1>1, <1>2, <1>3, <2>1
    <2>3. q \in Seq(Todo) /\ GoodPlan(q, c) /\ \A x \in TaskOf(q) : x \in TaskOf(p) /\ x[1] = "stop"
      BY <2>2, FailGood
    <2> QED
      BY <2>1, <2>3
  <1>6. q # <<>> => Head(q)[1] = "stop"
    BY <1>5, Pop
  <1>7. \A r \in own[s].listed \cup own[s].active : Noticed(r)
    BY DEF Noticed
  <1>8. PICK o, l : Moves(s, o, l) /\ Follows(o, l, own[s], q)
    BY <1>1, <1>4, <1>5, <1>6, <1>7, Resumed
  <1>9. /\ o.plan = q /\ o.cmd \in {own[s].cmd, "none"} /\ o.snap \in {own[s].snap, Unlisted}
        /\ l \in Beginnings /\ l # "load"
    BY <1>5, <1>6, <1>8, Followed
  <1>10. own[s].snap = Unlisted
    BY DEF Alone
  <1>11. Balances(s, o)
    BY <1>1, <1>9 DEF Balances, LastPass, StartCommands
  <1>12. l # "store"
    BY <1>9 DEF Beginnings
  <1>13. Settled(s, o, l)
    BY <1>9, <1>10, <1>11, <1>12 DEF Settled
  <1> QED
    BY <1>5, <1>8, <1>9, <1>13

-----------------------------------------------------------------------------
\* The values of the variables that are not a session's.
WorldTyped ==
  /\ daemon \in [Rid -> {"none", "launched", "up", "gone"}]
  /\ meta \in [Rid -> MetaStatuses] /\ reg \in [Rid -> RegStatuses]
  /\ pidf \subseteq Rid /\ mpid \subseteq Rid
  /\ orphaned \subseteq Rid /\ unlisted \subseteq Rid /\ calm \subseteq Keeper
  /\ upserting \in BOOLEAN /\ swept \in BOOLEAN

\* A step of session s is as it should be.
Stepped(s) == WorldTyped' /\ \E o, l : Lawful(s, o, l) /\ Settled(s, o, l)

\* A session that keeps what it knows.
LEMMA Staying ==
  ASSUME Typed, NEW s \in Keeper, own' = own, NEW l \in Points, Go(s, l)
  PROVE TurnsTo(s, own[s], l)
  BY DEF Typed, Go, TurnsTo

\* A task that starts nothing.
LEMMA CarefulTask ==
  ASSUME Typed, Planned, NEW s \in Keeper, at[s] \notin {"idle", "store"}, NEW o, NEW l, Moves(s, o, l),
         NEW r \in Rid, r = Target(s), Do(s) \notin {"listen", "tunnel"},
         l \in {"load", "store"} => Touched(r),
         Touched(r) => SoundBase(r)' /\ Handled(s, r)' /\ (Lives(r)' => Lives(r))
  PROVE Careful(s, l, r)
  <1>1. ~Coming(s, r)'
    BY PendingKept, StartFacts
  <1> QED
    BY <1>1 DEF Careful

\* A start that has done one of its tasks.
LEMMA CarefulStart ==
  ASSUME Typed, Planned, NEW s \in Keeper, at[s] \notin {"idle", "store"}, NEW o, NEW l, Moves(s, o, l),
         NEW r \in Rid, r = Target(s), ~Touched(r), ~Coming(s, r)',
         l \in {"load", "store"} => SoundBase(r)' /\ Handled(s, r)' /\ Pending(s, r)
  PROVE Careful(s, l, r)
  BY DEF Careful

\* The listener's process is launched.
LEMMA SpawnListenerStep ==
  ASSUME ResInv, NEW s \in Keeper, SpawnListener(s)
  PROVE Stepped(s)
  <1>0. Typed /\ Planned /\ Owned /\ Alone
    BY DEF ResInv
  <1>1. at[s] = "spawn listener" /\ at[s] # "idle" /\ Do(s) = "listen"
    BY <1>0, Doing DEF SpawnListener
  <1>2. PICK r : r = Target(s) /\ r \in Rid
    BY <1>0, <1>1, NotYet
  <1>3. Coming(s, r) /\ Scene(s, r) /\ Uses(s, r) /\ ~Touched(r)
    BY <1>0, <1>1, <1>2, NotYet
  <1>4. /\ daemon' = [daemon EXCEPT ![r] = "launched"] /\ Go(s, "await listener") /\ own' = own
        /\ UNCHANGED <<pidf, meta, mpid, reg, upserting, orphaned, unlisted, calm, swept>>
    BY <1>2 DEF SpawnListener, resourceFiles, resourceGhosts
  <1>5. WorldTyped'
    BY <1>0, <1>4 DEF WorldTyped, Typed
  <1>6. TurnsTo(s, own[s], "await listener")
    BY <1>0, <1>4, Staying DEF Points
  <1>7. daemon'[r] = "launched" /\ \A x \in Rid \ {r} : daemon'[x] = daemon[x]
    BY <1>0, <1>2, <1>4 DEF Typed
  <1>8. \A x \in Rid : Lives(x)' => Lives(x) \/ Coming(s, x)
    BY <1>3, <1>7 DEF Lives
  <1>9. "await listener" \in LabelsOf(Do(s))
    BY <1>1 DEF LabelsOf
  <1>10. Moves(s, own[s], "await listener") /\ Settled(s, own[s], "await listener")
    BY <1>0, <1>1, <1>4, <1>6, <1>8, <1>9, Keeping
  <1>11. Local(s)
    BY <1>2, <1>4, <1>7 DEF Local, Noticed
  <1>12. at'[s] = "await listener" /\ own'[s] = own[s]
    BY <1>0, <1>6, Turned
  <1>13. Scene(s, r)'
    BY <1>1, <1>3, <1>4, <1>7, <1>12 DEF Scene, Uses, Target
  <1>14. Careful(s, "await listener", r)
    BY <1>1, <1>3, <1>13 DEF Careful
  <1> QED
    BY <1>2, <1>5, <1>10, <1>11, <1>14 DEF Stepped, Lawful

\* tunnel.json is written before the provider runs.
LEMMA StageTunnelStep ==
  ASSUME ResInv, NEW s \in Keeper, StageTunnel(s)
  PROVE Stepped(s)
  <1>0. Typed /\ Planned /\ Owned /\ Alone
    BY DEF ResInv
  <1>1. at[s] = "stage tunnel" /\ at[s] # "idle" /\ Do(s) = "tunnel"
    BY <1>0, Doing DEF StageTunnel
  <1>2. PICK r : r = Target(s) /\ r \in Rid
    BY <1>0, <1>1, NotYet
  <1>3. Coming(s, r) /\ Scene(s, r) /\ Uses(s, r) /\ ~Touched(r)
    BY <1>0, <1>1, <1>2, NotYet
  <1>4. /\ meta' = [meta EXCEPT ![r] = "starting"] /\ Go(s, "spawn tunnel") /\ own' = own
        /\ UNCHANGED <<daemon, pidf, mpid, reg, upserting, orphaned, unlisted, calm, swept>>
    BY <1>2 DEF StageTunnel, resourceGhosts
  <1>5. WorldTyped'
    BY <1>0, <1>4 DEF WorldTyped, Typed, MetaStatuses
  <1>6. TurnsTo(s, own[s], "spawn tunnel")
    BY <1>0, <1>4, Staying DEF Points
  <1>7. \A x \in Rid \ {r} : meta'[x] = meta[x]
    BY <1>0, <1>2, <1>4 DEF Typed
  <1>8. \A x \in Rid : Lives(x)' => Lives(x) \/ Coming(s, x)
    BY <1>4 DEF Lives
  <1>9. "spawn tunnel" \in LabelsOf(Do(s))
    BY <1>1 DEF LabelsOf
  <1>10. Moves(s, own[s], "spawn tunnel") /\ Settled(s, own[s], "spawn tunnel")
    BY <1>0, <1>1, <1>4, <1>6, <1>8, <1>9, Keeping
  <1>11. Local(s)
    BY <1>2, <1>4, <1>7 DEF Local, Noticed
  <1>12. at'[s] = "spawn tunnel" /\ own'[s] = own[s]
    BY <1>0, <1>6, Turned
  <1>13. Scene(s, r)'
    BY <1>1, <1>3, <1>4, <1>12 DEF Scene, Uses, Target
  <1>14. Careful(s, "spawn tunnel", r)
    BY <1>1, <1>3, <1>13 DEF Careful
  <1> QED
    BY <1>2, <1>5, <1>10, <1>11, <1>14 DEF Stepped, Lawful

\* The provider runs.
LEMMA SpawnTunnelStep ==
  ASSUME ResInv, NEW s \in Keeper, SpawnTunnel(s)
  PROVE Stepped(s)
  <1>0. Typed /\ Planned /\ Owned /\ Alone
    BY DEF ResInv
  <1>1. at[s] = "spawn tunnel" /\ at[s] # "idle" /\ Do(s) = "tunnel"
    BY <1>0, Doing DEF SpawnTunnel
  <1>2. PICK r : r = Target(s) /\ r \in Rid
    BY <1>0, <1>1, NotYet
  <1>3. Coming(s, r) /\ Scene(s, r) /\ Uses(s, r) /\ ~Touched(r)
    BY <1>0, <1>1, <1>2, NotYet
  <1>4. /\ daemon' = [daemon EXCEPT ![r] = "up"] /\ Go(s, "tunnel pid") /\ own' = own
        /\ UNCHANGED <<pidf, meta, mpid, reg, upserting, orphaned, unlisted, calm, swept>>
    BY <1>2 DEF SpawnTunnel, resourceFiles, resourceGhosts
  <1>5. WorldTyped'
    BY <1>0, <1>4 DEF WorldTyped, Typed
  <1>6. TurnsTo(s, own[s], "tunnel pid")
    BY <1>0, <1>4, Staying DEF Points
  <1>7. daemon'[r] = "up" /\ \A x \in Rid \ {r} : daemon'[x] = daemon[x]
    BY <1>0, <1>2, <1>4 DEF Typed
  <1>8. \A x \in Rid : Lives(x)' => Lives(x) \/ Coming(s, x)
    BY <1>3, <1>7 DEF Lives
  <1>9. "tunnel pid" \in LabelsOf(Do(s))
    BY <1>1 DEF LabelsOf
  <1>10. Moves(s, own[s], "tunnel pid") /\ Settled(s, own[s], "tunnel pid")
    BY <1>0, <1>1, <1>4, <1>6, <1>8, <1>9, Keeping
  <1>11. Local(s)
    BY <1>2, <1>4, <1>7 DEF Local, Noticed
  <1>12. at'[s] = "tunnel pid" /\ own'[s] = own[s]
    BY <1>0, <1>6, Turned
  <1>13. Scene(s, r)'
    BY <1>1, <1>3, <1>7, <1>12 DEF Scene, Uses, Target
  <1>14. Careful(s, "tunnel pid", r)
    BY <1>1, <1>3, <1>13 DEF Careful
  <1> QED
    BY <1>2, <1>5, <1>10, <1>11, <1>14 DEF Stepped, Lawful

\* Its pid file is written.
LEMMA TunnelPidStep ==
  ASSUME ResInv, NEW s \in Keeper, TunnelPid(s)
  PROVE Stepped(s)
  <1>0. Typed /\ Planned /\ Owned /\ Alone
    BY DEF ResInv
  <1>1. at[s] = "tunnel pid" /\ at[s] # "idle" /\ Do(s) = "tunnel"
    BY <1>0, Doing DEF TunnelPid
  <1>2. PICK r : r = Target(s) /\ r \in Rid
    BY <1>0, <1>1, NotYet
  <1>3. Coming(s, r) /\ Scene(s, r) /\ Uses(s, r) /\ ~Touched(r)
    BY <1>0, <1>1, <1>2, NotYet
  <1>4. /\ pidf' = pidf \cup {r} /\ Go(s, "tunnel json") /\ own' = own
        /\ UNCHANGED <<daemon, meta, mpid, reg, upserting, orphaned, unlisted, calm, swept>>
    BY <1>2 DEF TunnelPid, resourceGhosts
  <1>5. WorldTyped'
    BY <1>0, <1>2, <1>4 DEF WorldTyped, Typed
  <1>6. TurnsTo(s, own[s], "tunnel json")
    BY <1>0, <1>4, Staying DEF Points
  <1>8. \A x \in Rid : Lives(x)' => Lives(x) \/ Coming(s, x)
    BY <1>4 DEF Lives
  <1>9. "tunnel json" \in LabelsOf(Do(s))
    BY <1>1 DEF LabelsOf
  <1>10. Moves(s, own[s], "tunnel json") /\ Settled(s, own[s], "tunnel json")
    BY <1>0, <1>1, <1>4, <1>6, <1>8, <1>9, Keeping
  <1>11. Local(s)
    BY <1>4 DEF Local, Noticed
  <1>12. at'[s] = "tunnel json" /\ own'[s] = own[s]
    BY <1>0, <1>6, Turned
  <1>13. Scene(s, r)'
    BY <1>1, <1>3, <1>4, <1>12 DEF Scene, Uses, Target
  <1>14. Careful(s, "tunnel json", r)
    BY <1>1, <1>3, <1>13 DEF Careful
  <1> QED
    BY <1>2, <1>5, <1>10, <1>11, <1>14 DEF Stepped, Lawful

\* tunnel.json names the pid.
LEMMA TunnelJsonStep ==
  ASSUME ResInv, NEW s \in Keeper, TunnelJson(s)
  PROVE Stepped(s)
  <1>0. Typed /\ Planned /\ Owned /\ Alone
    BY DEF ResInv
  <1>1. at[s] = "tunnel json" /\ at[s] # "idle" /\ Do(s) = "tunnel"
    BY <1>0, Doing DEF TunnelJson
  <1>2. PICK r : r = Target(s) /\ r \in Rid
    BY <1>0, <1>1, NotYet
  <1>3. Coming(s, r) /\ Scene(s, r) /\ Uses(s, r) /\ ~Touched(r)
    BY <1>0, <1>1, <1>2, NotYet
  <1>4. /\ mpid' = mpid \cup {r} /\ meta' = [meta EXCEPT ![r] = "starting"] /\ Go(s, "await tunnel") /\ own' = own
        /\ UNCHANGED <<daemon, pidf, reg, upserting, orphaned, unlisted, calm, swept>>
    BY <1>2 DEF TunnelJson, resourceGhosts
  <1>5. WorldTyped'
    BY <1>0, <1>2, <1>4 DEF WorldTyped, Typed, MetaStatuses
  <1>6. TurnsTo(s, own[s], "await tunnel")
    BY <1>0, <1>4, Staying DEF Points
  <1>7. \A x \in Rid \ {r} : meta'[x] = meta[x]
    BY <1>0, <1>2, <1>4 DEF Typed
  <1>8. \A x \in Rid : Lives(x)' => Lives(x) \/ Coming(s, x)
    BY <1>4 DEF Lives
  <1>9. "await tunnel" \in LabelsOf(Do(s))
    BY <1>1 DEF LabelsOf
  <1>10. Moves(s, own[s], "await tunnel") /\ Settled(s, own[s], "await tunnel")
    BY <1>0, <1>1, <1>4, <1>6, <1>8, <1>9, Keeping
  <1>11. Local(s)
    BY <1>2, <1>4, <1>7 DEF Local, Noticed
  <1>12. at'[s] = "await tunnel" /\ own'[s] = own[s]
    BY <1>0, <1>6, Turned
  <1>13. Scene(s, r)'
    BY <1>1, <1>3, <1>4, <1>12 DEF Scene, Uses, Target
  <1>14. Careful(s, "await tunnel", r)
    BY <1>1, <1>3, <1>13 DEF Careful
  <1> QED
    BY <1>2, <1>5, <1>10, <1>11, <1>14 DEF Stepped, Lawful

\* The listener has written its metadata, or is given up.
LEMMA AwaitListenerStep ==
  ASSUME ResInv, NEW s \in Keeper, AwaitListener(s)
  PROVE Stepped(s)
  <1>0. Typed /\ Planned /\ Owned /\ Alone
    BY DEF ResInv
  <1>1. at[s] = "await listener" /\ at[s] # "idle" /\ Do(s) = "listen"
    BY <1>0, Doing DEF AwaitListener
  <1>2. PICK r : r = Target(s) /\ r \in Rid
    BY <1>0, <1>1, NotYet
  <1>3. Coming(s, r) /\ Pending(s, r) /\ Scene(s, r) /\ Uses(s, r) /\ ~Touched(r)
    BY <1>0, <1>1, <1>2, NotYet
  <1>4. UNCHANGED <<reg, upserting, orphaned, unlisted, calm, swept>>
    BY DEF AwaitListener, resourceFiles, resourceGhosts
  <1>5. CASE /\ meta[r] # "none" /\ Done(s, [own[s] EXCEPT !.pay = "running"])
             /\ UNCHANGED <<daemon, pidf, meta, mpid>>
    <2>1. WorldTyped'
      BY <1>0, <1>4, <1>5 DEF WorldTyped, Typed
    <2>2. PICK m : m = [own[s] EXCEPT !.pay = "running"]
      OBVIOUS
    <2>3. m \in Chore /\ m.plan = own[s].plan /\ m.cmd = own[s].cmd /\ m.listed = own[s].listed
          /\ m.active = own[s].active /\ m.pay = "running"
      BY <1>0, <2>2 DEF Typed, Chore, MetaStatuses
    <2>4. \A x \in Rid : Lives(x)' => Lives(x)
      BY <1>5 DEF Lives
    <2>5. PICK o, l : /\ Moves(s, o, l) /\ Settled(s, o, l) /\ o.plan = Tail(own[s].plan) /\ l \in Beginnings
                      /\ l = "load" => Do(s) \in {"listen", "tunnel"} /\ o.pay = m.pay
                      /\ l = "load" => Head(o.plan)[1] = "record"
      <3>1. Done(s, m) /\ Do(s) \notin {"record", "status", "stop"}
        BY <1>1, <1>5, <2>2
      <3>2. at[s] \notin {"idle", "store", "list", "sweep"}
        BY <1>1
      <3> QED
        BY <1>0, <1>4, <1>5, <2>3, <2>4, <3>1, <3>2, Popping
    <2>6. own'[s] = o /\ at'[s] = l
      BY <1>0, <2>5, Turned DEF Moves
    <2>7. ~Coming(s, r)'
      BY <1>0, <1>1, <1>2, <2>5, <2>6, NextUp DEF Coming, Has
    <2>8. SoundBase(r)'
      BY <1>1, <1>3, <1>5 DEF Scene, SoundBase, Lives, Well
    <2>9. l \in {"load", "store"} => Handled(s, r)'
      BY <2>3, <2>5, <2>6 DEF Handled, Well, Beginnings
    <2>10. Careful(s, l, r)
      BY <1>0, <1>1, <1>2, <1>3, <2>5, <2>7, <2>8, <2>9, CarefulStart
    <2>11. Local(s)
      BY <1>4, <1>5 DEF Local, Noticed
    <2> QED
      BY <1>2, <2>1, <2>5, <2>10, <2>11 DEF Stepped, Lawful
  <1>6. CASE /\ daemon' = [daemon EXCEPT ![r] = "gone"] /\ meta' = [meta EXCEPT ![r] = "error"]
             /\ pidf' = pidf \ {r} /\ mpid' = mpid \ {r} /\ Fail(s)
    <2>1. WorldTyped'
      BY <1>0, <1>4, <1>6 DEF WorldTyped, Typed, MetaStatuses
    <2>2. daemon'[r] = "gone" /\ \A x \in Rid \ {r} : daemon'[x] = daemon[x] /\ meta'[x] = meta[x]
      BY <1>0, <1>2, <1>6 DEF Typed
    <2>3. \A x \in Rid : Lives(x)' => Lives(x) /\ x # r
      BY <2>2 DEF Lives
    <2>4. ASSUME NEW x \in Rid, Pending(s, x), Lives(x)'
          PROVE x \in unlisted'
      <3>1. x # r /\ Lives(x)
        BY <2>3, <2>4
      <3>2. Coming(s, x)
        BY <1>0, <1>1, <1>2, <2>4, <3>1, StartFacts
      <3>3. Scene(s, x)
        BY <1>0, <3>2 DEF Owned
      <3>4. daemon[x] = "none"
        BY <1>2, <3>1, <3>3 DEF Scene, Uses
      <3> QED
        BY <3>1, <3>4 DEF Lives
    <2>5. PICK o, l : /\ Moves(s, o, l) /\ Settled(s, o, l) /\ l \in Beginnings \ {"load"}
                      /\ \A x \in TaskOf(o.plan) : x[1] = "stop"
      BY <1>0, <1>1, <1>4, <1>6, <2>3, <2>4, Failing
    <2>6. own'[s] = o /\ at'[s] = l
      BY <1>0, <2>5, Turned DEF Moves
    <2>7. ~Coming(s, r)'
      BY <2>5, <2>6 DEF Coming, Has
    <2>8. Careful(s, l, r)
      BY <1>0, <1>1, <1>2, <1>3, <2>5, <2>7, CarefulStart DEF Beginnings
    <2>9. Local(s)
      BY <1>2, <1>4, <1>6, <2>2 DEF Local, Noticed
    <2> QED
      BY <1>2, <2>1, <2>5, <2>8, <2>9 DEF Stepped, Lawful
  <1> QED
    BY <1>2, <1>5, <1>6 DEF AwaitListener, resourceFiles

\* The provider has printed its url, or is given up.
LEMMA AwaitTunnelStep ==
  ASSUME ResInv, NEW s \in Keeper, AwaitTunnel(s)
  PROVE Stepped(s)
  <1>0. Typed /\ Planned /\ Owned /\ Alone
    BY DEF ResInv
  <1>1. at[s] = "await tunnel" /\ at[s] # "idle" /\ Do(s) = "tunnel"
    BY <1>0, Doing DEF AwaitTunnel
  <1>2. PICK r : r = Target(s) /\ r \in Rid
    BY <1>0, <1>1, NotYet
  <1>3. Coming(s, r) /\ Pending(s, r) /\ Scene(s, r) /\ Uses(s, r) /\ ~Touched(r)
    BY <1>0, <1>1, <1>2, NotYet
  <1>4. UNCHANGED <<mpid, reg, upserting, orphaned, calm, swept>>
    BY DEF AwaitTunnel
  <1>5. CASE /\ meta' = [meta EXCEPT ![r] = "started"] /\ Done(s, [own[s] EXCEPT !.pay = "started"])
             /\ UNCHANGED <<daemon, pidf, unlisted>>
    <2>1. WorldTyped'
      BY <1>0, <1>4, <1>5 DEF WorldTyped, Typed, MetaStatuses
    <2>2. PICK m : m = [own[s] EXCEPT !.pay = "started"]
      OBVIOUS
    <2>3. m \in Chore /\ m.plan = own[s].plan /\ m.cmd = own[s].cmd /\ m.listed = own[s].listed
          /\ m.active = own[s].active /\ m.pay = "started"
      BY <1>0, <2>2 DEF Typed, Chore, MetaStatuses
    <2>4. \A x \in Rid : Lives(x)' => Lives(x)
      BY <1>5 DEF Lives
    <2>5. PICK o, l : /\ Moves(s, o, l) /\ Settled(s, o, l) /\ o.plan = Tail(own[s].plan) /\ l \in Beginnings
                      /\ l = "load" => Do(s) \in {"listen", "tunnel"} /\ o.pay = m.pay
                      /\ l = "load" => Head(o.plan)[1] = "record"
      <3>1. Done(s, m) /\ Do(s) \notin {"record", "status", "stop"}
        BY <1>1, <1>5, <2>2
      <3>2. at[s] \notin {"idle", "store", "list", "sweep"}
        BY <1>1
      <3> QED
        BY <1>0, <1>4, <1>5, <2>3, <2>4, <3>1, <3>2, Popping
    <2>6. own'[s] = o /\ at'[s] = l
      BY <1>0, <2>5, Turned DEF Moves
    <2>7. ~Coming(s, r)'
      BY <1>0, <1>1, <1>2, <2>5, <2>6, NextUp DEF Coming, Has
    <2>12. meta'[r] = "started" /\ \A x \in Rid \ {r} : meta'[x] = meta[x]
      BY <1>0, <1>2, <1>5 DEF Typed
    <2>8. SoundBase(r)'
      BY <1>1, <1>3, <1>4, <1>5, <2>12 DEF Scene, SoundBase, Lives, Well
    <2>9. l \in {"load", "store"} => Handled(s, r)'
      BY <2>3, <2>5, <2>6 DEF Handled, Well, Beginnings
    <2>10. Careful(s, l, r)
      BY <1>0, <1>1, <1>2, <1>3, <2>5, <2>7, <2>8, <2>9, CarefulStart
    <2>11. Local(s)
      BY <1>2, <1>4, <1>5, <2>12 DEF Local, Noticed
    <2> QED
      BY <1>2, <2>1, <2>5, <2>10, <2>11 DEF Stepped, Lawful
  <1>6. CASE /\ daemon' \in {[daemon EXCEPT ![r] = "gone"], daemon} /\ meta' = [meta EXCEPT ![r] = "error"]
             /\ pidf' = pidf \ {r} /\ unlisted' = unlisted \cup {r} /\ Fail(s)
    <2>1. WorldTyped'
      BY <1>0, <1>2, <1>4, <1>6 DEF WorldTyped, Typed, MetaStatuses
    <2>2. /\ daemon'[r] \in {"gone", daemon[r]}
          /\ \A x \in Rid \ {r} : daemon'[x] = daemon[x] /\ meta'[x] = meta[x]
      BY <1>0, <1>2, <1>6 DEF Typed
    <2>3. \A x \in Rid : Lives(x)' => Lives(x)
      BY <2>2 DEF Lives
    <2>4. ASSUME NEW x \in Rid, Pending(s, x), Lives(x)'
          PROVE x \in unlisted'
      <3>1. x = r
        BY <1>0, <1>1, <1>2, <2>4, StartFacts
      <3> QED
        BY <1>6, <3>1
    <2>5. PICK o, l : /\ Moves(s, o, l) /\ Settled(s, o, l) /\ l \in Beginnings \ {"load"}
                      /\ \A x \in TaskOf(o.plan) : x[1] = "stop"
      BY <1>0, <1>1, <1>4, <1>6, <2>3, <2>4, Failing
    <2>6. own'[s] = o /\ at'[s] = l
      BY <1>0, <2>5, Turned DEF Moves
    <2>7. ~Coming(s, r)'
      BY <2>5, <2>6 DEF Coming, Has
    <2>8. Careful(s, l, r)
      BY <1>0, <1>1, <1>2, <1>3, <2>5, <2>7, CarefulStart DEF Beginnings
    <2>9. Local(s)
      BY <1>2, <1>4, <1>6, <2>2 DEF Local, Noticed
    <2> QED
      BY <1>2, <2>1, <2>5, <2>8, <2>9 DEF Stepped, Lawful
  <1> QED
    BY <1>2, <1>5, <1>6 DEF AwaitTunnel
-----------------------------------------------------------------------------
\* The status command reads the files.
LEMMA ReadStatusStep ==
  ASSUME ResInv, NEW s \in Keeper, ReadStatus(s)
  PROVE Stepped(s)
  <1>0. Typed /\ Planned /\ Owned /\ Alone /\ Soundness
    BY DEF ResInv
  <1>1. at[s] = "read status" /\ at[s] # "idle" /\ Do(s) \in {"check", "status"} /\ Target(s) \in Rid
    BY <1>0, Doing DEF ReadStatus
  <1>2. PICK r \in Rid : r = Target(s)
    BY <1>1
  <1>3. PICK o : o = [own[s] EXCEPT !.meta = meta[r], !.pid = (r \in pidf \cup mpid)]
    OBVIOUS
  <1>4. /\ own' = [own EXCEPT ![s] = o] /\ Go(s, "write status")
        /\ UNCHANGED <<daemon, pidf, meta, mpid, reg, upserting, orphaned, unlisted, calm, swept>>
    BY <1>2, <1>3 DEF ReadStatus, resourceFiles, resourceGhosts
  <1>5. /\ o \in Chore /\ o.plan = own[s].plan /\ o.cmd = own[s].cmd /\ o.listed = own[s].listed
        /\ o.active = own[s].active /\ o.snap = own[s].snap /\ o.meta = meta[r]
        /\ (r \in pidf \cup mpid) => o.pid
    <2>1. meta[r] \in MetaStatuses /\ own[s] \in Chore
      BY <1>0 DEF Typed
    <2>2. (r \in pidf \cup mpid) \in BOOLEAN
      OBVIOUS
    <2>3. PICK b : b = (r \in pidf \cup mpid) /\ b \in BOOLEAN
      BY <2>2
    <2>4. o = [own[s] EXCEPT !.meta = meta[r], !.pid = b]
      BY <1>3, <2>3
    <2>5. /\ o \in Chore /\ o.plan = own[s].plan /\ o.cmd = own[s].cmd /\ o.listed = own[s].listed
          /\ o.active = own[s].active /\ o.snap = own[s].snap /\ o.meta = meta[r] /\ o.pid = b
      BY <2>1, <2>3, <2>4 DEF Chore
    <2> QED
      BY <2>3, <2>5
  <1>6. TurnsTo(s, o, "write status")
    BY <1>4, <1>5 DEF TurnsTo, Go, Points
  <1>7. WorldTyped'
    BY <1>0, <1>4 DEF WorldTyped, Typed
  <1>8. "write status" \in LabelsOf(Do(s))
    BY <1>1 DEF LabelsOf
  <1>9. \A x \in Rid : Lives(x)' = Lives(x)
    BY <1>4 DEF Lives
  <1>10. Moves(s, o, "write status") /\ Settled(s, o, "write status")
    BY <1>0, <1>1, <1>4, <1>5, <1>6, <1>8, <1>9, Keeping
  <1>11. Local(s)
    BY <1>4 DEF Local, Noticed
  <1>12. own'[s] = o /\ at'[s] = "write status"
    BY <1>0, <1>6, Turned
  <1>13. ASSUME Touched(r)
         PROVE SoundBase(r)' /\ Handled(s, r)'
    <2>1. SoundBase(r)
      BY <1>0, <1>13 DEF Soundness
    <2>2. SoundBase(r)'
      BY <1>4, <2>1 DEF SoundBase, Lives
    <2>3. o.pid /\ o.meta # "none" /\ (Lives(r) => o.meta \in Well)
      BY <1>5, <2>1 DEF SoundBase
    <2> QED
      BY <1>9, <1>12, <2>2, <2>3 DEF Handled
  <1>14. Careful(s, "write status", r)
    BY <1>0, <1>1, <1>2, <1>9, <1>10, <1>13, CarefulTask
  <1> QED
    BY <1>2, <1>7, <1>10, <1>11, <1>14 DEF Stepped, Lawful

\* Of sound files the status of what lives is active.
LEMMA StatusSound ==
  ASSUME NEW r \in Rid, NEW m \in MetaStatuses, NEW pid \in BOOLEAN, NEW st \in StatusOf(r, m, pid)
  PROVE /\ st \in MetaStatuses
        /\ m # "none" => st # "none"
        /\ pid /\ Lives(r) /\ m \in Well => st \in Well
  <1>1. CASE r \in Listener
    BY <1>1 DEF StatusOf, ListenerStatus, MetaStatuses, Well
  <1>2. CASE r \notin Listener
    BY <1>2 DEF StatusOf, TunnelStatus, MetaStatuses, Well
  <1> QED
    BY <1>1, <1>2

\* The status is written back; a tunnel needs a running listener.
LEMMA PutStatusStep ==
  ASSUME ResInv, NEW s \in Keeper, PutStatus(s)
  PROVE Stepped(s)
  <1>0. Typed /\ Planned /\ Owned /\ Alone /\ Soundness
    BY DEF ResInv
  <1>1. at[s] = "write status" /\ at[s] # "idle" /\ Do(s) \in {"check", "status"} /\ Target(s) \in Rid
    BY <1>0, Doing DEF PutStatus
  <1>2. PICK r \in Rid : r = Target(s)
    BY <1>1
  <1>3. own[s] \in Chore /\ own[s].meta \in MetaStatuses /\ own[s].pid \in BOOLEAN
    BY <1>0 DEF Typed, Chore
  <1>4. PICK st \in StatusOf(r, own[s].meta, own[s].pid) :
          /\ meta' = [meta EXCEPT ![r] = st]
          /\ IF Do(s) = "check" THEN IF st = "running" THEN Done(s, own[s]) ELSE Fail(s)
             ELSE Go(s, "context") /\ own' = [own EXCEPT ![s].pay = st, ![s].meta = "none", ![s].pid = FALSE]
    BY <1>2 DEF PutStatus
  <1>5. UNCHANGED <<daemon, pidf, mpid, reg, upserting, orphaned, unlisted, calm, swept>>
    BY DEF PutStatus, resourceGhosts
  <1>6. /\ st \in MetaStatuses
        /\ own[s].meta # "none" => st # "none"
        /\ own[s].pid /\ Lives(r) /\ own[s].meta \in Well => st \in Well
    BY <1>3, StatusSound
  <1>7. meta'[r] = st /\ \A x \in Rid \ {r} : meta'[x] = meta[x]
    BY <1>0, <1>4 DEF Typed
  <1>8. \A x \in Rid : Lives(x)' = Lives(x)
    BY <1>5 DEF Lives
  <1>9. WorldTyped'
    BY <1>0, <1>4, <1>5, <1>6 DEF WorldTyped, Typed
  <1>10. Local(s)
    BY <1>2, <1>5, <1>7 DEF Local, Noticed
  <1>11. ASSUME Touched(r)
         PROVE SoundBase(r)' /\ (Lives(r) => st \in Well)
    <2>1. SoundBase(r) /\ Handled(s, r) /\ Uses(s, r)
      BY <1>0, <1>1, <1>2, <1>11 DEF Soundness, Uses
    <2>2. own[s].pid /\ own[s].meta # "none" /\ (Lives(r) => own[s].meta \in Well)
      BY <1>1, <2>1 DEF Handled
    <2>3. st # "none" /\ (Lives(r) => st \in Well)
      BY <1>6, <2>2
    <2> QED
      BY <1>5, <1>7, <2>1, <2>3 DEF SoundBase, Lives
  <1>12. CASE Do(s) = "check" /\ st = "running"
    <2>1. PICK o, l : /\ Moves(s, o, l) /\ Settled(s, o, l) /\ l \in Beginnings
                      /\ l = "load" => Do(s) \in {"listen", "tunnel"}
      BY <1>0, <1>1, <1>3, <1>4, <1>5, <1>8, <1>12, Popping
    <2>2. own'[s] = o /\ at'[s] = l
      BY <1>0, <2>1, Turned DEF Moves
    <2>3. l \in Beginnings \ {"load"}
      BY <1>12, <2>1
    <2>4. Handled(s, r)'
      BY <2>2, <2>3 DEF Handled, Beginnings
    <2>5. Careful(s, l, r)
      BY <1>0, <1>1, <1>2, <1>8, <1>11, <2>1, <2>3, <2>4, CarefulTask DEF Beginnings
    <2> QED
      BY <1>2, <1>9, <1>10, <2>1, <2>5 DEF Stepped, Lawful
  <1>13. CASE Do(s) = "check" /\ st # "running"
    <2>1. ASSUME NEW x \in Rid, Pending(s, x), Lives(x)'
          PROVE x \in unlisted'
      <3>1. Coming(s, x) /\ x # r
        BY <1>0, <1>2, <1>13, <2>1, StartFacts
      <3>2. Scene(s, x)
        BY <1>0, <3>1 DEF Owned
      <3>3. daemon[x] = "none"
        BY <1>2, <3>1, <3>2 DEF Scene, Uses
      <3> QED
        BY <1>8, <2>1, <3>3 DEF Lives
    <2>2. Fail(s)
      BY <1>4, <1>13
    <2>3. PICK o, l : Moves(s, o, l) /\ Settled(s, o, l) /\ l \in Beginnings \ {"load"}
      BY <1>0, <1>1, <1>5, <1>8, <1>13, <2>1, <2>2, Failing
    <2>4. own'[s] = o /\ at'[s] = l
      BY <1>0, <2>3, Turned DEF Moves
    <2>5. Handled(s, r)'
      BY <2>3, <2>4 DEF Handled, Beginnings
    <2>6. Careful(s, l, r)
      BY <1>0, <1>1, <1>2, <1>8, <1>11, <2>3, <2>5, CarefulTask DEF Beginnings
    <2> QED
      BY <1>2, <1>9, <1>10, <2>3, <2>6 DEF Stepped, Lawful
  <1>14. CASE Do(s) # "check"
    <2>1. PICK o : o = [own[s] EXCEPT !.pay = st, !.meta = "none", !.pid = FALSE]
      OBVIOUS
    <2>2. own' = [own EXCEPT ![s] = o] /\ Go(s, "context")
      BY <1>4, <1>14, <2>1
    <2>3. /\ o \in Chore /\ o.plan = own[s].plan /\ o.cmd = own[s].cmd /\ o.listed = own[s].listed
          /\ o.active = own[s].active /\ o.snap = own[s].snap /\ o.pay = st
      <3>1. "none" \in MetaStatuses /\ FALSE \in BOOLEAN
        BY DEF MetaStatuses
      <3>2. PICK f, z : f = FALSE /\ f \in BOOLEAN /\ z = "none" /\ z \in MetaStatuses
        BY <3>1
      <3>3. o = [own[s] EXCEPT !.pay = st, !.meta = z, !.pid = f]
        BY <2>1, <3>2
      <3> QED
        BY <1>3, <1>6, <3>2, <3>3 DEF Chore
    <2>4. TurnsTo(s, o, "context")
      BY <2>2, <2>3 DEF TurnsTo, Go, Points
    <2>5. "context" \in LabelsOf(Do(s))
      BY <1>1, <1>14 DEF LabelsOf
    <2>6. Moves(s, o, "context") /\ Settled(s, o, "context")
      BY <1>0, <1>1, <1>5, <1>8, <2>3, <2>4, <2>5, Keeping
    <2>7. own'[s] = o /\ at'[s] = "context"
      BY <1>0, <2>4, Turned
    <2>8. Touched(r) => Handled(s, r)'
      BY <1>8, <1>11, <2>3, <2>7 DEF Handled
    <2>9. Careful(s, "context", r)
      BY <1>0, <1>1, <1>2, <1>8, <1>11, <2>6, <2>8, CarefulTask
    <2> QED
      BY <1>2, <1>9, <1>10, <2>6, <2>9 DEF Stepped, Lawful
  <1> QED
    BY <1>12, <1>13, <1>14

\* The stop command reads the files.
LEMMA ReadToStopStep ==
  ASSUME ResInv, NEW s \in Keeper, ReadToStop(s)
  PROVE Stepped(s)
  <1>0. Typed /\ Planned /\ Owned /\ Alone /\ Soundness
    BY DEF ResInv
  <1>1. at[s] = "read to stop" /\ at[s] # "idle" /\ Do(s) = "stop" /\ Target(s) \in Rid
    BY <1>0, Doing DEF ReadToStop
  <1>2. PICK r \in Rid : r = Target(s)
    BY <1>1
  <1>3. PICK o, l : /\ o = [own[s] EXCEPT !.meta = meta[r], !.pid = (r \in pidf \cup mpid)]
                    /\ l = IF meta[r] = "none" THEN "context" ELSE "signal"
    OBVIOUS
  <1>4. /\ own' = [own EXCEPT ![s] = o] /\ Go(s, l)
        /\ UNCHANGED <<daemon, pidf, meta, mpid, reg, upserting, orphaned, unlisted, calm, swept>>
    BY <1>2, <1>3 DEF ReadToStop, resourceFiles, resourceGhosts
  <1>5. /\ o \in Chore /\ o.plan = own[s].plan /\ o.cmd = own[s].cmd /\ o.listed = own[s].listed
        /\ o.active = own[s].active /\ o.snap = own[s].snap
        /\ (r \in pidf \cup mpid) => o.pid
    <2>1. meta[r] \in MetaStatuses /\ own[s] \in Chore
      BY <1>0 DEF Typed
    <2>2. (r \in pidf \cup mpid) \in BOOLEAN
      OBVIOUS
    <2>3. PICK b : b = (r \in pidf \cup mpid) /\ b \in BOOLEAN
      BY <2>2
    <2>4. o = [own[s] EXCEPT !.meta = meta[r], !.pid = b]
      BY <1>3, <2>3
    <2>5. /\ o \in Chore /\ o.plan = own[s].plan /\ o.cmd = own[s].cmd /\ o.listed = own[s].listed
          /\ o.active = own[s].active /\ o.snap = own[s].snap /\ o.pid = b
      BY <2>1, <2>3, <2>4 DEF Chore
    <2> QED
      BY <2>3, <2>5
  <1>15. l \in {"context", "signal"} /\ (l = "context" => meta[r] = "none")
    BY <1>3
  <1>6. TurnsTo(s, o, l)
    BY <1>4, <1>5, <1>15 DEF TurnsTo, Go, Points
  <1>7. WorldTyped'
    BY <1>0, <1>4 DEF WorldTyped, Typed
  <1>8. l \in LabelsOf(Do(s)) /\ l \notin {"idle", "store", "load"}
    BY <1>1, <1>15 DEF LabelsOf
  <1>9. \A x \in Rid : Lives(x)' = Lives(x)
    BY <1>4 DEF Lives
  <1>10. Moves(s, o, l) /\ Settled(s, o, l)
    BY <1>0, <1>1, <1>4, <1>5, <1>6, <1>8, <1>9, Keeping
  <1>11. Local(s)
    BY <1>4 DEF Local, Noticed
  <1>12. own'[s] = o /\ at'[s] = l
    BY <1>0, <1>6, Turned
  <1>13. ASSUME Touched(r)
         PROVE SoundBase(r)' /\ Handled(s, r)'
    <2>1. SoundBase(r)
      BY <1>0, <1>13 DEF Soundness
    <2>2. SoundBase(r)'
      BY <1>4, <2>1 DEF SoundBase, Lives
    <2>3. o.pid /\ l = "signal"
      BY <1>5, <1>15, <2>1 DEF SoundBase
    <2> QED
      BY <1>12, <2>2, <2>3 DEF Handled
  <1>14. Careful(s, l, r)
    BY <1>0, <1>1, <1>2, <1>8, <1>9, <1>10, <1>13, CarefulTask
  <1> QED
    BY <1>2, <1>7, <1>10, <1>11, <1>14 DEF Stepped, Lawful

\* SIGTERM, which is heeded or not.
LEMMA SignalStep ==
  ASSUME ResInv, NEW s \in Keeper, Signal(s)
  PROVE Stepped(s)
  <1>0. Typed /\ Planned /\ Owned /\ Alone /\ Soundness
    BY DEF ResInv
  <1>1. at[s] = "signal" /\ at[s] # "idle" /\ Do(s) = "stop" /\ Target(s) \in Rid
    BY <1>0, Doing DEF Signal
  <1>2. PICK r \in Rid : r = Target(s)
    BY <1>1
  <1>3. own' = own /\ UNCHANGED <<mpid, reg, upserting, orphaned, unlisted, calm, swept>>
    BY DEF Signal, resourceFiles, resourceGhosts
  <1>4. PICK l \in {"write stopped", "kill"} :
          /\ Go(s, l)
          /\ \/ UNCHANGED <<daemon, meta, pidf>> /\ (l = "write stopped" => ~own[s].pid \/ ~Lives(r))
             \/ /\ daemon' = [daemon EXCEPT ![r] = "gone"] /\ pidf' \in {pidf, pidf \ {r}}
                /\ meta' \in {meta, [meta EXCEPT ![r] = "stopped"]}
    <2>1. CASE ~own[s].pid \/ ~Lives(r)
      BY <1>2, <2>1 DEF Signal, resourceFiles
    <2>2. CASE own[s].pid /\ Lives(r)
      <3>1. CASE Go(s, "kill") /\ UNCHANGED <<daemon, resourceFiles>>
        BY <3>1 DEF resourceFiles
      <3>2. CASE /\ daemon' = [daemon EXCEPT ![r] = "gone"]
                 /\ IF r \in Listener
                    THEN /\ pidf' = pidf \ {r} /\ meta' = [meta EXCEPT ![r] = "stopped"]
                         /\ UNCHANGED <<mpid, reg>>
                    ELSE UNCHANGED resourceFiles
                 /\ Go(s, "write stopped")
        BY <3>2 DEF resourceFiles
      <3> QED
        BY <1>2, <2>2, <3>1, <3>2 DEF Signal
    <2> QED
      BY <2>1, <2>2
  <1>5. /\ daemon'[r] \in {"gone", daemon[r]} /\ meta'[r] \in {meta[r], "stopped"}
        /\ daemon'[r] = daemon[r] => meta'[r] = meta[r] \/ ~Lives(r)
        /\ l = "write stopped" => daemon'[r] = "gone" \/ ~own[s].pid \/ ~Lives(r)
        /\ \A x \in Rid \ {r} : daemon'[x] = daemon[x] /\ meta'[x] = meta[x]
    <2>1. CASE UNCHANGED <<daemon, meta, pidf>> /\ (l = "write stopped" => ~own[s].pid \/ ~Lives(r))
      BY <2>1
    <2>2. CASE /\ daemon' = [daemon EXCEPT ![r] = "gone"]
               /\ meta' \in {meta, [meta EXCEPT ![r] = "stopped"]}
      <3>1. daemon'[r] = "gone" /\ \A x \in Rid \ {r} : daemon'[x] = daemon[x]
        BY <1>0, <2>2 DEF Typed
      <3>2. meta'[r] \in {meta[r], "stopped"} /\ \A x \in Rid \ {r} : meta'[x] = meta[x]
        BY <1>0, <2>2 DEF Typed
      <3>3. daemon[r] = "gone" => ~Lives(r)
        BY DEF Lives
      <3> QED
        BY <3>1, <3>2, <3>3
    <2> QED
      BY <1>4, <2>1, <2>2
  <1>6. WorldTyped'
    BY <1>0, <1>3, <1>4 DEF WorldTyped, Typed, MetaStatuses
  <1>7. TurnsTo(s, own[s], l)
    BY <1>0, <1>3, <1>4, Staying DEF Points
  <1>8. \A x \in Rid : Lives(x)' => Lives(x)
    BY <1>5 DEF Lives
  <1>9. l \in LabelsOf(Do(s)) /\ l \notin {"idle", "store", "load"}
    BY <1>1, <1>4 DEF LabelsOf
  <1>10. Moves(s, own[s], l) /\ Settled(s, own[s], l)
    BY <1>0, <1>1, <1>3, <1>7, <1>8, <1>9, Keeping
  <1>11. Local(s)
    BY <1>2, <1>3, <1>5 DEF Local, Noticed
  <1>12. own'[s] = own[s] /\ at'[s] = l
    BY <1>0, <1>7, Turned
  <1>13. ASSUME Touched(r)
         PROVE SoundBase(r)' /\ Handled(s, r)'
    <2>1. SoundBase(r) /\ Handled(s, r) /\ Uses(s, r)
      BY <1>0, <1>1, <1>2, <1>13 DEF Soundness, Uses
    <2>2. own[s].pid
      BY <1>1, <2>1 DEF Handled
    <2>3. SoundBase(r)'
      BY <1>3, <1>5, <2>1 DEF SoundBase, Lives
    <2>4. l = "write stopped" => ~Lives(r)'
      BY <1>5, <1>8, <2>2 DEF Lives
    <2> QED
      BY <1>4, <1>12, <2>2, <2>3, <2>4 DEF Handled
  <1>14. Careful(s, l, r)
    BY <1>0, <1>1, <1>2, <1>8, <1>9, <1>10, <1>13, CarefulTask
  <1> QED
    BY <1>2, <1>6, <1>10, <1>11, <1>14 DEF Stepped, Lawful

\* SIGKILL.
LEMMA ForceDownStep ==
  ASSUME ResInv, NEW s \in Keeper, ForceDown(s)
  PROVE Stepped(s)
  <1>0. Typed /\ Planned /\ Owned /\ Alone /\ Soundness
    BY DEF ResInv
  <1>1. at[s] = "kill" /\ at[s] # "idle" /\ Do(s) = "stop" /\ Target(s) \in Rid
    BY <1>0, Doing DEF ForceDown
  <1>2. PICK r \in Rid : r = Target(s)
    BY <1>1
  <1>3. /\ own' = own /\ daemon' = [daemon EXCEPT ![r] = "gone"] /\ Go(s, "write stopped")
        /\ UNCHANGED <<pidf, meta, mpid, reg, upserting, orphaned, unlisted, calm, swept>>
    BY <1>2 DEF ForceDown, Killed, resourceFiles, resourceGhosts
  <1>5. daemon'[r] = "gone" /\ \A x \in Rid \ {r} : daemon'[x] = daemon[x]
    BY <1>0, <1>3 DEF Typed
  <1>6. WorldTyped'
    BY <1>0, <1>3 DEF WorldTyped, Typed
  <1>7. TurnsTo(s, own[s], "write stopped")
    BY <1>0, <1>3, Staying DEF Points
  <1>8. \A x \in Rid : Lives(x)' => Lives(x) /\ x # r
    BY <1>5 DEF Lives
  <1>9. "write stopped" \in LabelsOf(Do(s))
    BY <1>1 DEF LabelsOf
  <1>10. Moves(s, own[s], "write stopped") /\ Settled(s, own[s], "write stopped")
    BY <1>0, <1>1, <1>3, <1>7, <1>8, <1>9, Keeping
  <1>11. Local(s)
    BY <1>2, <1>3, <1>5 DEF Local, Noticed
  <1>12. own'[s] = own[s] /\ at'[s] = "write stopped"
    BY <1>0, <1>7, Turned
  <1>13. ASSUME Touched(r)
         PROVE SoundBase(r)' /\ Handled(s, r)'
    <2>1. SoundBase(r) /\ Handled(s, r) /\ Uses(s, r)
      BY <1>0, <1>1, <1>2, <1>13 DEF Soundness, Uses
    <2>2. own[s].pid
      BY <1>1, <2>1 DEF Handled
    <2>3. SoundBase(r)'
      BY <1>3, <1>5, <2>1 DEF SoundBase, Lives
    <2> QED
      BY <1>8, <1>12, <2>2, <2>3 DEF Handled
  <1>14. Careful(s, "write stopped", r)
    BY <1>0, <1>1, <1>2, <1>8, <1>10, <1>13, CarefulTask
  <1> QED
    BY <1>2, <1>6, <1>10, <1>11, <1>14 DEF Stepped, Lawful

\* The stop is written.
LEMMA WriteStoppedStep ==
  ASSUME ResInv, NEW s \in Keeper, WriteStopped(s)
  PROVE Stepped(s)
  <1>0. Typed /\ Planned /\ Owned /\ Alone /\ Soundness
    BY DEF ResInv
  <1>1. at[s] = "write stopped" /\ at[s] # "idle" /\ Do(s) = "stop" /\ Target(s) \in Rid
    BY <1>0, Doing DEF WriteStopped
  <1>2. PICK r \in Rid : r = Target(s)
    BY <1>1
  <1>3. PICK o : o = [own[s] EXCEPT !.pay = "stopped", !.meta = "none", !.pid = FALSE]
    OBVIOUS
  <1>4. /\ own' = [own EXCEPT ![s] = o] /\ pidf' = pidf \ {r} /\ meta' = [meta EXCEPT ![r] = "stopped"]
        /\ Go(s, "context") /\ UNCHANGED <<daemon, mpid, reg, upserting, orphaned, unlisted, calm, swept>>
    BY <1>2, <1>3 DEF WriteStopped, resourceGhosts
  <1>5. /\ o \in Chore /\ o.plan = own[s].plan /\ o.cmd = own[s].cmd /\ o.listed = own[s].listed
        /\ o.active = own[s].active /\ o.snap = own[s].snap
    <2>1. "none" \in MetaStatuses /\ "stopped" \in MetaStatuses /\ FALSE \in BOOLEAN
      BY DEF MetaStatuses
    <2>2. PICK f, z, y : f = FALSE /\ f \in BOOLEAN /\ z = "none" /\ z \in MetaStatuses
                         /\ y = "stopped" /\ y \in MetaStatuses
      BY <2>1
    <2>3. o = [own[s] EXCEPT !.pay = y, !.meta = z, !.pid = f] /\ own[s] \in Chore
      BY <1>0, <1>3, <2>2 DEF Typed
    <2> QED
      BY <2>2, <2>3 DEF Chore
  <1>6. meta'[r] = "stopped" /\ \A x \in Rid \ {r} : meta'[x] = meta[x]
    BY <1>0, <1>4 DEF Typed
  <1>7. WorldTyped'
    BY <1>0, <1>4 DEF WorldTyped, Typed, MetaStatuses
  <1>8. TurnsTo(s, o, "context")
    BY <1>4, <1>5 DEF TurnsTo, Go, Points
  <1>9. \A x \in Rid : Lives(x)' = Lives(x)
    BY <1>4 DEF Lives
  <1>10. "context" \in LabelsOf(Do(s))
    BY <1>1 DEF LabelsOf
  <1>11. Moves(s, o, "context") /\ Settled(s, o, "context")
    BY <1>0, <1>1, <1>4, <1>5, <1>8, <1>9, <1>10, Keeping
  <1>12. Local(s)
    BY <1>2, <1>4, <1>6 DEF Local, Noticed
  <1>13. own'[s] = o /\ at'[s] = "context"
    BY <1>0, <1>8, Turned
  <1>14. ASSUME Touched(r)
         PROVE SoundBase(r)' /\ Handled(s, r)'
    <2>1. SoundBase(r) /\ Handled(s, r) /\ Uses(s, r)
      BY <1>0, <1>1, <1>2, <1>14 DEF Soundness, Uses
    <2>2. ~Lives(r)
      BY <1>1, <2>1 DEF Handled
    <2>3. SoundBase(r)'
      BY <1>4, <1>6, <1>9, <2>1, <2>2 DEF SoundBase
    <2> QED
      BY <1>9, <1>13, <2>2, <2>3 DEF Handled
  <1>15. Careful(s, "context", r)
    BY <1>0, <1>1, <1>2, <1>9, <1>11, <1>14, CarefulTask
  <1> QED
    BY <1>2, <1>7, <1>11, <1>12, <1>15 DEF Stepped, Lawful

\* An id resources.json does not list is not updated.
LEMMA ContextStep ==
  ASSUME ResInv, NEW s \in Keeper, Context(s)
  PROVE Stepped(s)
  <1>0. Typed /\ Planned /\ Owned /\ Alone /\ Soundness
    BY DEF ResInv
  <1>1. at[s] = "context" /\ at[s] # "idle" /\ Do(s) \in {"status", "stop"} /\ Target(s) \in Rid
    BY <1>0, Doing DEF Context
  <1>2. PICK r \in Rid : r = Target(s)
    BY <1>1
  <1>3. UNCHANGED <<daemon, pidf, meta, mpid, reg, upserting, orphaned, unlisted, calm, swept>>
    BY DEF Context, resourceFiles, resourceGhosts
  <1>4. WorldTyped'
    BY <1>0, <1>3 DEF WorldTyped, Typed
  <1>5. \A x \in Rid : Lives(x)' = Lives(x)
    BY <1>3 DEF Lives
  <1>6. Local(s)
    BY <1>3 DEF Local, Noticed
  <1>7. own[s] \in Chore
    BY <1>0 DEF Typed
  <1>8. ASSUME Touched(r)
        PROVE SoundBase(r)' /\ (Lives(r) => own[s].pay \in Well)
    <2>1. SoundBase(r) /\ Handled(s, r) /\ Uses(s, r)
      BY <1>0, <1>1, <1>2, <1>8 DEF Soundness, Uses
    <2>2. SoundBase(r)'
      BY <1>3, <2>1 DEF SoundBase, Lives
    <2> QED
      BY <1>1, <2>1, <2>2 DEF Handled
  <1>9. CASE reg[r] = "none"
    <2>1. Done(s, own[s]) /\ reg[Target(s)] = "none"
      BY <1>2, <1>9 DEF Context
    <2>2. PICK o, l : /\ Moves(s, o, l) /\ Settled(s, o, l) /\ l \in Beginnings
                      /\ l = "load" => Do(s) \in {"listen", "tunnel"}
      BY <1>0, <1>1, <1>3, <1>5, <1>7, <2>1, Popping
    <2>3. own'[s] = o /\ at'[s] = l
      BY <1>0, <2>2, Turned DEF Moves
    <2>4. l \in Beginnings \ {"load"}
      BY <1>1, <2>2
    <2>5. Handled(s, r)'
      BY <2>3, <2>4 DEF Handled, Beginnings
    <2>6. Careful(s, l, r)
      BY <1>0, <1>1, <1>2, <1>5, <1>8, <2>2, <2>4, <2>5, CarefulTask DEF Beginnings
    <2> QED
      BY <1>2, <1>4, <1>6, <2>2, <2>6 DEF Stepped, Lawful
  <1>10. CASE reg[r] # "none"
    <2>1. Go(s, "load") /\ own' = own
      BY <1>2, <1>10 DEF Context
    <2>2. TurnsTo(s, own[s], "load")
      BY <1>0, <2>1, Staying DEF Points
    <2>3. "load" \in LabelsOf(Do(s))
      BY <1>1 DEF LabelsOf
    <2>4. Moves(s, own[s], "load") /\ Settled(s, own[s], "load")
      BY <1>0, <1>1, <1>3, <1>5, <2>2, <2>3, Keeping
    <2>5. own'[s] = own[s] /\ at'[s] = "load"
      BY <1>0, <2>2, Turned
    <2>6. Touched(r)
      BY <1>10 DEF Touched, Noticed
    <2>7. Handled(s, r)'
      BY <1>5, <1>8, <2>5, <2>6 DEF Handled
    <2>8. Careful(s, "load", r)
      BY <1>0, <1>1, <1>2, <1>5, <1>8, <2>4, <2>6, <2>7, CarefulTask
    <2> QED
      BY <1>2, <1>4, <1>6, <2>4, <2>8 DEF Stepped, Lawful
  <1> QED
    BY <1>9, <1>10

\* An update reads resources.json.
LEMMA LoadStep ==
  ASSUME ResInv, NEW s \in Keeper, Load(s)
  PROVE Stepped(s)
  <1>0. Typed /\ Planned /\ Owned /\ Alone /\ Soundness
    BY DEF ResInv
  <1>1. at[s] = "load" /\ at[s] # "idle" /\ Do(s) \in {"status", "stop", "record"} /\ Target(s) \in Rid
    BY <1>0, Doing DEF Load
  <1>2. PICK r \in Rid : r = Target(s)
    BY <1>1
  <1>3. PICK o : o = [own[s] EXCEPT !.snap = reg]
    OBVIOUS
  <1>4. /\ own' = [own EXCEPT ![s] = o] /\ Go(s, "store")
        /\ UNCHANGED <<daemon, pidf, meta, mpid, reg, orphaned, unlisted, calm, swept>>
        /\ upserting' = (upserting \/ \E q \in Keeper : at[q] = "store")
    BY <1>3 DEF Load, resourceFiles
  <1>5. /\ o \in Chore /\ o.plan = own[s].plan /\ o.cmd = own[s].cmd /\ o.listed = own[s].listed
        /\ o.active = own[s].active /\ o.snap = reg /\ o.pay = own[s].pay
    BY <1>0, <1>3 DEF Typed, Chore
  <1>6. TurnsTo(s, o, "store")
    BY <1>4, <1>5 DEF TurnsTo, Go, Points
  <1>7. WorldTyped'
    <2>1. upserting' \in BOOLEAN
      BY <1>4
    <2> QED
      BY <1>0, <1>4, <2>1 DEF WorldTyped, Typed
  <1>8. \A x \in Rid : Lives(x)' = Lives(x)
    BY <1>4 DEF Lives
  <1>9. WellPlanned(o, "store")
    <2>1. "store" \in LabelsOf(Do(s))
      BY <1>1 DEF LabelsOf
    <2>2. own[s].plan # <<>> /\ own[s].cmd \in CommandNames /\ GoodPlan(own[s].plan, own[s].cmd)
      BY <1>0, <1>1 DEF Planned, WellPlanned
    <2> QED
      BY <1>5, <2>1, <2>2 DEF WellPlanned, Do
  <1>10. own'[s] = o /\ at'[s] = "store"
    BY <1>0, <1>6, Turned
  <1>11. Moves(s, o, "store")
    <2>1. \A x \in Rid : o.snap[x] # "none" => Noticed(x)
      BY <1>5 DEF Noticed
    <2>2. \A x \in o.listed \cup o.active : Noticed(x)
      BY <1>5 DEF Noticed
    <2> QED
      BY <1>5, <1>6, <1>9, <2>1, <2>2 DEF Moves
  <1>12. \A x \in Rid : Pending(s, x)' = Pending(s, x)
    BY <1>5, <1>10 DEF Pending, Has
  <1>13. Balances(s, o)
    BY <1>1, <1>5 DEF Balances, LastPass, Has
  <1>14. upserting => upserting'
    BY <1>4
  <1>15. upserting' \/ \A q \in Keeper : at[q] # "store"
    BY <1>4
  <1>16. Settled(s, o, "store")
    BY <1>1, <1>4, <1>5, <1>8, <1>12, <1>13, <1>14, <1>15 DEF Settled
  <1>17. Local(s)
    BY <1>4 DEF Local, Noticed
  <1>18. Touched(r)
    BY <1>1, <1>2 DEF Touched
  <1>19. SoundBase(r)' /\ Handled(s, r)'
    <2>1. SoundBase(r) /\ Handled(s, r) /\ Uses(s, r)
      BY <1>0, <1>1, <1>2, <1>18 DEF Soundness, Uses
    <2>2. SoundBase(r)'
      BY <1>4, <2>1 DEF SoundBase, Lives
    <2>3. Lives(r) => own[s].pay \in Well
      BY <1>1, <2>1 DEF Handled
    <2> QED
      BY <1>5, <1>8, <1>10, <2>2, <2>3 DEF Handled
  <1>20. Careful(s, "store", r)
    BY <1>0, <1>1, <1>2, <1>8, <1>11, <1>18, <1>19, CarefulTask
  <1> QED
    BY <1>2, <1>7, <1>11, <1>16, <1>17, <1>20 DEF Stepped, Lawful

\* And writes it back, with the new status.
LEMMA StoreStep ==
  ASSUME ResInv, NEW s \in Keeper, Store(s)
  PROVE Stepped(s)
  <1>0. Typed /\ Planned /\ Owned /\ Alone /\ Soundness
    BY DEF ResInv
  <1>1. at[s] = "store" /\ at[s] # "idle" /\ Do(s) \in {"status", "stop", "record"} /\ Target(s) \in Rid
    BY <1>0, Doing DEF Store
  <1>2. PICK r \in Rid : r = Target(s)
    BY <1>1
  <1>3. PICK st : st = ResourceStatus(r, own[s].pay)
    OBVIOUS
  <1>4. /\ UNCHANGED <<daemon, pidf, meta, mpid, upserting, orphaned, unlisted, calm, swept>>
        /\ reg' = [own[s].snap EXCEPT ![r] = st] /\ Done(s, Noted(s))
    BY <1>2, <1>3 DEF Store, resourceGhosts
  <1>5. Touched(r)
    BY <1>1, <1>2 DEF Touched
  <1>6. SoundBase(r) /\ (Lives(r) => own[s].pay \in Well)
    BY <1>0, <1>1, <1>2, <1>5 DEF Soundness, Handled, Uses
  <1>7. st \in RegStatuses /\ (Lives(r) => st = "active")
    BY <1>3, <1>6 DEF ResourceStatus, RegStatuses, Well
  <1>8. own[s] \in Chore /\ own[s].snap \in [Rid -> RegStatuses]
    BY <1>0 DEF Typed, Chore
  <1>9. reg' \in [Rid -> RegStatuses] /\ reg'[r] = st /\ \A x \in Rid \ {r} : reg'[x] = own[s].snap[x]
    BY <1>4, <1>7, <1>8
  <1>10. WorldTyped'
    BY <1>0, <1>4, <1>9 DEF WorldTyped, Typed
  <1>11. \A x \in Rid : Lives(x)' = Lives(x)
    BY <1>4 DEF Lives
  <1>12. PICK li, ac : /\ li = IF st \in Open THEN own[s].listed ELSE own[s].listed \ {r}
                       /\ ac = IF st = "active" THEN own[s].active \cup {r} ELSE own[s].active \ {r}
    OBVIOUS
  <1>13. li \in SUBSET Rid /\ ac \in SUBSET Rid
    BY <1>8, <1>12 DEF Chore
  <1>14. PICK m : m = [Noted(s) EXCEPT !.snap = Unlisted]
    OBVIOUS
  <1>15. Noted(s) = [own[s] EXCEPT !.listed = li, !.active = ac]
    BY <1>2, <1>3, <1>12 DEF Noted
  <1>16. /\ m \in Chore /\ m.plan = own[s].plan /\ m.cmd = own[s].cmd /\ m.snap = Unlisted
         /\ m.listed = li /\ m.active = ac
    <2>1. Unlisted \in [Rid -> RegStatuses]
      BY DEF Unlisted, RegStatuses
    <2> QED
      BY <1>8, <1>13, <1>14, <1>15, <2>1 DEF Chore
  <1>17. PICK p : p = Tail(own[s].plan)
    OBVIOUS
  <1>18. /\ p \in Seq(Todo) /\ GoodPlan(p, own[s].cmd) /\ TaskOf(p) \subseteq TaskOf(own[s].plan)
         /\ \A x \in TaskOf(own[s].plan) : x = <<Do(s), r>> \/ x \in TaskOf(p)
         /\ ~(p # <<>> /\ Head(p)[1] = "record")
         /\ Do(s) = "record" => <<"record", r>> \notin TaskOf(p)
    BY <1>0, <1>1, <1>2, <1>17, NextUp
  <1>19. \A x \in m.listed \cup m.active : Noticed(x) \/ (at[s] = "store" /\ x = Target(s))
    BY <1>1, <1>2, <1>12, <1>16 DEF Noticed
  <1>20. PICK o, l : Moves(s, o, l) /\ Follows(o, l, m, p)
    <2>1. Pursue(s, m, p)
      BY <1>4, <1>14, <1>15, <1>17 DEF Done
    <2> QED
      BY <1>0, <1>1, <1>16, <1>18, <1>19, <2>1, Resumed
  <1>21. /\ o.plan = p /\ o.cmd \in {m.cmd, "none"} /\ o.snap \in {m.snap, Unlisted}
         /\ l \in Beginnings /\ (l = "load" => p # <<>> /\ Head(p)[1] = "record")
         /\ o.cmd = "cleanup" => o.active = m.active
    BY <1>18, <1>20, Followed
  <1>22. own'[s] = o /\ at'[s] = l
    BY <1>0, <1>20, Turned DEF Moves
  <1>23. l \in Beginnings \ {"load"} /\ l # "store" /\ o.snap = Unlisted
    BY <1>16, <1>18, <1>21 DEF Beginnings
  <1>24. ~Pending(s, r)'
    <2>1. CASE Do(s) = "record"
      BY <1>18, <1>21, <1>22, <2>1 DEF Pending, Has
    <2>2. CASE Do(s) # "record"
      <3>1. ~Pending(s, r)
        BY <1>0, <1>1, <1>2, <2>2, StartFacts
      <3> QED
        BY <1>0, <1>20, <3>1, PendingKept
    <2> QED
      BY <2>1, <2>2
  <1>25. ~Coming(s, r)'
    <2>1. ~Coming(s, r)
      BY <1>0, <1>1, <1>2, StartFacts
    <2> QED
      BY <1>0, <1>20, <2>1, PendingKept
  <1>26. SoundBase(r)' /\ Handled(s, r)'
    BY <1>4, <1>6, <1>22, <1>23 DEF SoundBase, Lives, Handled, Beginnings
  <1>27. Careful(s, l, r)
    BY <1>5, <1>11, <1>24, <1>25, <1>26 DEF Careful
  <1>28. Local(s)
    <2>1. ASSUME NEW x \in Rid, reg'[x] # "none", x # r
          PROVE Noticed(x)
      BY <1>9, <2>1 DEF Noticed
    <2> QED
      BY <1>1, <1>2, <1>4, <2>1 DEF Local
  <1>29. \A x \in Rid : Pending(s, x) => Pending(s, x)' \/ x = r
    BY <1>18, <1>21, <1>22 DEF Pending, Has
  <1>30. Balances(s, o)
    <2> SUFFICES ASSUME LastPass(o)
                 PROVE /\ LastPass(own[s])
                       /\ \A x \in Rid : Lives(x)' /\ (x \in own[s].active \/ Has(s, "status", x))
                            => x \in o.active \/ <<"status", x>> \in TaskOf(o.plan) \/ reg[x] = "none"
      BY <1>1 DEF Balances
    <2>1. own[s].cmd = "cleanup" /\ o.active = ac
      BY <1>16, <1>21 DEF LastPass
    <2>2. LastPass(own[s])
      BY <1>1, <1>18, <1>21, <2>1 DEF LastPass
    <2>3. Lives(r)' => r \in o.active
      BY <1>7, <1>11, <1>12, <2>1
    <2>4. ASSUME NEW x \in Rid, x # r, x \in own[s].active \/ Has(s, "status", x)
          PROVE x \in o.active \/ <<"status", x>> \in TaskOf(o.plan)
      BY <1>12, <1>18, <1>21, <2>1, <2>4 DEF Has
    <2> QED
      BY <2>2, <2>3, <2>4
  <1>31. \A x \in Rid : IF x = Target(s) THEN Lives(x) => reg'[x] = "active" ELSE reg'[x] = own[s].snap[x]
    BY <1>2, <1>7, <1>9
  <1>32. Settled(s, o, l)
    BY <1>1, <1>2, <1>4, <1>11, <1>23, <1>29, <1>30, <1>31 DEF Settled
  <1> QED
    BY <1>2, <1>10, <1>20, <1>27, <1>28, <1>32 DEF Stepped, Lawful

\* A list turns to every open record.
LEMMA ListResourcesStep ==
  ASSUME ResInv, NEW s \in Keeper, ListResources(s)
  PROVE Stepped(s)
  <1>0. Typed /\ Planned /\ Owned /\ Alone
    BY DEF ResInv
  <1>1. at[s] = "list" /\ at[s] # "idle" /\ Do(s) = "list" /\ Target(s) \notin Rid
    BY <1>0, Doing, ResourcesAssumption DEF ListResources
  <1>2. PICK R, A : R = {r \in Rid : reg[r] \in Open} /\ A = {r \in R : reg[r] = "active"}
    OBVIOUS
  <1>3. PICK m : m = [own[s] EXCEPT !.listed = R, !.active = A]
    OBVIOUS
  <1>4. /\ UNCHANGED <<daemon, pidf, meta, mpid, reg, upserting, orphaned, unlisted, calm, swept>>
        /\ Pursue(s, m, Tasks("status", R) \o Tail(own[s].plan))
    BY <1>2, <1>3 DEF ListResources, resourceFiles, resourceGhosts
  <1>5. m \in Chore /\ m.cmd = own[s].cmd /\ m.snap = own[s].snap /\ m.listed = R /\ m.active = A
    BY <1>0, <1>2, <1>3 DEF Typed, Chore
  <1>6. own[s].plan \in Seq(Todo) /\ own[s].plan # <<>> /\ own[s].cmd \in CommandNames
        /\ Head(own[s].plan) = <<Do(s), Target(s)>>
    BY <1>0, <1>1, AtWork
  <1>7. own[s].cmd \notin StartCommands
    <2>1. own[s].cmd \in StartCommands => Course(own[s].plan)
      BY <1>0, <1>1, Errand
    <2>2. Head(own[s].plan)[1] = Do(s)
      BY DEF Do
    <2>3. Course(own[s].plan) => Do(s) \in {"listen", "check", "tunnel", "record", "stop"}
      BY <2>2 DEF Course, CourseOf
    <2> QED
      BY <1>1, <2>1, <2>3
  <1>8. PICK p : p = Tasks("status", R) \o Tail(own[s].plan)
    OBVIOUS
  <1>9. GoodPlan(own[s].plan, own[s].cmd)
    BY <1>0, <1>1 DEF Planned, WellPlanned
  <1>10. /\ p \in Seq(Todo) /\ GoodPlan(p, own[s].cmd)
         /\ TaskOf(p) = {<<"status", r>> : r \in R} \cup TaskOf(Tail(own[s].plan))
    <2>1. R \in SUBSET Rid
      BY <1>2
    <2> QED
      BY <1>6, <1>7, <1>8, <1>9, <2>1, ListGood
  <1>11. \A r \in R : r \in Rid /\ Noticed(r)
    BY <1>2 DEF Noticed, Open
  <1>12. \A x \in TaskOf(p) : \/ x \in TaskOf(own[s].plan)
                              \/ x[1] \in {"status", "stop"} /\ x[2] \in Rid /\ Noticed(x[2])
    <2>1. TaskOf(Tail(own[s].plan)) \subseteq TaskOf(own[s].plan)
      BY <1>6, Pop
    <2> QED
      BY <1>10, <1>11, <2>1
  <1>13. ~(p # <<>> /\ Head(p)[1] = "record")
    <2>1. \A x \in TaskOf(own[s].plan) : x[1] # "record"
      BY <1>0, <1>1, <1>7, Errand
    <2>2. p # <<>> => Head(p) \in TaskOf(p)
      BY <1>10, Pop
    <2> QED
      BY <1>12, <2>1, <2>2
  <1>14. PICK o, l : Moves(s, o, l) /\ Follows(o, l, m, p)
    <2>1. \A r \in m.listed \cup m.active : Noticed(r)
      BY <1>2, <1>5, <1>11
    <2>2. Pursue(s, m, p)
      BY <1>4, <1>8
    <2> QED
      BY <1>0, <1>1, <1>5, <1>10, <1>12, <1>13, <2>1, <2>2, Resumed
  <1>15. o.plan = p /\ o.snap \in {m.snap, Unlisted} /\ l \in Beginnings
    BY <1>10, <1>14, Followed
  <1>16. \A r \in Rid : Lives(r)' = Lives(r)
    BY <1>4 DEF Lives
  <1>17. \A r \in Rid : ~Pending(s, r)
    BY <1>0, <1>7, StartFacts DEF Raising, StartCommands
  <1>18. Balances(s, o)
    <2>1. \A r \in Rid : reg[r] \in Open => <<"status", r>> \in TaskOf(o.plan)
      BY <1>2, <1>10, <1>15
    <2> QED
      BY <1>1, <2>1 DEF Balances
  <1>19. o.snap = Unlisted /\ l # "store"
    BY <1>0, <1>1, <1>5, <1>15 DEF Alone, Beginnings
  <1>20. Settled(s, o, l)
    BY <1>1, <1>4, <1>16, <1>17, <1>18, <1>19 DEF Settled
  <1>21. Local(s)
    BY <1>4 DEF Local, Noticed
  <1>22. WorldTyped'
    BY <1>0, <1>4 DEF WorldTyped, Typed
  <1> QED
    BY <1>1, <1>14, <1>20, <1>21, <1>22 DEF Stepped, Lawful

\* A cleanup turns to every listed one.
LEMMA SweepStep ==
  ASSUME ResInv, NEW s \in Keeper, Sweep(s)
  PROVE Stepped(s)
  <1>0. Typed /\ Planned /\ Owned /\ Alone
    BY DEF ResInv
  <1>1. at[s] = "sweep" /\ at[s] # "idle" /\ Do(s) = "sweep" /\ Target(s) \notin Rid
    BY <1>0, Doing, ResourcesAssumption DEF Sweep
  <1>2. PICK R : R = own[s].listed
    OBVIOUS
  <1>4. /\ UNCHANGED <<daemon, pidf, meta, mpid, reg, upserting, orphaned, unlisted, calm, swept>>
        /\ Pursue(s, own[s], Tasks("stop", R) \o Tail(own[s].plan))
    BY <1>2 DEF Sweep, resourceFiles, resourceGhosts
  <1>5. own[s] \in Chore /\ R \in SUBSET Rid
    BY <1>0, <1>2 DEF Typed, Chore
  <1>6. own[s].plan \in Seq(Todo) /\ own[s].plan # <<>> /\ own[s].cmd \in CommandNames
        /\ Head(own[s].plan) = <<Do(s), Target(s)>>
    BY <1>0, <1>1, AtWork
  <1>7. own[s].cmd \notin StartCommands
    <2>1. own[s].cmd \in StartCommands => Course(own[s].plan)
      BY <1>0, <1>1, Errand
    <2>2. Head(own[s].plan)[1] = Do(s)
      BY DEF Do
    <2>3. Course(own[s].plan) => Do(s) \in {"listen", "check", "tunnel", "record", "stop"}
      BY <2>2 DEF Course, CourseOf
    <2> QED
      BY <1>1, <2>1, <2>3
  <1>8. PICK p : p = Tasks("stop", R) \o Tail(own[s].plan)
    OBVIOUS
  <1>9. GoodPlan(own[s].plan, own[s].cmd)
    BY <1>0, <1>1 DEF Planned, WellPlanned
  <1>10. /\ p \in Seq(Todo) /\ GoodPlan(p, own[s].cmd)
         /\ TaskOf(p) = {<<"stop", r>> : r \in R} \cup TaskOf(Tail(own[s].plan))
    BY <1>5, <1>6, <1>7, <1>8, <1>9, ListGood
  <1>11. \A r \in R : r \in Rid /\ Noticed(r)
    BY <1>2, <1>5 DEF Noticed
  <1>12. \A x \in TaskOf(p) : \/ x \in TaskOf(own[s].plan)
                              \/ x[1] \in {"status", "stop"} /\ x[2] \in Rid /\ Noticed(x[2])
    <2>1. TaskOf(Tail(own[s].plan)) \subseteq TaskOf(own[s].plan)
      BY <1>6, Pop
    <2> QED
      BY <1>10, <1>11, <2>1
  <1>13. ~(p # <<>> /\ Head(p)[1] = "record")
    <2>1. \A x \in TaskOf(own[s].plan) : x[1] # "record"
      BY <1>0, <1>1, <1>7, Errand
    <2>2. p # <<>> => Head(p) \in TaskOf(p)
      BY <1>10, Pop
    <2> QED
      BY <1>12, <2>1, <2>2
  <1>14. PICK o, l : Moves(s, o, l) /\ Follows(o, l, own[s], p)
    <2>1. \A r \in own[s].listed \cup own[s].active : Noticed(r)
      BY DEF Noticed
    <2>2. Pursue(s, own[s], p)
      BY <1>4, <1>8
    <2> QED
      BY <1>0, <1>1, <1>5, <1>10, <1>12, <1>13, <2>1, <2>2, Resumed
  <1>15. o.plan = p /\ o.snap \in {own[s].snap, Unlisted} /\ l \in Beginnings
    BY <1>10, <1>14, Followed
  <1>16. \A r \in Rid : Lives(r)' = Lives(r)
    BY <1>4 DEF Lives
  <1>17. \A r \in Rid : ~Pending(s, r)
    BY <1>0, <1>7, StartFacts DEF Raising, StartCommands
  <1>18. ~LastPass(o)
    <2>1. PICK f, n, c : f = own[s].plan /\ n = Len(f) /\ c = own[s].cmd
      OBVIOUS
    <2>2. f \in Seq(Todo) /\ n \in Nat /\ n > 0 /\ f[1][1] = "sweep" /\ Ordered(f, c)
      <3>1. f \in Seq(Todo) /\ f # <<>> /\ Head(f)[1] = "sweep"
        BY <1>1, <1>6, <2>1
      <3>2. Len(f) \in Nat /\ Len(f) > 0 /\ Head(f) = f[1]
        BY <3>1
      <3> QED
        BY <1>7, <1>9, <2>1, <3>1, <3>2 DEF GoodPlan
    <2>3. 1 < n /\ f[2][1] = "list"
      <3>1. 1 \in 1..Len(f) /\ 1 + 1 = 2
        BY <2>1, <2>2
      <3> QED
        BY <2>1, <2>2, <3>1 DEF Ordered
    <2>4. f[2] \in TaskOf(Tail(f))
      <3>1. Len(Tail(f)) = n - 1 /\ \A i \in 1..(n - 1) : Tail(f)[i] = f[i + 1]
        BY <2>1, <2>2, <2>3, Pop
      <3>2. 1 \in 1..(n - 1) /\ 1 + 1 = 2
        BY <2>2, <2>3
      <3> QED
        BY <3>1, <3>2 DEF TaskOf
    <2> QED
      BY <1>10, <1>15, <2>1, <2>3, <2>4 DEF LastPass
  <1>19. o.snap = Unlisted /\ l # "store"
    BY <1>0, <1>1, <1>15 DEF Alone, Beginnings
  <1>20. Settled(s, o, l)
    BY <1>1, <1>4, <1>16, <1>17, <1>18, <1>19 DEF Settled, Balances
  <1>21. Local(s)
    BY <1>4 DEF Local, Noticed
  <1>22. WorldTyped'
    BY <1>0, <1>4 DEF WorldTyped, Typed
  <1> QED
    BY <1>1, <1>14, <1>20, <1>21, <1>22 DEF Stepped, Lawful

\* A cleanup says whether anything is still active.
LEMMA VerdictStep ==
  ASSUME ResInv, NEW s \in Keeper, Verdict(s)
  PROVE Stepped(s)
  <1>0. Typed /\ Planned /\ Owned /\ Alone
    BY DEF ResInv
  <1>1. at[s] = "verdict" /\ at[s] # "idle" /\ Do(s) = "verdict" /\ Target(s) \notin Rid
    BY <1>0, Doing, ResourcesAssumption DEF Verdict
  <1>2. /\ UNCHANGED <<daemon, pidf, meta, mpid, reg, upserting, orphaned, unlisted, calm>>
        /\ swept' = (swept \/ (own[s].active = {} /\ s \in calm)) /\ Done(s, own[s])
    BY DEF Verdict, resourceFiles
  <1>3. own[s] \in Chore
    BY <1>0 DEF Typed
  <1>4. \A r \in Rid : Lives(r)' => Lives(r)
    BY <1>2 DEF Lives
  <1>5. PICK o, l : Moves(s, o, l) /\ Settled(s, o, l)
    <2>1. swept' => swept \/ (at[s] = "verdict" /\ own[s].active = {} /\ s \in calm)
      BY <1>1, <1>2
    <2>2. at[s] \notin {"idle", "store", "list", "sweep"} /\ Do(s) \notin {"record", "status", "stop"}
      BY <1>1
    <2> QED
      BY <1>0, <1>2, <1>3, <1>4, <2>1, <2>2, Popping
  <1>6. Local(s)
    BY <1>2 DEF Local, Noticed
  <1>7. WorldTyped'
    <2>1. swept' \in BOOLEAN
      BY <1>2
    <2> QED
      BY <1>0, <1>2, <2>1 DEF WorldTyped, Typed
  <1> QED
    BY <1>1, <1>5, <1>6, <1>7 DEF Stepped, Lawful

-----------------------------------------------------------------------------
\* Every step of a command is lawful and settled.
LEMMA Stepping ==
  ASSUME ResInv, NEW s \in Keeper, ChoreStep(s)
  PROVE Stepped(s) /\ at[s] # "idle"
  <1>1. at[s] # "idle"
    BY DEF ChoreStep, SpawnListener, AwaitListener, StageTunnel, SpawnTunnel, TunnelPid, TunnelJson,
           AwaitTunnel, ReadStatus, PutStatus, ReadToStop, Signal, ForceDown, WriteStopped, Context,
           Load, Store, ListResources, Sweep, Verdict
  <1>2. Stepped(s)
    BY SpawnListenerStep, StageTunnelStep, SpawnTunnelStep, TunnelPidStep, TunnelJsonStep,
       AwaitListenerStep, AwaitTunnelStep, ReadStatusStep, PutStatusStep, ReadToStopStep, SignalStep,
       ForceDownStep, WriteStoppedStep, ContextStep, LoadStep, StoreStep, ListResourcesStep,
       SweepStep, VerdictStep DEF ChoreStep
  <1> QED
    BY <1>1, <1>2

\* So every step of a command keeps the invariant.
LEMMA ChoreKept ==
  ASSUME ResInv, NEW s \in Keeper, ChoreStep(s)
  PROVE ResInv'
  <1>0. Typed /\ Planned /\ Owned /\ Soundness /\ Shut /\ ListedLive /\ Alone /\ Calm
    BY DEF ResInv
  <1>1. at[s] # "idle" /\ WorldTyped'
    BY Stepping DEF Stepped
  <1>2. PICK o, l : Lawful(s, o, l) /\ Settled(s, o, l)
    BY Stepping DEF Stepped
  <1>3. Moves(s, o, l) /\ TurnsTo(s, o, l) /\ WellPlanned(o, l)
    BY <1>2 DEF Lawful, Moves
  <1>4. own' \in [Keeper -> Chore] /\ at' \in [Keeper -> Points]
    BY <1>0, <1>3, Turned
  <1>5. Typed'
    BY <1>1, <1>4 DEF Typed, WorldTyped
  <1>6. Planned'
    BY <1>0, <1>3, PlansKept
  <1>7. Owned' /\ Soundness'
    BY <1>0, <1>1, <1>2, OwnedKept, SoundnessKept
  <1>8. Shut' /\ ListedLive' /\ Alone' /\ Calm'
    BY <1>0, <1>2, <1>3, ShutKept, ListedLiveKept, AloneKept, CalmKept
  <1> QED
    BY <1>5, <1>6, <1>7, <1>8 DEF ResInv

-----------------------------------------------------------------------------
\* A killed session leaves what it was starting without an owner.
LEMMA DropKept ==
  ASSUME ResInv, NEW s \in Keeper, Drop(s)
  PROVE ResInv'
  <1>0. Typed /\ Planned /\ Owned /\ Soundness /\ Shut /\ ListedLive /\ Alone /\ Calm
    BY DEF ResInv
  <1>1. /\ at[s] # "idle" /\ Go(s, "idle") /\ own' = [own EXCEPT ![s] = NoChore]
        /\ orphaned' = orphaned \cup {r \in Rid : Raising(s) /\ r \in Targets(s) /\ reg[r] = "none"}
        /\ UNCHANGED <<daemon, pidf, meta, mpid, reg, upserting, unlisted, calm, swept>>
    BY DEF Drop, Running, resourceFiles
  <1>2. TurnsTo(s, NoChore, "idle") /\ WellPlanned(NoChore, "idle")
    BY <1>1, NoChoreTyped DEF TurnsTo, Go, Points, WellPlanned
  <1>3. own'[s] = NoChore /\ at'[s] = "idle" /\ \A q \in Keeper \ {s} : own'[q] = own[q] /\ at'[q] = at[q]
    BY <1>0, <1>2, Turned
  <1>4. Typed'
    <2>1. own' \in [Keeper -> Chore] /\ at' \in [Keeper -> Points]
      BY <1>0, <1>2, Turned
    <2> QED
      BY <1>0, <1>1, <2>1 DEF Typed
  <1>5. Planned'
    BY <1>0, <1>2, PlansKept
  <1>6. TaskOf(NoChore.plan) = {} /\ \A r \in Rid : NoChore.snap[r] = "none"
    BY NoChoreTyped, Empty DEF Unlisted
  <1>7. \A r \in Rid : Lives(r)' = Lives(r)
    BY <1>1 DEF Lives
  <1>8. \A q \in Keeper, r \in Rid : q = s => ~Pending(q, r)' /\ ~Coming(q, r)' /\ ~Has(q, "status", r)'
    BY <1>3, <1>6 DEF Pending, Coming, Has
  <1>9. \A q \in Keeper, r \in Rid : q # s => Pending(q, r)' = Pending(q, r)
    BY <1>3 DEF Pending, Has
  <1>10. Moves(s, NoChore, "idle")
    BY <1>2, <1>6, NoChoreTyped DEF Moves, Beginnings
  <1>11. Local(s)
    BY <1>1 DEF Local, Noticed
  <1>12. Lawful(s, NoChore, "idle")
    <2> SUFFICES ASSUME NEW r \in Rid, r = Target(s)
                 PROVE Careful(s, "idle", r)
      BY <1>10, <1>11 DEF Lawful
    <2>1. Touched(r) => SoundBase(r)'
      BY <1>0, <1>1 DEF Soundness, SoundBase, Lives
    <2>2. Handled(s, r)'
      BY <1>3 DEF Handled
    <2> QED
      BY <1>7, <1>8, <2>1, <2>2 DEF Careful
  <1>13. Owned' /\ Soundness'
    BY <1>0, <1>1, <1>12, OwnedKept, SoundnessKept
  <1>14. Shut'
    <2>1. \A q \in Keeper, r \in Rid : own'[q].snap[r] \in {"none", own[q].snap[r]}
      BY <1>3, <1>6
    <2> QED
      BY <1>0, <1>1, <1>7, <2>1 DEF Shut
  <1>15. ListedLive'
    <2> SUFFICES ASSUME ~upserting, NEW r \in Rid, Lives(r)
                 PROVE reg[r] \in Open \/ r \in Excused' \/ \E q \in Keeper : Pending(q, r)'
      BY <1>1, <1>7 DEF ListedLive
    <2>1. reg[r] \in Open \/ r \in Excused \/ \E q \in Keeper : Pending(q, r)
      BY <1>0 DEF ListedLive
    <2>2. CASE Pending(s, r)
      <3>1. Raising(s) /\ r \in Targets(s)
        BY <1>0, <2>2, StartFacts
      <3>2. reg[r] = "none"
        BY <1>0, <2>2 DEF Owned, Noticed
      <3> QED
        BY <1>1, <3>1, <3>2 DEF Excused
    <2> QED
      BY <1>1, <1>9, <2>1, <2>2 DEF Excused
  <1>16. Alone'
    BY <1>0, <1>1, <1>3, NoChoreTyped DEF Alone
  <1>17. \A q \in Keeper : Raising(q)' => Raising(q)
    BY <1>3, NoChoreTyped DEF Raising
  <1>18. Calm'
    <2>1. ASSUME ~upserting', NEW p \in calm', LastPass(own'[p]), NEW r \in Rid, Lives(r)'
          PROVE r \in Excused' \/ r \in own'[p].active \/ Has(p, "status", r)'
      <3>1. p \in Keeper /\ p \in calm
        BY <1>0, <1>1, <2>1 DEF Typed
      <3>2. p # s
        BY <1>3, <2>1, NoChoreTyped DEF LastPass
      <3>3. r \in Excused \/ r \in own[p].active \/ Has(p, "status", r)
        BY <1>0, <1>1, <1>3, <1>7, <2>1, <3>1, <3>2 DEF Calm
      <3> QED
        BY <1>1, <1>3, <3>1, <3>2, <3>3 DEF Excused, Has
    <2>2. SweptClean'
      BY <1>0, <1>1, <1>7 DEF Calm, SweptClean
    <2> QED
      BY <1>0, <1>1, <1>17, <2>1, <2>2 DEF Calm
  <1> QED
    BY <1>4, <1>5, <1>13, <1>14, <1>15, <1>16, <1>18 DEF ResInv

\* A launched listener has written its metadata.
LEMMA ServeKept ==
  ASSUME ResInv, NEW r \in Rid, Serve(r)
  PROVE ResInv'
  <1>0. Typed /\ Planned /\ Owned /\ Soundness /\ Shut /\ ListedLive /\ Alone /\ Calm
    BY DEF ResInv
  <1>1. /\ r \in Listener /\ daemon[r] = "launched" /\ daemon' = [daemon EXCEPT ![r] = "up"]
        /\ pidf' = pidf \cup {r} /\ mpid' = mpid \cup {r} /\ meta' = [meta EXCEPT ![r] = "running"]
        /\ UNCHANGED <<reg, at, own, upserting, orphaned, unlisted, calm, swept>>
    BY DEF Serve, resourceGhosts
  <1>2. /\ daemon'[r] = "up" /\ meta'[r] = "running"
        /\ \A x \in Rid \ {r} : daemon'[x] = daemon[x] /\ meta'[x] = meta[x] /\ (x \in mpid' <=> x \in mpid)
    BY <1>0, <1>1 DEF Typed
  <1>3. \A x \in Rid : Lives(x)' = Lives(x)
    BY <1>1, <1>2 DEF Lives
  <1>4. Typed'
    BY <1>0, <1>1 DEF Typed, MetaStatuses
  <1>5. Planned'
    BY <1>0, <1>1 DEF Planned
  <1>6. ~Touched(r)
    BY <1>0, <1>1 DEF Soundness, SoundBase, Lives
  <1>7. \A s \in Keeper, x \in Rid : /\ Pending(s, x)' = Pending(s, x) /\ Coming(s, x)' = Coming(s, x)
                                     /\ Uses(s, x)' = Uses(s, x)
    BY <1>1 DEF Pending, Coming, Has, Uses, Target
  <1>8. \A x \in Rid : Touched(x)' = Touched(x) /\ Noticed(x)' = Noticed(x)
    BY <1>1 DEF Touched, Noticed, Target
  <1>9. Owned'
    <2>1. ASSUME NEW s \in Keeper, NEW x \in Rid, Coming(s, x)
          PROVE Scene(s, x)'
      <3>1. Scene(s, x)
        BY <1>0, <2>1 DEF Owned
      <3>2. CASE x # r
        BY <1>1, <1>2, <1>7, <3>1, <3>2 DEF Scene
      <3>3. CASE x = r
        BY <1>1, <1>2, <1>7, <3>1, <3>3 DEF Scene
      <3> QED
        BY <3>2, <3>3
    <2>2. ASSUME NEW s \in Keeper
          PROVE Targets(s)' = Targets(s)
      BY <1>1 DEF Targets
    <2> QED
      BY <1>0, <1>7, <1>8, <2>1, <2>2 DEF Owned
  <1>10. Soundness'
    <2> SUFFICES ASSUME NEW x \in Rid, Touched(x)
                 PROVE SoundBase(x)' /\ \A q \in Keeper : Handled(q, x)'
      BY <1>8 DEF Soundness
    <2>1. x # r /\ SoundBase(x) /\ \A q \in Keeper : Handled(q, x)
      BY <1>0, <1>6 DEF Soundness
    <2>2. SoundBase(x)'
      BY <1>2, <2>1 DEF SoundBase, Lives
    <2> QED
      BY <1>1, <1>3, <1>7, <2>1, <2>2 DEF Handled
  <1>11. Shut' /\ ListedLive' /\ Alone'
    BY <1>0, <1>1, <1>3, <1>7 DEF Shut, ListedLive, Alone, Excused
  <1>12. Calm'
    <2>1. \A q \in Keeper : Raising(q)' = Raising(q)
      BY <1>1 DEF Raising
    <2>2. SweptClean'
      BY <1>0, <1>1, <1>3 DEF Calm, SweptClean
    <2> QED
      BY <1>0, <1>1, <1>3, <2>1, <2>2 DEF Calm, Excused, Has
  <1> QED
    BY <1>4, <1>5, <1>9, <1>10, <1>11, <1>12 DEF ResInv

\* A process that dies breaks nothing.
LEMMA CrashKept ==
  ASSUME ResInv, NEW r \in Rid, Crash(r)
  PROVE ResInv'
  <1>0. Typed /\ Planned /\ Owned /\ Soundness /\ Shut /\ ListedLive /\ Alone /\ Calm
    BY DEF ResInv
  <1>1. /\ Lives(r) /\ daemon' = [daemon EXCEPT ![r] = "gone"]
        /\ UNCHANGED <<pidf, meta, mpid, reg, at, own, upserting, orphaned, unlisted, calm, swept>>
    BY DEF Crash, resourceFiles, resourceGhosts
  <1>2. daemon'[r] = "gone" /\ \A x \in Rid \ {r} : daemon'[x] = daemon[x]
    BY <1>0, <1>1 DEF Typed
  <1>3. \A x \in Rid : Lives(x)' => Lives(x) /\ x # r
    BY <1>2 DEF Lives
  <1>4. Typed'
    BY <1>0, <1>1 DEF Typed
  <1>5. Planned'
    BY <1>0, <1>1 DEF Planned
  <1>7. \A s \in Keeper, x \in Rid : /\ Pending(s, x)' = Pending(s, x) /\ Coming(s, x)' = Coming(s, x)
                                     /\ Uses(s, x)' = Uses(s, x)
    BY <1>1 DEF Pending, Coming, Has, Uses, Target
  <1>8. \A x \in Rid : Touched(x)' = Touched(x) /\ Noticed(x)' = Noticed(x)
    BY <1>1 DEF Touched, Noticed, Target
  <1>9. Owned'
    <2>1. ASSUME NEW s \in Keeper, NEW x \in Rid, Coming(s, x)
          PROVE Scene(s, x)'
      <3>1. Scene(s, x)
        BY <1>0, <2>1 DEF Owned
      <3>2. CASE x # r
        BY <1>1, <1>2, <1>7, <3>1, <3>2 DEF Scene
      <3>3. CASE x = r
        BY <1>1, <1>2, <1>7, <3>1, <3>3 DEF Scene, Lives
      <3> QED
        BY <3>2, <3>3
    <2>2. ASSUME NEW s \in Keeper
          PROVE Targets(s)' = Targets(s)
      BY <1>1 DEF Targets
    <2> QED
      BY <1>0, <1>7, <1>8, <2>1, <2>2 DEF Owned
  <1>10. Soundness'
    <2> SUFFICES ASSUME NEW x \in Rid, Touched(x)
                 PROVE SoundBase(x)' /\ \A q \in Keeper : Handled(q, x)'
      BY <1>8 DEF Soundness
    <2>1. SoundBase(x) /\ \A q \in Keeper : Handled(q, x)
      BY <1>0 DEF Soundness
    <2>2. SoundBase(x)'
      BY <1>1, <1>2, <2>1 DEF SoundBase, Lives
    <2> QED
      BY <1>1, <1>3, <1>7, <2>1, <2>2 DEF Handled
  <1>11. Shut' /\ ListedLive' /\ Alone'
    BY <1>0, <1>1, <1>3, <1>7 DEF Shut, ListedLive, Alone, Excused
  <1>12. Calm'
    <2>1. \A q \in Keeper : Raising(q)' = Raising(q)
      BY <1>1 DEF Raising
    <2>2. SweptClean'
      BY <1>0, <1>1, <1>3 DEF Calm, SweptClean
    <2> QED
      BY <1>0, <1>1, <1>3, <2>1, <2>2 DEF Calm, Excused, Has
  <1> QED
    BY <1>4, <1>5, <1>9, <1>10, <1>11, <1>12 DEF ResInv

-----------------------------------------------------------------------------
\* No session has started r yet.
LEMMA FreshId ==
  ASSUME ResInv, NEW r \in Rid, Fresh(r)
  PROVE ~Touched(r) /\ daemon[r] = "none" /\ meta[r] = "none" /\ \A q \in Keeper : r \notin Targets(q) /\ ~Pending(q, r)
  <1>0. Typed /\ Planned /\ Soundness
    BY DEF ResInv
  <1>1. daemon[r] = "none" /\ meta[r] = "none" /\ \A q \in Keeper : r \notin Targets(q)
    BY DEF Fresh
  <1>2. ~Touched(r)
    BY <1>0, <1>1 DEF Soundness, SoundBase
  <1>3. \A q \in Keeper : ~Pending(q, r)
    BY <1>0, <1>1, StartFacts
  <1> QED
    BY <1>1, <1>2, <1>3

\* A command that begins with fresh ids, or ones an operator can name.
LEMMA BeginKept ==
  ASSUME ResInv, NEW s \in Keeper, NEW cmd \in CommandNames, NEW p \in Seq(Todo), p # <<>>,
         GoodPlan(p, cmd), Head(p)[1] # "record",
         \A x \in TaskOf(p) :
           \/ x[2] \in Rid /\ Fresh(x[2])
           \/ x[1] \notin {"listen", "tunnel", "record"} /\ (x[2] \in Rid => Nameable(x[2])),
         cmd = "cleanup" => \E x \in TaskOf(p) : x[1] = "list",
         BeginWith(s, cmd, p)
  PROVE ResInv'
  <1>0. Typed /\ Planned /\ Owned /\ Soundness /\ Shut /\ ListedLive /\ Alone /\ Calm
    BY DEF ResInv
  <1>1. /\ at[s] = "idle" /\ Pursue(s, [NoChore EXCEPT !.cmd = cmd], p)
        /\ UNCHANGED <<daemon, pidf, meta, mpid, reg, upserting, orphaned, unlisted>>
        /\ swept' = (swept /\ ~(cmd \in StartCommands))
        /\ calm' = IF cmd \in StartCommands THEN {}
                   ELSE IF \E q \in Keeper : Raising(q) THEN calm \ {s} ELSE calm \cup {s}
    BY DEF BeginWith, resourceFiles, StartCommands
  <1>2. PICK m : m = [NoChore EXCEPT !.cmd = cmd]
    OBVIOUS
  <1>3. m \in Chore /\ m.cmd = cmd /\ m.snap = Unlisted /\ m.listed = {} /\ m.active = {}
    BY <1>2, NoChoreTyped DEF Chore
  <1>4. PICK o, l : TurnsTo(s, o, l) /\ Follows(o, l, m, p)
    BY <1>0, <1>1, <1>2, <1>3, Pursued
  <1>5. /\ o.plan = p /\ o.snap = Unlisted /\ o.listed = {} /\ o.active = {} /\ o.cmd = cmd
        /\ l \in Beginnings /\ l # "load" /\ l # "idle" /\ l \in LabelsOf(Head(p)[1])
    BY <1>3, <1>4, Followed
  <1>6. WellPlanned(o, l)
    BY <1>5 DEF WellPlanned
  <1>7. own'[s] = o /\ at'[s] = l /\ \A q \in Keeper \ {s} : own'[q] = own[q] /\ at'[q] = at[q]
    BY <1>0, <1>4, Turned
  <1>8. own[s] = NoChore /\ TaskOf(own[s].plan) = {} /\ Targets(s) = {}
    BY <1>0, <1>1, Idle
  <1>9. Typed'
    <2>1. own' \in [Keeper -> Chore] /\ at' \in [Keeper -> Points]
      BY <1>0, <1>4, Turned
    <2>2. swept' \in BOOLEAN /\ calm' \subseteq Keeper
      BY <1>0, <1>1 DEF Typed
    <2> QED
      BY <1>0, <1>1, <2>1, <2>2 DEF Typed
  <1>10. Planned'
    BY <1>0, <1>4, <1>6, PlansKept
  <1>11. \A r \in Rid : Lives(r)' = Lives(r)
    BY <1>1 DEF Lives
  <1>12. ASSUME NEW r \in Rid, Noticed(r)'
         PROVE Noticed(r)
    <2>1. o.snap[r] = "none" /\ r \notin o.listed \cup o.active
      BY <1>5 DEF Unlisted
    <2> QED
      BY <1>1, <1>7, <1>12, <2>1 DEF Noticed
  <1>13. ASSUME NEW r \in Rid, Touched(r)'
         PROVE Touched(r)
    <2>1. ASSUME NEW q \in Keeper, at'[q] \in {"load", "store"}, Target(q)' = r
          PROVE at[q] \in {"load", "store"} /\ Target(q) = r
      <3>1. q # s
        BY <1>5, <1>7, <2>1 DEF Beginnings
      <3> QED
        BY <1>7, <2>1, <3>1 DEF Target
    <2> QED
      BY <1>12, <1>13, <2>1 DEF Touched
  <1>14. \A q \in Keeper \ {s}, r \in Rid :
           /\ Pending(q, r)' = Pending(q, r) /\ Coming(q, r)' = Coming(q, r) /\ Uses(q, r)' = Uses(q, r)
           /\ Targets(q)' = Targets(q)
    BY <1>7 DEF Pending, Coming, Has, Uses, Target, Targets
  <1>15. ASSUME NEW r \in Rid, Pending(s, r)' \/ Coming(s, r)'
         PROVE Fresh(r)
    <2>1. PICK d \in {"record", "listen", "tunnel"} : <<d, r>> \in TaskOf(p)
      BY <1>5, <1>7, <1>15 DEF Pending, Coming, Has
    <2>2. <<d, r>>[1] = d /\ <<d, r>>[2] = r
      OBVIOUS
    <2> QED
      BY <2>1, <2>2
  <1>16. ASSUME NEW q \in Keeper \ {s}, NEW r \in Rid, Pending(q, r)
         PROVE r \notin Targets(s)'
    <2> SUFFICES ASSUME NEW x \in TaskOf(p), x[2] = r
                 PROVE FALSE
      BY <1>5, <1>7 DEF Targets, TaskOf
    <2>1. Raising(q) /\ r \in Targets(q)
      BY <1>0, <1>16, StartFacts
    <2> QED
      BY <2>1 DEF Fresh, Nameable
  <1>17. Owned'
    <2>1. ASSUME NEW q \in Keeper, NEW r \in Rid, Pending(q, r)'
          PROVE ~Noticed(r)' /\ \A y \in Keeper \ {q} : r \notin Targets(y)'
      <3>1. CASE q = s
        <4>1. ~Touched(r) /\ \A y \in Keeper : r \notin Targets(y)
          BY <1>15, <2>1, <3>1, FreshId
        <4> QED
          BY <1>12, <1>14, <3>1, <4>1 DEF Touched
      <3>2. CASE q # s
        <4>1. Pending(q, r) /\ ~Noticed(r) /\ \A y \in Keeper \ {q} : r \notin Targets(y)
          BY <1>0, <1>14, <2>1, <3>2 DEF Owned
        <4> QED
          BY <1>12, <1>14, <1>16, <3>2, <4>1
      <3> QED
        BY <3>1, <3>2
    <2>2. ASSUME NEW q \in Keeper, NEW r \in Rid, Coming(q, r)'
          PROVE Scene(q, r)'
      <3>1. CASE q = s
        <4>1. daemon[r] = "none" /\ meta[r] = "none"
          BY <1>15, <2>2, <3>1, FreshId
        <4> QED
          BY <1>1, <1>5, <1>7, <3>1, <4>1 DEF Scene, Beginnings
      <3>2. CASE q # s
        <4>1. Scene(q, r)
          BY <1>0, <1>14, <2>2, <3>2 DEF Owned
        <4> QED
          BY <1>1, <1>7, <1>14, <3>2, <4>1 DEF Scene
      <3> QED
        BY <3>1, <3>2
    <2> QED
      BY <2>1, <2>2 DEF Owned
  <1>18. Soundness'
    <2> SUFFICES ASSUME NEW r \in Rid, Touched(r)'
                 PROVE SoundBase(r)' /\ \A q \in Keeper : Handled(q, r)'
      BY DEF Soundness
    <2>1. SoundBase(r) /\ \A q \in Keeper : Handled(q, r)
      BY <1>0, <1>13 DEF Soundness
    <2>2. SoundBase(r)'
      BY <1>1, <2>1 DEF SoundBase, Lives
    <2>3. Handled(s, r)'
      BY <1>5, <1>7 DEF Handled, Beginnings
    <2>4. \A q \in Keeper \ {s} : Handled(q, r)'
      BY <1>7, <1>11, <1>14, <2>1 DEF Handled
    <2> QED
      BY <2>2, <2>3, <2>4
  <1>19. Shut'
    <2>1. \A q \in Keeper, r \in Rid : own'[q].snap[r] \in {"none", own[q].snap[r]}
      BY <1>5, <1>7 DEF Unlisted
    <2> QED
      BY <1>0, <1>1, <1>11, <2>1 DEF Shut
  <1>20. ListedLive'
    <2>1. \A r \in Rid : ~Pending(s, r)
      BY <1>8 DEF Pending, Has
    <2> QED
      BY <1>0, <1>1, <1>11, <1>14, <2>1 DEF ListedLive, Excused
  <1>21. Alone'
    <2>1. l # "store" /\ at[s] # "store"
      BY <1>1, <1>5 DEF Beginnings
    <2> QED
      BY <1>0, <1>1, <1>5, <1>7, <2>1 DEF Alone
  <1>22. Calm'
    <2>1. ASSUME calm' # {} \/ swept'
          PROVE cmd \notin StartCommands /\ \A q \in Keeper : ~Raising(q) /\ ~Raising(q)'
      <3>1. cmd \notin StartCommands
        BY <1>1, <2>1
      <3>2. \A q \in Keeper : ~Raising(q)
        BY <1>0, <1>1, <2>1, <3>1 DEF Calm
      <3>3. ~Raising(s)'
        BY <1>5, <1>7, <3>1 DEF Raising, StartCommands
      <3>4. \A q \in Keeper \ {s} : ~Raising(q)'
        BY <1>7, <3>2 DEF Raising
      <3> QED
        BY <3>1, <3>2, <3>3, <3>4
    <2>2. ASSUME ~upserting', NEW q \in calm', LastPass(own'[q]), NEW r \in Rid, Lives(r)'
          PROVE r \in Excused' \/ r \in own'[q].active \/ Has(q, "status", r)'
      <3>1. q # s
        BY <1>5, <1>7, <2>2 DEF LastPass
      <3>2. q \in calm /\ q \in Keeper
        <4>1. q \in calm
          BY <1>1, <2>2, <3>1
        <4> QED
          BY <1>0, <4>1 DEF Typed
      <3>3. r \in Excused \/ r \in own[q].active \/ Has(q, "status", r)
        BY <1>0, <1>1, <1>7, <1>11, <2>2, <3>1, <3>2 DEF Calm
      <3> QED
        BY <1>1, <1>7, <3>1, <3>2, <3>3 DEF Excused, Has
    <2>3. SweptClean'
      <3>1. swept' => swept
        BY <1>1
      <3> QED
        BY <1>0, <1>1, <1>11, <3>1 DEF Calm, SweptClean
    <2> QED
      BY <2>1, <2>2, <2>3 DEF Calm
  <1> QED
    BY <1>9, <1>10, <1>17, <1>18, <1>19, <1>20, <1>21, <1>22 DEF ResInv

\* A plan is its own last part.
LEMMA Whole == ASSUME NEW p \in Seq(Todo) PROVE Suffix(p, p)
  <1>1. PICK n \in Nat : n = Len(p)
    OBVIOUS
  <1>2. \A i \in 1..n : n - n + i = i
    OBVIOUS
  <1> QED
    BY <1>1, <1>2 DEF Suffix

\* A command of a single task.
LEMMA BeginOne ==
  ASSUME ResInv, NEW s \in Keeper, NEW cmd \in {"status", "stop", "list"}, NEW r,
         <<cmd, r>> \in Todo, r \in Rid => Nameable(r), BeginWith(s, cmd, << <<cmd, r>> >>)
  PROVE ResInv'
  <1>1. PICK p : p = << <<cmd, r>> >>
    OBVIOUS
  <1>2. p \in Seq(Todo) /\ p # <<>> /\ Len(p) = 1 /\ p[1] = <<cmd, r>> /\ Head(p) = <<cmd, r>>
    BY <1>1
  <1>3. TaskOf(p) = {<<cmd, r>>}
    <2>1. 1..1 = {1}
      OBVIOUS
    <2> QED
      BY <1>2, <2>1 DEF TaskOf
  <1>4. cmd \in CommandNames \ StartCommands /\ cmd # "cleanup"
    BY DEF CommandNames, StartCommands
  <1>5. Ordered(p, cmd)
    BY <1>2 DEF Ordered
  <1>6. GoodPlan(p, cmd)
    BY <1>4, <1>5 DEF GoodPlan
  <1>7. \A x \in TaskOf(p) : x[1] \notin {"listen", "tunnel", "record"} /\ (x[2] \in Rid => Nameable(x[2]))
    BY <1>3
  <1>8. Head(p)[1] # "record"
    BY <1>2
  <1> QED
    BY <1>1, <1>2, <1>4, <1>6, <1>7, <1>8, BeginKept

\* Every command begins so.
LEMMA BeginChoreKept ==
  ASSUME ResInv, NEW s \in Keeper, BeginChore(s)
  PROVE ResInv'
  <1>1. CASE \E l \in Listener : Fresh(l) /\ BeginWith(s, "listen", Plan("listen", l, l))
    <2>1. PICK l \in Listener : Fresh(l) /\ BeginWith(s, "listen", Plan("listen", l, l))
      BY <1>1
    <2>2. PICK p : p = << <<"listen", l>>, <<"record", l>> >>
      OBVIOUS
    <2>3. l \in Rid /\ "listen" \in StartCommands /\ "listen" \in CommandNames /\ p = Plan("listen", l, l)
      BY <2>2 DEF Rid, StartCommands, CommandNames, Plan
    <2>4. p \in Seq(Todo) /\ p # <<>> /\ Head(p) = <<"listen", l>>
      BY <2>2, <2>3 DEF Todo
    <2>5. GoodPlan(p, "listen")
      BY <2>3, <2>4, Whole DEF GoodPlan
    <2>6. \A x \in TaskOf(p) : x[2] = l
      <3>1. Len(p) = 2 /\ 1..2 = {1, 2} /\ p[1][2] = l /\ p[2][2] = l
        BY <2>2
      <3> QED
        BY <3>1 DEF TaskOf
    <2> QED
      BY <2>1, <2>3, <2>4, <2>5, <2>6, BeginKept
  <1>2. CASE \E l \in Listener, t \in Tunnel :
               Nameable(l) /\ Fresh(t) /\ BeginWith(s, "tunnel", Plan("tunnel", l, t))
    <2>1. PICK l \in Listener, t \in Tunnel :
            Nameable(l) /\ Fresh(t) /\ BeginWith(s, "tunnel", Plan("tunnel", l, t))
      BY <1>2
    <2>2. PICK p : p = << <<"check", l>>, <<"tunnel", t>>, <<"record", t>> >>
      OBVIOUS
    <2>3. l \in Rid /\ t \in Rid /\ "tunnel" \in StartCommands /\ "tunnel" \in CommandNames /\ p = Plan("tunnel", l, t)
      BY <2>2 DEF Rid, StartCommands, CommandNames, Plan
    <2>4. p \in Seq(Todo) /\ p # <<>> /\ Head(p) = <<"check", l>>
      BY <2>2, <2>3 DEF Todo
    <2>5. GoodPlan(p, "tunnel")
      BY <2>3, <2>4, Whole DEF GoodPlan
    <2>6. \A x \in TaskOf(p) : x = <<"check", l>> \/ x[2] = t
      <3>1. Len(p) = 3 /\ 1..3 = {1, 2, 3} /\ p[1] = <<"check", l>> /\ p[2][2] = t /\ p[3][2] = t
        BY <2>2
      <3> QED
        BY <3>1 DEF TaskOf
    <2>7. <<"check", l>>[1] = "check" /\ <<"check", l>>[2] = l
      OBVIOUS
    <2> QED
      BY <2>1, <2>3, <2>4, <2>5, <2>6, <2>7, BeginKept
  <1>3. CASE \E l \in Listener, t \in Tunnel :
               Fresh(l) /\ Fresh(t) /\ BeginWith(s, "smoke", Plan("smoke", l, t))
    <2>1. PICK l \in Listener, t \in Tunnel :
            Fresh(l) /\ Fresh(t) /\ BeginWith(s, "smoke", Plan("smoke", l, t))
      BY <1>3
    <2>2. PICK p : p = << <<"listen", l>>, <<"record", l>>, <<"tunnel", t>>, <<"record", t>>,
                          <<"stop", t>>, <<"stop", l>> >>
      OBVIOUS
    <2>3. l \in Rid /\ t \in Rid /\ "smoke" \in StartCommands /\ "smoke" \in CommandNames /\ p = Plan("smoke", l, t)
      BY <2>2 DEF Rid, StartCommands, CommandNames, Plan
    <2>4. p \in Seq(Todo) /\ p # <<>> /\ Head(p) = <<"listen", l>>
      BY <2>2, <2>3 DEF Todo
    <2>5. GoodPlan(p, "smoke")
      BY <2>3, <2>4, Whole DEF GoodPlan
    <2>6. \A x \in TaskOf(p) : x[2] \in {l, t}
      <3>1. /\ Len(p) = 6 /\ 1..6 = {1, 2, 3, 4, 5, 6} /\ p[1][2] = l /\ p[2][2] = l
            /\ p[3][2] = t /\ p[4][2] = t /\ p[5][2] = t /\ p[6][2] = l
        BY <2>2
      <3> QED
        BY <3>1 DEF TaskOf
    <2> QED
      BY <2>1, <2>3, <2>4, <2>5, <2>6, BeginKept
  <1>4. CASE \/ \E r \in Rid : Nameable(r) /\ BeginWith(s, "status", << <<"status", r>> >>)
             \/ \E r \in Rid : Nameable(r) /\ BeginWith(s, "stop", << <<"stop", r>> >>)
    <2>1. PICK cmd \in {"status", "stop"}, r \in Rid : Nameable(r) /\ BeginWith(s, cmd, << <<cmd, r>> >>)
      BY <1>4
    <2>2. <<cmd, r>> \in Todo
      BY DEF Todo
    <2> QED
      BY <2>1, <2>2, BeginOne
  <1>5. CASE BeginWith(s, "list", Plan("list", "any", "any"))
    <2>1. Plan("list", "any", "any") = << <<"list", "any">> >>
      BY DEF Plan
    <2>2. <<"list", "any">> \in Todo /\ "any" \notin Rid
      BY ResourcesAssumption DEF Todo
    <2> QED
      BY <1>5, <2>1, <2>2, BeginOne
  <1>6. CASE BeginWith(s, "cleanup", Plan("cleanup", "any", "any"))
    <2>1. PICK p : p = << <<"list", "any">>, <<"sweep", "any">>, <<"list", "any">>, <<"verdict", "any">> >>
      OBVIOUS
    <2>2. p = Plan("cleanup", "any", "any")
      BY <2>1 DEF Plan
    <2>3. /\ p \in Seq(Todo) /\ p # <<>> /\ Len(p) = 4 /\ Head(p) = <<"list", "any">>
          /\ p[1] = <<"list", "any">> /\ p[2] = <<"sweep", "any">>
          /\ p[3] = <<"list", "any">> /\ p[4] = <<"verdict", "any">>
      BY <2>1 DEF Todo
    <2>4. 1..4 = {1, 2, 3, 4}
      OBVIOUS
    <2>5. Ordered(p, "cleanup")
      BY <2>3, <2>4 DEF Ordered
    <2>6. TaskOf(p) = {<<"list", "any">>, <<"sweep", "any">>, <<"verdict", "any">>}
      BY <2>3, <2>4 DEF TaskOf
    <2>7. "any" \notin Rid /\ "cleanup" \in CommandNames \ StartCommands
      BY ResourcesAssumption DEF CommandNames, StartCommands
    <2>8. \A x \in TaskOf(p) : x[1] \notin {"listen", "tunnel", "record"} /\ x[2] \notin Rid
      BY <2>6, <2>7
    <2>9. \E x \in TaskOf(p) : x[1] = "list"
      BY <2>6
    <2>10. GoodPlan(p, "cleanup") /\ Head(p)[1] # "record"
      BY <2>3, <2>5, <2>7 DEF GoodPlan
    <2> QED
      BY <1>6, <2>2, <2>3, <2>7, <2>8, <2>9, <2>10, BeginKept
  <1> QED
    BY <1>1, <1>2, <1>3, <1>4, <1>5, <1>6 DEF BeginChore

-----------------------------------------------------------------------------
\* The invariant holds at first.
LEMMA ResStart == ResourcesInit => ResInv
  <1> SUFFICES ASSUME ResourcesInit
               PROVE ResInv
    OBVIOUS
  <1>1. /\ daemon = [r \in Rid |-> "none"] /\ pidf = {} /\ mpid = {} /\ meta = [r \in Rid |-> "none"]
        /\ reg = Unlisted /\ at = [s \in Keeper |-> "idle"] /\ own = [s \in Keeper |-> NoChore]
        /\ upserting = FALSE /\ orphaned = {} /\ unlisted = {} /\ calm = {} /\ swept = FALSE
    BY DEF ResourcesInit
  <1>2. \A s \in Keeper : at[s] = "idle" /\ own[s] = NoChore
    BY <1>1
  <1>3. \A r \in Rid : daemon[r] = "none" /\ reg[r] = "none" /\ ~Lives(r)
    BY <1>1 DEF Unlisted, Lives
  <1>4. Typed
    BY <1>1, NoChoreTyped DEF Typed, Unlisted, RegStatuses, MetaStatuses, Points
  <1>5. Planned
    BY <1>2 DEF Planned, WellPlanned
  <1>6. \A s \in Keeper : TaskOf(own[s].plan) = {}
    BY <1>2, <1>5, Idle
  <1>7. Owned
    BY <1>6 DEF Owned, Pending, Coming, Has
  <1>8. \A r \in Rid : ~Touched(r)
    BY <1>2, <1>3, NoChoreTyped DEF Touched, Noticed, Unlisted
  <1>9. Soundness /\ Shut /\ ListedLive
    BY <1>3, <1>8 DEF Soundness, Shut, ListedLive
  <1>10. Alone
    BY <1>2, NoChoreTyped DEF Alone
  <1>11. Calm
    BY <1>1 DEF Calm, SweptClean
  <1> QED
    BY <1>4, <1>5, <1>7, <1>9, <1>10, <1>11 DEF ResInv

\* And is kept by every step.
LEMMA ResKept == ResInv /\ [ResourcesNext]_resourceVars => ResInv'
  <1> SUFFICES ASSUME ResInv, [ResourcesNext]_resourceVars
               PROVE ResInv'
    OBVIOUS
  <1>1. CASE ResourcesNext
    BY <1>1, BeginChoreKept, ChoreKept, DropKept, ServeKept, CrashKept DEF ResourcesNext
  <1>2. CASE UNCHANGED resourceVars
    <2>1. UNCHANGED <<daemon, pidf, meta, mpid, reg, at, own, upserting, orphaned, unlisted, calm, swept>>
      BY <1>2 DEF resourceVars, resourceFiles, resourceGhosts
    <2>2. Typed' /\ Planned' /\ Alone'
      BY <2>1 DEF ResInv, Typed, Planned, Alone
    <2>3. Owned'
      <3>1. \A s \in Keeper, r \in Rid : /\ Pending(s, r)' = Pending(s, r) /\ Coming(s, r)' = Coming(s, r)
                                         /\ Scene(s, r)' = Scene(s, r)
        BY <2>1 DEF Pending, Coming, Has, Scene, Uses, Target
      <3>2. \A r \in Rid : Noticed(r)' = Noticed(r)
        BY <2>1 DEF Noticed
      <3>3. \A s \in Keeper : Targets(s)' = Targets(s)
        BY <2>1 DEF Targets
      <3> QED
        BY <3>1, <3>2, <3>3 DEF ResInv, Owned
    <2>4. Soundness'
      BY <2>1 DEF ResInv, Soundness, Touched, Noticed, SoundBase, Handled, Uses, Target, Lives
    <2>5. Shut' /\ ListedLive'
      BY <2>1 DEF ResInv, Shut, ListedLive, Lives, Excused, Pending, Has
    <2>6. Calm'
      BY <2>1 DEF ResInv, Calm, SweptClean, Lives, Excused, Raising, Has
    <2> QED
      BY <2>2, <2>3, <2>4, <2>5, <2>6 DEF ResInv
  <1> QED
    BY <1>1, <1>2

\* The invariant holds, for every set of sessions, listeners and tunnels.
THEOREM ResourcesInvariant == ResourcesSpec => []ResInv
  BY ResStart, ResKept, PTL DEF ResourcesSpec

\* Every variable has its type (callback_server.py, tunnel_manager.py and
\* contest_resources.py: the statuses and ids their files hold).
THEOREM ResourcesTypeCorrect == ResourcesSpec => []ResourcesTypeOK
  <1>1. ResInv => ResourcesTypeOK
    <2> SUFFICES ASSUME ResInv
                 PROVE ResourcesTypeOK
      OBVIOUS
    <2>1. Typed
      BY DEF ResInv
    <2>2. \A s \in Keeper : own[s].listed \cup own[s].active \subseteq Rid
      BY <2>1 DEF Typed, Chore
    <2> QED
      BY <2>1, <2>2 DEF Typed, ResourcesTypeOK
  <1> QED
    BY <1>1, ResourcesInvariant, PTL

\* resources.json accounts for every listener and tunnel that runs: what it calls
\* closed is dead, what runs is listed as open unless its starter is not done,
\* died or gave up, or two updates raced, and a cleanup that says ok leaves none
\* (contest_resources.cleanup_contest_resources, _upsert_resource).
THEOREM ResourcesKept == ResourcesSpec => []ResourcesAccounted
  <1>1. ResInv => ResourcesAccounted
    <2> SUFFICES ASSUME ResInv
                 PROVE ResourcesAccounted
      OBVIOUS
    <2>0. Typed /\ Planned /\ Shut /\ ListedLive /\ Calm
      BY DEF ResInv
    <2>1. ClosedIsDead
      BY <2>0 DEF Shut, ClosedIsDead
    <2>2. LiveIsListed
      <3>1. \A s \in Keeper, r \in Rid : Pending(s, r) => Raising(s) /\ r \in Targets(s)
        BY <2>0, StartFacts
      <3> QED
        BY <2>0, <3>1 DEF LiveIsListed, ListedLive, Excused
    <2>3. SweptClean
      BY <2>0 DEF Calm
    <2> QED
      BY <2>1, <2>2, <2>3 DEF ResourcesAccounted
  <1> QED
    BY <1>1, ResourcesInvariant, PTL

-----------------------------------------------------------------------------
(* The docker pool: where a command is, and what it holds there.           *)

USE DockerPoolAssumption

Names  == {"none", "start", "exec", "status", "cleanup"}
OnSlot == {"inspect", "clear", "run", "exec", "remove", "load", "store"}
Places == {"idle", "info", "known"} \cup OnSlot

Calls == [cmd : Names, plan : Seq(Slot), saw : RowStates \cup {"done"}, put : RowStates,
          snap : [Slot -> RowStates], ok : BOOLEAN, answered : BOOLEAN]

\* What a command at place l may hold.
Suit(l, m) ==
  /\ l = "idle" <=> m.cmd = "none"
  /\ l \in OnSlot => m.plan # <<>>
  /\ l \in {"info", "clear", "run"} => m.cmd = "start"
  /\ l = "known" => m.cmd \in {"status", "cleanup"}
  /\ l = "inspect" => m.cmd \in {"start", "status"}
  /\ l = "exec" => m.cmd = "exec"
  /\ l = "remove" => m.cmd = "cleanup"
  /\ l \in {"load", "store"} => m.put # "none"

\* The types, and the place and locals of every runner.
Core == /\ PoolTypeOK /\ phase \in [Runner -> Places] /\ call \in [Runner -> Calls]
        /\ \A s \in Runner : Suit(phase[s], call[s])

\* Unless two sessions rewrote containers.json at once: the rows a session is
\* about to write back are those of the file, and whatever the daemon has or
\* may still start, or a start is about to run, has a row.
Rows ==
  racing \/
    /\ \A s, q \in Runner : phase[s] = "store" /\ phase[q] = "store" => s = q
    /\ \A s \in Runner : phase[s] = "store" => call[s].snap = row
    /\ \A w \in Slot : cont[w] # "none" \/ w \in late => row[w] # "none"
    /\ \A s \in Runner : phase[s] \in {"clear", "run"} => row[Slot1(s)] # "none"

\* Who is alone, and a cleanup that has said ok, has no start beside it.
Starts ==
  /\ twoStarts \/ \A s, q \in Runner : Is(s, "start") /\ Is(q, "start") => s = q
  /\ alone # {} \/ cleaned => \A q \in Runner : ~Is(q, "start")

\* The slots a plan lists.
Elements(plan) == {plan[i] : i \in 1..Len(plan)}

\* The slots a cleanup has still to remove.
Left(s) == IF phase[s] = "remove" THEN Elements(call[s].plan) ELSE Elements(Tail(call[s].plan))

\* A cleanup that will say ok.
Sweeping(s) == /\ s \in alone /\ Is(s, "cleanup") /\ call[s].ok
               /\ phase[s] \in {"remove", "load", "store"}
               /\ call[s].answered \/ ~racing

\* What runs is belated, or a cleanup has it still to remove.
Swept ==
  /\ cleaned => \A w \in Slot : cont[w] = "running" => w \in belated
  /\ \A s \in Runner : Sweeping(s) =>
       \A w \in Slot : cont[w] = "running" => w \in belated \cup Left(s)

\* A start is going to remove the container it found stopped.
Condemns(s) == /\ Is(s, "start")
               /\ phase[s] = "clear" \/ (phase[s] \in {"load", "store"}
                                           /\ call[s].saw \in {"created", "exited"})

\* What a start is going to remove does not run, or was started behind its back.
Kept == \A s \in Runner : Condemns(s) =>
          cont[Slot1(s)] # "running" \/ Slot1(s) \in belated \/ twoStarts

\* The inductive invariant.
PoolInv == Core /\ Rows /\ Starts /\ Swept /\ Kept
-----------------------------------------------------------------------------
(* The slots of a plan.                                                    *)

\* A finite set of numbers has an order: that of the ranks of its elements.
LEMMA OrderExists ==
  ASSUME NEW S \in SUBSET Nat, IsFiniteSet(S)
  PROVE  \E q \in [1..Cardinality(S) -> S] :
           \A i, j \in DOMAIN q : i < j => q[i] < q[j]
  <1> DEFINE n == Cardinality(S)
             Upto(w) == {v \in S : v <= w}
             rank == [w \in S |-> Cardinality(Upto(w))]
  <1>1. n \in Nat
    BY FS_CardinalityType
  <1>2. ASSUME NEW w \in S PROVE IsFiniteSet(Upto(w)) /\ rank[w] \in 1..n
    <2>1. Upto(w) \in SUBSET S /\ w \in Upto(w)
      BY <1>2
    <2>2. IsFiniteSet(Upto(w)) /\ Cardinality(Upto(w)) <= n
      BY <2>1, FS_Subset
    <2>3. Cardinality(Upto(w)) \in Nat /\ Cardinality(Upto(w)) # 0
      <3> HIDE DEF Upto
      <3> QED
        BY <2>1, <2>2, FS_CardinalityType, FS_EmptySet
    <2> QED
      BY <1>1, <2>2, <2>3
  <1>3. ASSUME NEW w \in S, NEW u \in S, w < u PROVE rank[w] < rank[u]
    <2>1. Upto(w) \in SUBSET Upto(u)
      <3> SUFFICES ASSUME NEW v \in S, v <= w PROVE v <= u
        OBVIOUS
      <3>1. v \in Nat /\ w \in Nat /\ u \in Nat
        OBVIOUS
      <3> QED
        BY <1>3, <3>1
    <2>2. u \in Upto(u) /\ u \notin Upto(w)
      <3>1. w \in Nat /\ u \in Nat
        OBVIOUS
      <3> QED
        BY <1>3, <3>1
    <2>3. Upto(w) # Upto(u) /\ IsFiniteSet(Upto(u)) /\ IsFiniteSet(Upto(w))
      BY <1>2, <2>2
    <2>4. Cardinality(Upto(w)) <= Cardinality(Upto(u))
          /\ Cardinality(Upto(w)) # Cardinality(Upto(u))
      <3> HIDE DEF Upto
      <3> QED
        BY <2>1, <2>3, FS_Subset
    <2>5. Cardinality(Upto(w)) \in Nat /\ Cardinality(Upto(u)) \in Nat
      <3> HIDE DEF Upto
      <3> QED
        BY <2>3, FS_CardinalityType
    <2> QED
      BY <2>4, <2>5
  <1>4. rank \in [S -> 1..n]
    <2> HIDE DEF n
    <2> QED
      BY <1>2
  <1> HIDE DEF rank
  <1>5. rank \in Injection(S, 1..n)
    <2> SUFFICES ASSUME NEW w \in S, NEW u \in S, rank[w] = rank[u] PROVE w = u
      BY <1>4 DEF Injection, IsInjective
    <2>1. w \in Nat /\ u \in Nat /\ rank[w] \in Nat /\ rank[u] \in Nat
      BY <1>1, <1>4
    <2>2. ~(w < u) /\ ~(u < w)
      BY <1>3, <2>1
    <2> QED
      BY <2>1, <2>2
  <1>6. rank \in Surjection(S, 1..n)
    <2>1. IsFiniteSet(1..n) /\ Cardinality(1..n) = n
      BY <1>1, FS_Interval
    <2> QED
      BY <1>5, <2>1, FS_Injection
  <1>7. \A i \in 1..n : \E w \in S : rank[w] = i
    BY <1>6 DEF Surjection
  <1> DEFINE q == [i \in 1..n |-> CHOOSE w \in S : rank[w] = i]
  <1>8. \A i \in 1..n : q[i] \in S /\ rank[q[i]] = i
    BY <1>7
  <1>9. q \in [1..n -> S]
    BY <1>8
  <1> HIDE DEF q
  <1>10. ASSUME NEW i \in 1..n, NEW j \in 1..n, i < j PROVE q[i] < q[j]
    <2>1. q[i] \in S /\ q[j] \in S /\ rank[q[i]] = i /\ rank[q[j]] = j
      BY <1>8
    <2>2. q[i] \in Nat /\ q[j] \in Nat /\ i \in Nat /\ j \in Nat
      <3>1. \A k \in 1..n : k \in Nat
        <4> HIDE DEF n
        <4> QED
          BY <1>1
      <3>2. i \in Nat /\ j \in Nat
        BY <3>1
      <3>3. q[i] \in Nat /\ q[j] \in Nat
        BY <2>1
      <3> QED
        BY <3>2, <3>3
    <2>3. ~(q[j] < q[i])
      BY <1>3, <1>10, <2>1, <2>2
    <2>4. q[i] # q[j]
      BY <1>10, <2>1, <2>2
    <2> QED
      BY <2>2, <2>3, <2>4
  <1> QED
    BY <1>9, <1>10

\* Order lists the slots of a set, each of them.
LEMMA OrderLists ==
  ASSUME NEW S \in SUBSET Slot
  PROVE  /\ Order(S) \in Seq(Slot) /\ Elements(Order(S)) = S
         /\ Order(S) = <<>> => S = {}
  <1> DEFINE n == Cardinality(S)
  <1>1. S \in SUBSET Nat /\ IsFiniteSet(S) /\ n \in Nat
    BY FS_Subset, FS_CardinalityType
  <1>2. \E q \in [1..n -> S] : \A i, j \in DOMAIN q : i < j => q[i] < q[j]
    BY <1>1, OrderExists
  <1>3. PICK q : q = Order(S)
    OBVIOUS
  <1>4. q \in [1..n -> S] /\ \A i, j \in DOMAIN q : i < j => q[i] < q[j]
    BY <1>2, <1>3 DEF Order
  <1>5. q \in Injection(1..n, S)
    <2> SUFFICES ASSUME NEW i \in 1..n, NEW j \in 1..n, q[i] = q[j] PROVE i = j
      BY <1>4 DEF Injection, IsInjective
    <2> HIDE DEF n
    <2>1. i \in Nat /\ j \in Nat /\ q[i] \in Nat /\ q[j] \in Nat /\ DOMAIN q = 1..n
      <3>1. i \in Nat /\ j \in Nat
        BY <1>1
      <3>2. q[i] \in S /\ q[j] \in S /\ DOMAIN q = 1..n
        BY <1>4
      <3> QED
        BY <1>1, <3>1, <3>2
    <2>2. ~(i < j) /\ ~(j < i)
      BY <1>4, <2>1
    <2> QED
      BY <2>1, <2>2
  <1>6. q \in Surjection(1..n, S)
    <2>1. IsFiniteSet(1..n) /\ Cardinality(1..n) = n
      BY <1>1, FS_Interval
    <2> QED
      BY <1>1, <1>5, <2>1, FS_Injection
  <1>7. \A w \in S : \E i \in 1..n : q[i] = w
    BY <1>6 DEF Surjection
  <1>8. q \in Seq(Slot) /\ Len(q) = n
    <2>1. q \in [1..n -> Slot]
      BY <1>4
    <2> HIDE DEF n
    <2> QED
      BY <1>1, <2>1
  <1>9. {q[i] : i \in 1..Len(q)} = S
    BY <1>4, <1>7, <1>8
  <1>10. q = <<>> => S = {}
    BY <1>1, <1>8, <1>9
  <1> QED
    BY <1>3, <1>8, <1>9, <1>10 DEF Elements

\* The head of a plan is a slot, and the rest of it a plan.
LEMMA PlanParts ==
  ASSUME NEW plan \in Seq(Slot), plan # <<>>
  PROVE  /\ Head(plan) \in Slot /\ Tail(plan) \in Seq(Slot)
         /\ Elements(plan) = {Head(plan)} \cup Elements(Tail(plan))
  <1>1. Head(plan) \in Slot /\ Tail(plan) \in Seq(Slot) /\ Len(plan) \in Nat \ {0}
        /\ Head(plan) = plan[1] /\ Len(Tail(plan)) = Len(plan) - 1
        /\ \A i \in 1..Len(plan) - 1 : Tail(plan)[i] = plan[i + 1]
    OBVIOUS
  <1>2. ASSUME NEW i \in 1..Len(plan) PROVE plan[i] = Head(plan) \/ plan[i] \in Elements(Tail(plan))
    <2>1. CASE i = 1
      BY <1>1, <2>1
    <2>2. CASE i # 1
      <3>1. i - 1 \in 1..Len(Tail(plan)) /\ Tail(plan)[i - 1] = plan[i]
        BY <1>1, <2>2
      <3> QED
        BY <3>1 DEF Elements
    <2> QED
      BY <2>1, <2>2
  <1>3. ASSUME NEW i \in 1..Len(Tail(plan)) PROVE Tail(plan)[i] \in Elements(plan)
    <2>1. i + 1 \in 1..Len(plan) /\ Tail(plan)[i] = plan[i + 1]
      BY <1>1
    <2> QED
      BY <2>1 DEF Elements
  <1>4. Head(plan) \in Elements(plan)
    BY <1>1 DEF Elements
  <1>5. Elements(plan) \subseteq {Head(plan)} \cup Elements(Tail(plan))
    BY <1>2 DEF Elements
  <1>6. Elements(Tail(plan)) \subseteq Elements(plan)
    BY <1>3 DEF Elements
  <1> QED
    BY <1>1, <1>4, <1>5, <1>6
-----------------------------------------------------------------------------
(* The control flow of the commands.                                       *)

\* One runner moves.
Steps(s) ==
  /\ phase' \in [Runner -> Places] /\ call' \in [Runner -> Calls]
  /\ Suit(phase'[s], call'[s])
  /\ \A q \in Runner \ {s} : phase'[q] = phase[q] /\ call'[q] = call[q]

\* A step that puts runner s at a place with locals that fit it.
LEMMA StepsTo ==
  ASSUME Core, NEW s \in Runner, NEW l \in Places, NEW m \in Calls, Suit(l, m),
         phase' = [phase EXCEPT ![s] = l], call' = [call EXCEPT ![s] = m]
  PROVE  Steps(s) /\ phase'[s] = l /\ call'[s] = m
  BY DEF Core, Steps

\* An idle session holds NoCall.
LEMMA NoCallFits ==
  NoCall \in Calls /\ Suit("idle", NoCall) /\ NoCall.cmd = "none"
  <1>1. NoRows \in [Slot -> RowStates]
    BY DEF NoRows, RowStates, ContStates
  <1> QED
    BY <1>1 DEF NoCall, Calls, Names, Suit, OnSlot, RowStates, ContStates

\* What Core says of one runner: inside the calls on a container, it has a slot.
LEMMA CallNow ==
  ASSUME Core, NEW s \in Runner
  PROVE  /\ call[s] \in Calls /\ phase[s] \in Places /\ Suit(phase[s], call[s])
         /\ call[s].plan \in Seq(Slot)
         /\ phase[s] \in OnSlot => Slot1(s) \in Slot /\ call[s].plan # <<>>
  <1>1. /\ call[s] \in Calls /\ phase[s] \in Places /\ Suit(phase[s], call[s])
        /\ call[s].plan \in Seq(Slot)
    BY DEF Core, Calls
  <1>2. phase[s] \in OnSlot => call[s].plan # <<>>
    BY <1>1 DEF Suit
  <1> QED
    BY <1>1, <1>2, PlanParts DEF Slot1

\* What Core says of the variables that are not a runner's.
LEMMA TypesNow ==
  ASSUME Core
  PROVE  /\ cont \in [Slot -> ContStates] /\ row \in [Slot -> RowStates]
         /\ late \subseteq Slot /\ belated \subseteq Slot /\ alone \subseteq Runner
         /\ racing \in BOOLEAN /\ twoStarts \in BOOLEAN /\ cleaned \in BOOLEAN
  BY DEF Core, PoolTypeOK

\* Core after a step of one runner, from the types of what it wrote.
LEMMA CoreKept ==
  ASSUME Core, NEW s \in Runner, Steps(s),
         cont' \in [Slot -> ContStates], row' \in [Slot -> RowStates],
         late' \subseteq Slot, belated' \subseteq Slot, alone' \subseteq Runner,
         racing' \in BOOLEAN, twoStarts' \in BOOLEAN, cleaned' \in BOOLEAN
  PROVE  Core'
  <1>1. \A q \in Runner : call'[q].put \in RowStates
    BY DEF Steps, Calls
  <1>2. PoolTypeOK'
    BY <1>1 DEF PoolTypeOK
  <1>3. \A q \in Runner : Suit(phase'[q], call'[q])
    BY DEF Steps, Core
  <1> QED
    BY <1>2, <1>3 DEF Core, Steps

\* A runner ends its command.
Quit(s) == phase'[s] = "idle" /\ call'[s] = NoCall

\* After a container a command ends, or turns to the next one of its plan.
LEMMA GoOnMoves ==
  ASSUME Core, NEW s \in Runner, NEW m \in Calls, m.cmd \in {"start", "exec", "status", "cleanup"},
         NEW plan \in Seq(Slot), GoOn(s, m, plan)
  PROVE  /\ Steps(s)
         /\ \/ plan = <<>> /\ Quit(s) /\ cleaned' = Cleaned(s, m)
            \/ /\ plan # <<>> /\ cleaned' = cleaned /\ phase'[s] = FirstCall(m.cmd)
               /\ phase'[s] \in {"inspect", "exec", "remove"}
               /\ call'[s].plan = plan /\ call'[s].cmd = m.cmd /\ call'[s].saw = m.saw
               /\ call'[s].ok = m.ok /\ call'[s].answered = m.answered
  <1>1. CASE plan = <<>>
    BY <1>1, NoCallFits, StepsTo DEF GoOn, Turn, Quit, Places
  <1>2. CASE plan # <<>>
    <2> DEFINE n == [m EXCEPT !.plan = plan]
    <2>1. n \in Calls /\ n.plan = plan /\ n.cmd = m.cmd /\ n.saw = m.saw /\ n.ok = m.ok
          /\ n.answered = m.answered
      BY DEF Calls
    <2>2. phase' = [phase EXCEPT ![s] = FirstCall(m.cmd)] /\ call' = [call EXCEPT ![s] = n]
          /\ cleaned' = cleaned
      BY <1>2 DEF GoOn, Turn
    <2> DEFINE l == FirstCall(m.cmd)
    <2>3. \/ l = "inspect" /\ m.cmd \in {"start", "status"}
          \/ l = "exec" /\ m.cmd = "exec"
          \/ l = "remove" /\ m.cmd = "cleanup"
      BY Zenon DEF FirstCall
    <2> HIDE DEF n, l
    <2>4. l \in Places /\ Suit(l, n)
      BY <1>2, <2>1, <2>3 DEF Places, OnSlot, Suit
    <2>5. Steps(s) /\ phase'[s] = l /\ call'[s] = n
      BY <2>1, <2>2, <2>4, StepsTo DEF l
    <2> QED
      BY <1>2, <2>1, <2>2, <2>3, <2>5 DEF l, n
  <1> QED
    BY <1>1, <1>2

\* A call on a container has an answer for its row.
LEMMA PutMoves ==
  ASSUME Core, NEW s \in Runner, NEW m \in Calls, m.cmd # "none", m.plan # <<>>,
         NEW st \in RowStates \ {"none"}, Put(s, m, st)
  PROVE  /\ Steps(s) /\ phase'[s] = "load" /\ call'[s] = [m EXCEPT !.put = st]
         /\ call'[s].plan = m.plan /\ call'[s].cmd = m.cmd /\ call'[s].saw = m.saw
         /\ call'[s].ok = m.ok /\ call'[s].answered = m.answered
  <1> DEFINE n == [m EXCEPT !.put = st]
  <1>1. n \in Calls /\ n.put = st /\ n.plan = m.plan /\ n.cmd = m.cmd /\ n.saw = m.saw
        /\ n.ok = m.ok /\ n.answered = m.answered
    BY DEF Calls
  <1>2. phase' = [phase EXCEPT ![s] = "load"] /\ call' = [call EXCEPT ![s] = n]
    BY DEF Put, Turn
  <1> HIDE DEF n
  <1>3. "load" \in Places /\ Suit("load", n)
    BY <1>1 DEF Places, OnSlot, Suit
  <1>4. Steps(s) /\ phase'[s] = "load" /\ call'[s] = n
    BY <1>1, <1>2, <1>3, StepsTo
  <1> QED
    BY <1>1, <1>4 DEF n

\* Where a command that begins stands.
LEMMA BeginPoolMoves ==
  ASSUME Core, NEW s \in Runner, NEW cmd \in PoolCommands, NEW w, cmd = "exec" => w \in Slot,
         BeginPool(s, cmd, w)
  PROVE  /\ Steps(s) /\ phase[s] = "idle" /\ phase'[s] \in {"info", "exec", "known"}
         /\ call'[s].cmd = cmd
  <1> DEFINE plan == IF cmd = "exec" THEN <<w>> ELSE <<>>
             n == [NoCall EXCEPT !.cmd = cmd, !.plan = plan]
             l == CASE cmd = "start" -> "info" [] cmd = "exec" -> "exec" [] OTHER -> "known"
  <1>1. plan \in Seq(Slot) /\ (cmd = "exec" => plan # <<>>)
    OBVIOUS
  <1>2. phase[s] = "idle" /\ phase' = [phase EXCEPT ![s] = l] /\ call' = [call EXCEPT ![s] = n]
    BY DEF BeginPool, Turn
  <1>3. /\ cmd \in {"start", "exec", "status", "cleanup"}
        /\ \/ cmd = "start" /\ l = "info"
           \/ cmd = "exec" /\ l = "exec"
           \/ cmd \in {"status", "cleanup"} /\ l = "known"
    BY Zenon DEF DockerPoolAssumption
  <1> HIDE DEF plan
  <1>4. n \in Calls /\ n.cmd = cmd /\ n.plan = plan
    BY <1>1, <1>3, NoCallFits DEF Calls, Names, NoCall
  <1> HIDE DEF n, l
  <1>5. l \in Places /\ Suit(l, n)
    BY <1>1, <1>3, <1>4 DEF Places, OnSlot, Suit
  <1>6. Steps(s) /\ phase'[s] = l /\ call'[s] = n
    BY <1>2, <1>4, <1>5, StepsTo
  <1> QED
    BY <1>2, <1>3, <1>4, <1>6

\* docker info: a start goes to its first slot, or is skipped.
LEMMA InfoMoves ==
  ASSUME Core, NEW s \in Runner, Info(s)
  PROVE  /\ Steps(s) /\ cleaned' = cleaned /\ call[s].cmd = "start"
         /\ UNCHANGED <<cont, late, row, belated, racing, alone, twoStarts>>
         /\ Quit(s) \/ (phase'[s] = "inspect" /\ call'[s].cmd = "start")
         /\ Core'
  <1>1. call[s] \in Calls /\ call[s].cmd = "start" /\ phase[s] = "info"
    BY CallNow DEF Info, Suit
  <1>2. UNCHANGED <<cont, late, row, belated, racing, alone, twoStarts>>
    BY DEF Info
  <1>3. PICK plan \in Seq(Slot) : GoOn(s, call[s], plan)
    <2>1. <<>> \in Seq(Slot) /\ Order(Slot) \in Seq(Slot)
      BY OrderLists
    <2> QED
      BY <2>1 DEF Info
  <1>4. /\ Steps(s)
        /\ \/ Quit(s) /\ cleaned' = Cleaned(s, call[s])
           \/ cleaned' = cleaned /\ phase'[s] = FirstCall("start") /\ call'[s].cmd = "start"
    <2>1. call[s].cmd \in {"start", "exec", "status", "cleanup"}
      BY <1>1
    <2>2. PICK m \in Calls : m = call[s]
      BY <1>1
    <2>3. GoOn(s, m, plan) /\ m.cmd \in {"start", "exec", "status", "cleanup"}
      BY <1>3, <2>1, <2>2
    <2>4. /\ Steps(s)
          /\ \/ Quit(s) /\ cleaned' = Cleaned(s, m)
             \/ cleaned' = cleaned /\ phase'[s] = FirstCall(m.cmd) /\ call'[s].cmd = m.cmd
      BY <2>3, GoOnMoves
    <2> QED
      BY <1>1, <2>2, <2>4
  <1>5. Cleaned(s, call[s]) = cleaned
    BY <1>1, TypesNow DEF Cleaned
  <1>6. FirstCall("start") = "inspect"
    BY DEF FirstCall
  <1>7. Core'
    BY <1>2, <1>4, <1>5, TypesNow, CoreKept
  <1> QED
    BY <1>1, <1>2, <1>4, <1>5, <1>6, <1>7

\* What a cleanup or a status finds to do, and whether docker ps answered.
LEMMA ReadKnownMoves ==
  ASSUME Core, NEW s \in Runner, ReadKnown(s)
  PROVE  \E K \in SUBSET Slot, a \in BOOLEAN :
           /\ K = {w \in Slot : row[w] # "none"} \cup (IF a THEN {w \in Slot : cont[w] = "running"} ELSE {})
           /\ Steps(s) /\ call[s].cmd \in {"status", "cleanup"}
           /\ UNCHANGED <<cont, late, row, belated, racing, alone, twoStarts>>
           /\ \/ /\ Quit(s) /\ K = {}
                 /\ cleaned' => \/ cleaned
                                \/ call[s].cmd = "cleanup" /\ s \in alone /\ (a \/ ~racing)
              \/ /\ phase'[s] \in {"inspect", "remove"} /\ Elements(call'[s].plan) = K
                 /\ call'[s].cmd = call[s].cmd /\ cleaned' = cleaned
                 /\ call'[s].answered => a
           /\ Core'
  <1>1. call[s] \in Calls /\ call[s].cmd \in {"status", "cleanup"} /\ phase[s] = "known"
    BY CallNow DEF ReadKnown, Suit
  <1>2. UNCHANGED <<cont, late, row, belated, racing, alone, twoStarts>>
    BY DEF ReadKnown
  <1> DEFINE up == {w \in Slot : cont[w] = "running"}
             quiet == [call[s] EXCEPT !.answered = FALSE]
             K(a) == KnownSlots(call[s], IF a THEN up ELSE {})
  <1>3. PICK a \in BOOLEAN : GoOn(s, IF a THEN call[s] ELSE quiet, Order(K(a)))
    <2>1. GoOn(s, call[s], Order(K(TRUE))) \/ GoOn(s, quiet, Order(K(FALSE)))
      BY DEF ReadKnown
    <2> QED
      BY <2>1
  <1>4. PICK m : m = IF a THEN call[s] ELSE quiet
    OBVIOUS
  <1>5. m \in Calls /\ m.cmd = call[s].cmd /\ (m.answered => a)
    BY <1>1, <1>4 DEF Calls
  <1>6. PICK R \in SUBSET Slot : R = K(a)
    BY DEF KnownSlots
  <1>7. /\ R = {w \in Slot : row[w] # "none"} \cup (IF a THEN up ELSE {})
    BY <1>6 DEF KnownSlots
  <1>8. Order(R) \in Seq(Slot) /\ Elements(Order(R)) = R /\ (Order(R) = <<>> => R = {})
    BY OrderLists
  <1>9. GoOn(s, m, Order(R))
    BY <1>3, <1>4, <1>6
  <1>10. /\ Steps(s)
         /\ \/ Order(R) = <<>> /\ Quit(s) /\ cleaned' = Cleaned(s, m)
            \/ /\ Order(R) # <<>> /\ cleaned' = cleaned
               /\ phase'[s] \in {"inspect", "exec", "remove"} /\ phase'[s] = FirstCall(m.cmd)
               /\ call'[s].plan = Order(R) /\ call'[s].cmd = m.cmd
               /\ call'[s].answered = m.answered
    <2>1. m.cmd \in {"start", "exec", "status", "cleanup"}
      BY <1>1, <1>5
    <2>2. PICK plan \in Seq(Slot) : plan = Order(R)
      BY <1>8
    <2>3. GoOn(s, m, plan)
      BY <1>9, <2>2
    <2> QED
      BY <1>5, <2>1, <2>2, <2>3, GoOnMoves
  <1>11. FirstCall(m.cmd) # "exec"
    BY <1>1, <1>5 DEF FirstCall
  <1>12. cleaned' = Cleaned(s, m) =>
           (cleaned' => cleaned \/ (call[s].cmd = "cleanup" /\ s \in alone /\ (a \/ ~racing)))
    BY <1>5 DEF Cleaned
  <1>13. cleaned' \in BOOLEAN
    BY <1>10, TypesNow DEF Cleaned
  <1>14. Core'
    BY <1>2, <1>10, <1>13, TypesNow, CoreKept
  <1> HIDE DEF up, quiet, K
  <1>15. \/ /\ Quit(s) /\ R = {}
            /\ cleaned' => \/ cleaned
                           \/ call[s].cmd = "cleanup" /\ s \in alone /\ (a \/ ~racing)
         \/ /\ phase'[s] \in {"inspect", "remove"} /\ Elements(call'[s].plan) = R
            /\ call'[s].cmd = call[s].cmd /\ cleaned' = cleaned
            /\ call'[s].answered => a
    BY <1>5, <1>8, <1>10, <1>11, <1>12
  <1> QED
    BY <1>1, <1>2, <1>7, <1>10, <1>14, <1>15 DEF up

\* A call on a container of its plan leaves the command on the same slot.
SameSlot(s) == /\ call'[s].cmd = call[s].cmd /\ call'[s].plan = call[s].plan
               /\ call'[s].answered = call[s].answered

\* docker inspect: what the session saw is what the daemon had, or no stopped container.
LEMMA InspectMoves ==
  ASSUME Core, NEW s \in Runner, Inspect(s)
  PROVE  /\ Steps(s) /\ SameSlot(s) /\ phase[s] = "inspect" /\ phase'[s] = "load"
         /\ call'[s].ok = call[s].ok
         /\ \/ call'[s].saw \notin {"created", "exited"}
            \/ call'[s].saw = cont[Slot1(s)]
         /\ UNCHANGED <<cont, late, row, poolGhosts>> /\ Core'
  <1>1. call[s] \in Calls /\ call[s].cmd # "none" /\ phase[s] = "inspect"
        /\ call[s].plan # <<>> /\ Slot1(s) \in Slot
    BY CallNow DEF Inspect, Suit, OnSlot
  <1>2. UNCHANGED <<cont, late, row, poolGhosts>>
    BY DEF Inspect
  <1>3. PICK st \in RowStates \ {"none"} :
          /\ Put(s, [call[s] EXCEPT !.saw = st], st)
          /\ st \notin {"created", "exited"} \/ st = cont[Slot1(s)]
    <2>1. cont[Slot1(s)] \in ContStates
      BY <1>1, TypesNow
    <2>2. PICK c \in ContStates : c = cont[Slot1(s)]
      BY <2>1
    <2>3. PICK st \in RowStates \ {"none"} : st = IF c = "none" THEN "missing" ELSE c
      BY <2>2 DEF RowStates, ContStates
    <2>4. \/ Put(s, [call[s] EXCEPT !.saw = st], st)
          \/ Put(s, [call[s] EXCEPT !.saw = "unreachable"], "unreachable")
      BY <2>2, <2>3 DEF Inspect
    <2>5. "unreachable" \in RowStates \ {"none"}
      BY DEF RowStates, ContStates
    <2>6. st \notin {"created", "exited"} \/ st = cont[Slot1(s)]
      BY <2>2, <2>3
    <2> QED
      BY <2>4, <2>5, <2>6
  <1> DEFINE m == [call[s] EXCEPT !.saw = st]
  <1>4. m \in Calls /\ m.cmd = call[s].cmd /\ m.plan = call[s].plan /\ m.saw = st
        /\ m.ok = call[s].ok /\ m.answered = call[s].answered
    BY <1>1 DEF Calls
  <1>5. Put(s, m, st)
    BY <1>3
  <1> HIDE DEF m
  <1>6. /\ Steps(s) /\ phase'[s] = "load" /\ SameSlot(s) /\ call'[s].saw = st
        /\ call'[s].ok = call[s].ok
    BY <1>1, <1>4, <1>5, PutMoves DEF SameSlot
  <1>7. Core'
    BY <1>2, <1>6, TypesNow, CoreKept DEF poolGhosts
  <1> QED
    BY <1>1, <1>2, <1>3, <1>6, <1>7

\* docker rm of the stopped container, which may fail.
LEMMA ClearMoves ==
  ASSUME Core, NEW s \in Runner, Clear(s)
  PROVE  /\ Steps(s) /\ phase[s] = "clear" /\ phase'[s] = "run" /\ call'[s] = call[s]
         /\ cont' = cont \/ cont' = [cont EXCEPT ![Slot1(s)] = "none"]
         /\ UNCHANGED <<late, row, poolGhosts>> /\ Core'
  <1>1. call[s] \in Calls /\ call[s].cmd = "start" /\ phase[s] = "clear" /\ call[s].plan # <<>>
    BY CallNow DEF Clear, Suit, OnSlot
  <1>2. UNCHANGED <<late, row, poolGhosts>>
        /\ (cont' = cont \/ cont' = [cont EXCEPT ![Slot1(s)] = "none"])
    BY DEF Clear
  <1>3. "run" \in Places /\ Suit("run", call[s])
    BY <1>1 DEF Places, OnSlot, Suit
  <1>4. phase' = [phase EXCEPT ![s] = "run"] /\ call' = [call EXCEPT ![s] = call[s]]
    BY DEF Clear, Turn, Core
  <1>5. Steps(s) /\ phase'[s] = "run" /\ call'[s] = call[s]
    BY <1>1, <1>3, <1>4, StepsTo
  <1>6. cont' \in [Slot -> ContStates]
    BY <1>2, TypesNow DEF ContStates
  <1>7. Core'
    BY <1>2, <1>5, <1>6, TypesNow, CoreKept DEF poolGhosts
  <1> QED
    BY <1>1, <1>2, <1>5, <1>7

\* docker run starts at most the container of the slot, and where there was none.
LEMMA RunMoves ==
  ASSUME Core, NEW s \in Runner, Run(s)
  PROVE  /\ Steps(s) /\ SameSlot(s) /\ phase[s] = "run" /\ phase'[s] = "load"
         /\ call'[s].saw = "done"
         /\ \/ UNCHANGED <<cont, late>>
            \/ UNCHANGED cont /\ late' = late \cup {Slot1(s)}
            \/ \E c \in {"created", "running"} :
                 late' = late /\ cont' = [cont EXCEPT ![Slot1(s)] = c]
         /\ UNCHANGED <<row, poolGhosts>> /\ Core'
  <1>1. call[s] \in Calls /\ call[s].cmd = "start" /\ phase[s] = "run"
        /\ call[s].plan # <<>> /\ Slot1(s) \in Slot
    BY CallNow DEF Run, Started, Suit, OnSlot
  <1>2. UNCHANGED <<row, poolGhosts>>
    BY DEF Run, Started
  <1>3. \/ UNCHANGED <<cont, late>>
        \/ UNCHANGED cont /\ late' = late \cup {Slot1(s)}
        \/ \E c \in {"created", "running"} :
             late' = late /\ cont' = [cont EXCEPT ![Slot1(s)] = c]
    BY DEF Run, Started
  <1> DEFINE m == [call[s] EXCEPT !.saw = "done"]
  <1>4. PICK st \in RowStates \ {"none"} : Put(s, m, st)
    <2>1. Put(s, m, "running") \/ Put(s, m, "error")
      BY DEF Run, Started
    <2> QED
      BY <2>1 DEF RowStates, ContStates
  <1>5. m \in Calls /\ m.cmd = call[s].cmd /\ m.plan = call[s].plan /\ m.saw = "done"
        /\ m.answered = call[s].answered
    BY <1>1 DEF Calls
  <1> HIDE DEF m
  <1>6. Steps(s) /\ phase'[s] = "load" /\ SameSlot(s) /\ call'[s].saw = "done"
    BY <1>1, <1>4, <1>5, PutMoves DEF SameSlot
  <1>7. cont' \in [Slot -> ContStates] /\ late' \subseteq Slot
    BY <1>1, <1>3, TypesNow DEF ContStates
  <1>8. Core'
    BY <1>2, <1>6, <1>7, TypesNow, CoreKept DEF poolGhosts
  <1> QED
    BY <1>1, <1>2, <1>3, <1>6, <1>8

\* docker exec changes no container.
LEMMA ExecMoves ==
  ASSUME Core, NEW s \in Runner, Exec(s)
  PROVE  /\ Steps(s) /\ SameSlot(s) /\ call[s].cmd = "exec" /\ phase'[s] = "load"
         /\ UNCHANGED <<cont, late, row, poolGhosts>> /\ Core'
  <1>1. call[s] \in Calls /\ call[s].cmd = "exec" /\ call[s].plan # <<>> /\ Slot1(s) \in Slot
    BY CallNow DEF Exec, Suit, OnSlot
  <1>2. UNCHANGED <<cont, late, row, poolGhosts>>
    BY DEF Exec
  <1>3. PICK st \in RowStates \ {"none"} : Put(s, call[s], st)
    <2>1. row[Slot1(s)] \in RowStates
      BY <1>1, TypesNow
    <2>2. PICK r \in RowStates : r = row[Slot1(s)]
      BY <2>1
    <2>3. Put(s, call[s], "running") \/ Put(s, call[s], IF r = "none" THEN "error" ELSE r)
      BY <2>2 DEF Exec
    <2>4. "running" \in RowStates \ {"none"} /\ "error" \in RowStates \ {"none"}
      BY DEF RowStates, ContStates
    <2> QED
      BY <2>3, <2>4
  <1>4. PICK m \in Calls : m = call[s]
    BY <1>1
  <1>5. Steps(s) /\ phase'[s] = "load" /\ SameSlot(s)
    BY <1>1, <1>3, <1>4, PutMoves DEF SameSlot
  <1>6. Core'
    BY <1>2, <1>5, TypesNow, CoreKept DEF poolGhosts
  <1> QED
    BY <1>1, <1>2, <1>5, <1>6

\* docker rm of a cleanup: the container is gone, or the cleanup is not ok.
LEMMA RemoveMoves ==
  ASSUME Core, NEW s \in Runner, Remove(s)
  PROVE  /\ Steps(s) /\ SameSlot(s) /\ call[s].cmd = "cleanup"
         /\ phase[s] = "remove" /\ phase'[s] = "load"
         /\ \/ call'[s].ok = call[s].ok /\ cont' = [cont EXCEPT ![Slot1(s)] = "none"]
            \/ call'[s].ok = FALSE /\ cont' \in {cont, [cont EXCEPT ![Slot1(s)] = "none"]}
         /\ UNCHANGED <<late, row, poolGhosts>> /\ Core'
  <1>1. call[s] \in Calls /\ call[s].cmd = "cleanup" /\ call[s].plan # <<>> /\ phase[s] = "remove"
    BY CallNow DEF Remove, Suit, OnSlot
  <1>2. UNCHANGED <<late, row, poolGhosts>>
    BY DEF Remove
  <1> DEFINE failed == [call[s] EXCEPT !.ok = FALSE]
  <1>3. PICK m \in Calls, st \in RowStates \ {"none"} :
          /\ Put(s, m, st) /\ m.cmd = call[s].cmd /\ m.plan = call[s].plan
          /\ m.answered = call[s].answered
          /\ \/ m.ok = call[s].ok /\ cont' = [cont EXCEPT ![Slot1(s)] = "none"]
             \/ m.ok = FALSE /\ cont' \in {cont, [cont EXCEPT ![Slot1(s)] = "none"]}
    <2>1. failed \in Calls /\ failed.cmd = call[s].cmd /\ failed.plan = call[s].plan
          /\ failed.answered = call[s].answered /\ failed.ok = FALSE
      BY <1>1 DEF Calls
    <2>2. "error" \in RowStates \ {"none"} /\ "stopped" \in RowStates \ {"none"}
          /\ "not_running" \in RowStates \ {"none"}
      BY DEF RowStates, ContStates
    <2> HIDE DEF failed
    <2>3. \/ /\ cont' = [cont EXCEPT ![Slot1(s)] = "none"]
             /\ Put(s, call[s], "stopped") \/ Put(s, call[s], "not_running")
          \/ Put(s, failed, "error") /\ cont' \in {cont, [cont EXCEPT ![Slot1(s)] = "none"]}
      BY DEF Remove, failed
    <2> QED
      BY <1>1, <2>1, <2>2, <2>3
  <1>4. /\ Steps(s) /\ phase'[s] = "load" /\ SameSlot(s) /\ call'[s].ok = m.ok
    BY <1>1, <1>3, PutMoves DEF SameSlot
  <1>5. cont' \in [Slot -> ContStates]
    BY <1>3, TypesNow DEF ContStates
  <1>6. Core'
    BY <1>2, <1>4, <1>5, TypesNow, CoreKept DEF poolGhosts
  <1> QED
    BY <1>1, <1>2, <1>3, <1>4, <1>6

\* The rows are loaded, racing if another session is about to write.
LEMMA LoadMoves ==
  ASSUME Core, NEW s \in Runner, LoadRows(s)
  PROVE  /\ Steps(s) /\ SameSlot(s) /\ phase[s] = "load" /\ phase'[s] = "store"
         /\ call'[s].saw = call[s].saw /\ call'[s].ok = call[s].ok /\ call'[s].snap = row
         /\ UNCHANGED <<cont, late, row, belated, alone, twoStarts, cleaned>>
         /\ racing' = (racing \/ \E q \in Runner : phase[q] = "store") /\ Core'
  <1>1. call[s] \in Calls /\ Suit("load", call[s]) /\ phase[s] = "load"
    BY CallNow DEF LoadRows
  <1>2. /\ UNCHANGED <<cont, late, row, belated, alone, twoStarts, cleaned>>
        /\ racing' = (racing \/ \E q \in Runner : phase[q] = "store")
    BY DEF LoadRows
  <1> DEFINE m == [call[s] EXCEPT !.snap = row]
  <1>3. m \in Calls /\ m.cmd = call[s].cmd /\ m.plan = call[s].plan /\ m.saw = call[s].saw
        /\ m.ok = call[s].ok /\ m.answered = call[s].answered /\ m.put = call[s].put /\ m.snap = row
    BY <1>1, TypesNow DEF Calls
  <1>4. phase' = [phase EXCEPT ![s] = "store"] /\ call' = [call EXCEPT ![s] = m]
    BY DEF LoadRows, Turn, Core
  <1> HIDE DEF m
  <1>5. "store" \in Places /\ Suit("store", m)
    BY <1>1, <1>3 DEF Places, OnSlot, Suit
  <1>6. Steps(s) /\ phase'[s] = "store" /\ call'[s] = m
    BY <1>3, <1>4, <1>5, StepsTo
  <1>7. racing' \in BOOLEAN
    BY <1>2
  <1>8. Core'
    BY <1>2, <1>6, <1>7, TypesNow, CoreKept
  <1> QED
    BY <1>1, <1>2, <1>3, <1>6, <1>8 DEF SameSlot

\* With the row written a start goes on with its slot, or a command with the next.
LEMMA StoreMoves ==
  ASSUME Core, NEW s \in Runner, StoreRows(s)
  PROVE  /\ Steps(s) /\ phase[s] = "store" /\ phase'[s] # "store"
         /\ row' = [call[s].snap EXCEPT ![Slot1(s)] = call[s].put]
         /\ UNCHANGED <<cont, late, belated, racing, alone, twoStarts>>
         /\ \/ /\ Quit(s) /\ Tail(call[s].plan) = <<>>
               /\ cleaned' => \/ cleaned
                              \/ /\ call[s].cmd = "cleanup" /\ call[s].ok /\ s \in alone
                                 /\ call[s].answered \/ ~racing
            \/ /\ phase'[s] \in {"inspect", "exec", "remove"} /\ call'[s].plan = Tail(call[s].plan)
               /\ call'[s].cmd = call[s].cmd /\ cleaned' = cleaned
               /\ call'[s].ok = call[s].ok /\ call'[s].answered = call[s].answered
            \/ /\ phase'[s] \in {"clear", "run"} /\ SameSlot(s) /\ cleaned' = cleaned
               /\ call[s].cmd = "start"
               /\ phase'[s] = "clear" => call[s].saw \in {"created", "exited"}
         /\ Core'
  <1>1. call[s] \in Calls /\ phase[s] = "store" /\ call[s].cmd \in {"start", "exec", "status", "cleanup"}
        /\ call[s].plan # <<>> /\ Slot1(s) \in Slot /\ Tail(call[s].plan) \in Seq(Slot)
    <2>1. call[s] \in Calls /\ phase[s] = "store" /\ call[s].cmd # "none"
          /\ call[s].plan # <<>> /\ Slot1(s) \in Slot /\ call[s].plan \in Seq(Slot)
      BY CallNow DEF StoreRows, Suit, OnSlot
    <2> QED
      BY <2>1, PlanParts DEF Calls, Names
  <1> DEFINE m == [call[s] EXCEPT !.snap = NoRows, !.put = "none", !.saw = "none"]
             next == IF Is(s, "start") /\ call[s].saw # "done" THEN AfterInspect(call[s].saw) ELSE "next"
  <1>2. /\ m \in Calls /\ m.cmd = call[s].cmd /\ m.plan = call[s].plan
        /\ m.ok = call[s].ok /\ m.answered = call[s].answered
    BY <1>1, NoCallFits DEF Calls, NoCall, RowStates, ContStates
  <1>3. /\ row' = [call[s].snap EXCEPT ![Slot1(s)] = call[s].put]
        /\ UNCHANGED <<cont, late, belated, racing, alone, twoStarts>>
        /\ IF next = "next" THEN GoOn(s, m, Tail(m.plan))
           ELSE Turn(s, next) /\ call' = [call EXCEPT ![s] = m] /\ UNCHANGED cleaned
    BY DEF StoreRows, Merged
  <1>4. row' \in [Slot -> RowStates]
    BY <1>1, <1>3 DEF Calls
  <1>5. \/ next = "next"
        \/ /\ next \in {"clear", "run"} /\ call[s].cmd = "start"
           /\ next = "clear" => call[s].saw \in {"created", "exited"}
    BY Zenon DEF AfterInspect, Is
  <1> HIDE DEF m, next
  <1>6. CASE next = "next"
    <2>1. GoOn(s, m, Tail(m.plan)) /\ Tail(m.plan) = Tail(call[s].plan)
      BY <1>2, <1>3, <1>6
    <2>2. PICK plan \in Seq(Slot) : plan = Tail(call[s].plan)
      BY <1>1
    <2>3. GoOn(s, m, plan) /\ m.cmd \in {"start", "exec", "status", "cleanup"}
      BY <1>1, <1>2, <2>1, <2>2
    <2>4. /\ Steps(s)
          /\ \/ plan = <<>> /\ Quit(s) /\ cleaned' = Cleaned(s, m)
             \/ /\ cleaned' = cleaned /\ phase'[s] \in {"inspect", "exec", "remove"}
                /\ call'[s].plan = plan /\ call'[s].cmd = m.cmd
                /\ call'[s].ok = m.ok /\ call'[s].answered = m.answered
      BY <1>2, <2>3, GoOnMoves
    <2>5. cleaned' \in BOOLEAN
      BY <2>4, TypesNow DEF Cleaned
    <2>6. Core'
      BY <1>3, <1>4, <2>4, <2>5, TypesNow, CoreKept
    <2>7. cleaned' = Cleaned(s, m) => (cleaned' => \/ cleaned
                              \/ /\ call[s].cmd = "cleanup" /\ call[s].ok /\ s \in alone
                                 /\ call[s].answered \/ ~racing)
      BY <1>2 DEF Cleaned
    <2> QED
      BY <1>1, <1>2, <1>3, <2>2, <2>4, <2>6, <2>7 DEF Quit
  <1>7. CASE next # "next"
    <2>1. phase' = [phase EXCEPT ![s] = next] /\ call' = [call EXCEPT ![s] = m] /\ cleaned' = cleaned
      BY <1>3, <1>7 DEF Turn
    <2>2. next \in Places /\ Suit(next, m)
      BY <1>1, <1>2, <1>5, <1>7 DEF Places, OnSlot, Suit
    <2>3. Steps(s) /\ phase'[s] = next /\ call'[s] = m
      BY <1>2, <2>1, <2>2, StepsTo
    <2>4. Core'
      BY <1>3, <1>4, <2>1, <2>3, TypesNow, CoreKept
    <2> QED
      BY <1>1, <1>2, <1>3, <1>5, <1>7, <2>1, <2>3, <2>4 DEF SameSlot
  <1> QED
    BY <1>6, <1>7

\* A session killed in the middle of a command holds nothing.
LEMMA ExpireMoves ==
  ASSUME Core, NEW s \in Runner, Expire(s)
  PROVE  Steps(s) /\ Quit(s) /\ UNCHANGED <<cont, late, row, poolGhosts>> /\ Core'
  <1>1. UNCHANGED <<cont, late, row, poolGhosts>>
    BY DEF Expire
  <1>2. Steps(s) /\ Quit(s)
    BY NoCallFits, StepsTo DEF Expire, Turn, Quit, Places
  <1>3. Core'
    BY <1>1, <1>2, TypesNow, CoreKept DEF poolGhosts
  <1> QED
    BY <1>1, <1>2, <1>3

\* A command begins; as a start, it leaves nobody alone.
LEMMA BeginKeepsCore ==
  ASSUME Core, NEW s \in Runner, NEW cmd \in PoolCommands, NEW w, cmd = "exec" => w \in Slot,
         BeginPool(s, cmd, w)
  PROVE  /\ UNCHANGED <<cont, late, row, belated, racing>>
         /\ cleaned' => cleaned /\ cmd # "start"
         /\ \/ alone' = {}
            \/ alone' \subseteq alone \cup {s} /\ cmd # "start" /\ \A q \in Runner : ~Is(q, "start")
            \/ alone' \subseteq alone /\ s \notin alone' /\ cmd # "start"
         /\ twoStarts => twoStarts'
         /\ ~twoStarts' /\ cmd = "start" => \A q \in Runner : ~Is(q, "start")
         /\ Core'
  <1>1. /\ UNCHANGED <<cont, late, row, belated, racing>>
        /\ cleaned' = (cleaned /\ cmd # "start")
        /\ twoStarts' = (twoStarts \/ (cmd = "start" /\ \E q \in Runner : Is(q, "start")))
    BY DEF BeginPool
  <1>2. \/ alone' = {}
        \/ alone' = alone \cup {s} /\ cmd # "start" /\ \A q \in Runner : ~Is(q, "start")
        \/ alone' = alone \ {s} /\ cmd # "start"
    BY DEF BeginPool
  <1>3. alone' \subseteq Runner
    BY <1>2, TypesNow
  <1>4. cleaned' \in BOOLEAN /\ twoStarts' \in BOOLEAN
    BY <1>1
  <1>5. Steps(s)
    BY BeginPoolMoves
  <1>6. Core'
    BY <1>1, <1>3, <1>4, <1>5, TypesNow, CoreKept
  <1> QED
    BY <1>1, <1>2, <1>6

\* What the daemon does on its own.
DaemonStep(w) == LateRun(w) \/ ContainerExits(w)

\* The daemon alone makes a container run only where a run was late.
LEMMA DaemonMoves ==
  ASSUME Core, NEW w \in Slot, DaemonStep(w)
  PROVE  /\ UNCHANGED <<row, phase, call, racing, alone, twoStarts, cleaned>>
         /\ belated \subseteq belated' /\ late' \subseteq late
         /\ \A v \in Slot : cont'[v] # "none" => cont[v] # "none" \/ v \in late
         /\ \A v \in Slot : cont'[v] = "running" => cont[v] = "running" \/ v \in belated'
         /\ Core'
  <1>1. UNCHANGED <<row, phase, call, racing, alone, twoStarts, cleaned>>
    BY DEF DaemonStep, LateRun, Started, ContainerExits, poolGhosts
  <1>2. /\ late' \subseteq late /\ belated \subseteq belated' /\ belated' \subseteq Slot
        /\ \/ cont' = cont
           \/ cont' = [cont EXCEPT ![w] = "running"] /\ w \in late /\ w \in belated'
           \/ cont' = [cont EXCEPT ![w] = "exited"] /\ cont[w] = "running"
    <2>1. CASE LateRun(w)
      BY <2>1, TypesNow DEF LateRun, Started
    <2>2. CASE ContainerExits(w)
      BY <2>2, TypesNow DEF ContainerExits, poolGhosts
    <2> QED
      BY <2>1, <2>2 DEF DaemonStep
  <1>3. cont' \in [Slot -> ContStates]
    BY <1>2, TypesNow DEF ContStates
  <1>4. Core'
    <2>1. PoolTypeOK'
      BY <1>1, <1>2, <1>3, TypesNow DEF PoolTypeOK, Core
    <2> QED
      BY <1>1, <2>1 DEF Core
  <1>5. cont \in [Slot -> ContStates]
    BY TypesNow
  <1> QED
    BY <1>1, <1>2, <1>4, <1>5
-----------------------------------------------------------------------------
(* The rows and the starts.                                                *)

\* A step that writes no row, and brings no container without one.
LEMMA RowsKept ==
  ASSUME Core, Rows, NEW s \in Runner, Steps(s), UNCHANGED <<row, racing>>, phase'[s] # "store",
         racing \/ \A w \in Slot : cont'[w] # "none" \/ w \in late'
                                     => cont[w] # "none" \/ w \in late \/ row[w] # "none",
         racing \/ (phase'[s] \in {"clear", "run"} => row[Slot1(s)'] # "none")
  PROVE  Rows'
  <1> SUFFICES ASSUME ~racing PROVE Rows'
    BY DEF Rows
  <1>1. \A x, q \in Runner : phase'[x] = "store" /\ phase'[q] = "store" => x = q
    BY DEF Rows, Steps
  <1>2. \A x \in Runner : phase'[x] = "store" => call'[x].snap = row
    BY DEF Rows, Steps
  <1>3. \A w \in Slot : cont'[w] # "none" \/ w \in late' => row[w] # "none"
    BY DEF Rows
  <1>4. ASSUME NEW x \in Runner, phase'[x] \in {"clear", "run"} PROVE row[Slot1(x)'] # "none"
    <2>1. CASE x = s
      BY <1>4, <2>1
    <2>2. CASE x # s
      BY <1>4, <2>2 DEF Rows, Steps, Slot1
    <2> QED
      BY <2>1, <2>2
  <1> QED
    BY <1>1, <1>2, <1>3, <1>4 DEF Rows

\* The steps that neither write a row nor ask for a container.
LEMMA QuietRows ==
  ASSUME Core, Rows, NEW s \in Runner,
         \/ Info(s) \/ ReadKnown(s) \/ Inspect(s) \/ Exec(s) \/ Remove(s) \/ Expire(s)
  PROVE  Rows'
  <1>1. /\ Steps(s) /\ UNCHANGED <<late, row, racing>>
        /\ phase'[s] \in {"idle", "inspect", "remove", "load"}
    <2>1. CASE Info(s)
      BY <2>1, InfoMoves DEF Quit
    <2>2. CASE ReadKnown(s)
      BY <2>2, ReadKnownMoves DEF Quit
    <2>3. CASE Inspect(s) \/ Exec(s) \/ Remove(s) \/ Expire(s)
      BY <2>3, InspectMoves, ExecMoves, RemoveMoves, ExpireMoves DEF Quit, poolGhosts
    <2> QED
      BY <2>1, <2>2, <2>3
  <1>2. \A w \in Slot : cont'[w] # "none" => cont[w] # "none"
    <2>1. CASE Remove(s)
      <3>1. cont' = cont \/ cont' = [cont EXCEPT ![Slot1(s)] = "none"]
        BY <2>1, RemoveMoves
      <3> QED
        BY <3>1, TypesNow
    <2>2. CASE Info(s) \/ ReadKnown(s) \/ Inspect(s) \/ Exec(s) \/ Expire(s)
      BY <2>2 DEF Info, ReadKnown, Inspect, Exec, Expire
    <2> QED
      BY <2>1, <2>2
  <1> QED
    BY <1>1, <1>2, RowsKept

\* Every step of a command keeps Rows: a row is written before the run.
LEMMA StepKeepsRows ==
  ASSUME Core, Rows, NEW s \in Runner, PoolStep(s) \/ Expire(s)
  PROVE  Rows'
  <1>1. CASE Clear(s)
    <2>1. /\ Steps(s) /\ phase[s] = "clear" /\ phase'[s] = "run" /\ call'[s] = call[s]
          /\ cont' = cont \/ cont' = [cont EXCEPT ![Slot1(s)] = "none"]
          /\ UNCHANGED <<late, row, racing>>
      BY <1>1, ClearMoves DEF poolGhosts
    <2>2. \A w \in Slot : cont'[w] # "none" => cont[w] # "none"
      BY <2>1, TypesNow
    <2>3. racing \/ row[Slot1(s)'] # "none"
      BY <2>1 DEF Rows, Slot1
    <2> QED
      BY <2>1, <2>2, <2>3, RowsKept
  <1>2. CASE Run(s)
    <2>1. /\ Steps(s) /\ phase[s] = "run" /\ phase'[s] = "load" /\ UNCHANGED <<row, racing>>
          /\ \/ UNCHANGED <<cont, late>>
             \/ UNCHANGED cont /\ late' = late \cup {Slot1(s)}
             \/ \E c \in {"created", "running"} :
                  late' = late /\ cont' = [cont EXCEPT ![Slot1(s)] = c]
      BY <1>2, RunMoves DEF poolGhosts
    <2>2. racing \/ row[Slot1(s)] # "none"
      BY <2>1 DEF Rows
    <2>3. \A w \in Slot : cont'[w] # "none" \/ w \in late'
                            => cont[w] # "none" \/ w \in late \/ w = Slot1(s)
      BY <2>1, TypesNow
    <2> QED
      BY <2>1, <2>2, <2>3, RowsKept
  <1>3. CASE LoadRows(s)
    <2> SUFFICES ASSUME ~racing' PROVE Rows'
      BY DEF Rows
    <2>1. /\ Steps(s) /\ phase[s] = "load" /\ phase'[s] = "store" /\ call'[s].snap = row
          /\ UNCHANGED <<cont, late, row>> /\ ~racing /\ \A q \in Runner : phase[q] # "store"
      BY <1>3, LoadMoves
    <2>2. \A x \in Runner : phase'[x] \in {"clear", "run"} => row[Slot1(x)'] # "none"
      BY <2>1 DEF Rows, Steps, Slot1
    <2> QED
      BY <2>1, <2>2 DEF Rows, Steps
  <1>4. CASE StoreRows(s)
    <2> SUFFICES ASSUME ~racing' PROVE Rows'
      BY DEF Rows
    <2>1. /\ Steps(s) /\ phase[s] = "store" /\ phase'[s] # "store" /\ ~racing
          /\ row' = [call[s].snap EXCEPT ![Slot1(s)] = call[s].put]
          /\ UNCHANGED <<cont, late>>
          /\ phase'[s] \in {"clear", "run"} => SameSlot(s)
      BY <1>4, StoreMoves DEF Quit
    <2>2. call[s].snap = row /\ row \in [Slot -> RowStates] /\ call[s].put # "none" /\ Slot1(s) \in Slot
      BY <2>1, CallNow, TypesNow DEF Rows, Suit, OnSlot
    <2>3. row'[Slot1(s)] # "none" /\ \A w \in Slot : row[w] # "none" => row'[w] # "none"
      BY <2>1, <2>2
    <2>4. \A x \in Runner : phase'[x] # "store"
      BY <2>1 DEF Rows, Steps
    <2>5. ASSUME NEW x \in Runner, phase'[x] \in {"clear", "run"} PROVE row'[Slot1(x)'] # "none"
      <3>1. CASE x = s
        BY <2>1, <2>3, <2>5, <3>1 DEF SameSlot, Slot1
      <3>2. CASE x # s
        <4>1. phase[x] \in {"clear", "run"} /\ Slot1(x)' = Slot1(x) /\ Slot1(x) \in Slot
          BY <2>1, <2>5, <3>2, CallNow DEF Steps, Slot1, OnSlot
        <4> QED
          BY <2>1, <2>3, <4>1 DEF Rows
      <3> QED
        BY <3>1, <3>2
    <2> QED
      BY <2>1, <2>3, <2>4, <2>5 DEF Rows
  <1> QED
    BY <1>1, <1>2, <1>3, <1>4, QuietRows DEF PoolStep

\* A command goes on under its name or ends, and only a cleanup cleans.
LEMMA PoolCommandStays ==
  ASSUME Core, NEW s \in Runner, PoolStep(s) \/ Expire(s)
  PROVE  /\ Steps(s) /\ call'[s].cmd \in {call[s].cmd, "none"}
         /\ UNCHANGED <<belated, alone, twoStarts>>
         /\ cleaned' => cleaned \/ s \in alone
         /\ racing => racing'
  <1>1. Quit(s) => call'[s].cmd = "none"
    BY NoCallFits DEF Quit
  <1>2. CASE Info(s)
    BY <1>1, <1>2, InfoMoves
  <1>3. CASE ReadKnown(s)
    BY <1>1, <1>3, ReadKnownMoves
  <1>4. CASE Inspect(s) \/ Run(s) \/ Exec(s) \/ Remove(s)
    BY <1>4, InspectMoves, RunMoves, ExecMoves, RemoveMoves DEF SameSlot, poolGhosts
  <1>5. CASE Clear(s) \/ Expire(s)
    BY <1>1, <1>5, ClearMoves, ExpireMoves DEF poolGhosts
  <1>6. CASE LoadRows(s)
    BY <1>6, LoadMoves DEF SameSlot
  <1>7. CASE StoreRows(s)
    BY <1>1, <1>7, StoreMoves DEF SameSlot
  <1> QED
    BY <1>2, <1>3, <1>4, <1>5, <1>6, <1>7 DEF PoolStep

\* No step of a command makes it a start.
LEMMA StepKeepsStarts ==
  ASSUME Core, Starts, NEW s \in Runner, PoolStep(s) \/ Expire(s)
  PROVE  Starts'
  <1>1. /\ \A q \in Runner : Is(q, "start")' => Is(q, "start")
        /\ UNCHANGED <<alone, twoStarts>> /\ (cleaned' => cleaned \/ alone # {})
    BY PoolCommandStays DEF Is, Steps
  <1> QED
    BY <1>1 DEF Starts

\* A start that begins ends everybody's solitude.
LEMMA BeginKeepsStarts ==
  ASSUME Core, Starts, NEW s \in Runner, NEW cmd \in PoolCommands, NEW w,
         cmd = "exec" => w \in Slot, BeginPool(s, cmd, w)
  PROVE  Starts'
  <1>1. Steps(s) /\ call'[s].cmd = cmd
    BY BeginPoolMoves
  <1>2. \A q \in Runner : Is(q, "start")' => Is(q, "start") \/ (q = s /\ cmd = "start")
    BY <1>1 DEF Is, Steps
  <1>3. /\ cleaned' => cleaned /\ cmd # "start"
        /\ \/ alone' = {}
           \/ alone' \subseteq alone \cup {s} /\ cmd # "start" /\ \A q \in Runner : ~Is(q, "start")
           \/ alone' \subseteq alone /\ cmd # "start"
        /\ twoStarts => twoStarts'
        /\ ~twoStarts' /\ cmd = "start" => \A q \in Runner : ~Is(q, "start")
    BY BeginKeepsCore
  <1>4. alone' # {} \/ cleaned' => \A q \in Runner : ~Is(q, "start")'
    BY <1>2, <1>3 DEF Starts
  <1>5. twoStarts' \/ \A x, q \in Runner : Is(x, "start")' /\ Is(q, "start")' => x = q
    BY <1>2, <1>3 DEF Starts
  <1> QED
    BY <1>4, <1>5 DEF Starts
-----------------------------------------------------------------------------
(* What a cleanup leaves, and what a start removes.                        *)

\* Only a start makes a container run.
LEMMA NoNewRun ==
  ASSUME Core, NEW s \in Runner, PoolStep(s) \/ Expire(s), NEW w \in Slot, cont'[w] = "running"
  PROVE  cont[w] = "running" \/ (Is(s, "start") /\ phase[s] = "run" /\ w = Slot1(s))
  <1>1. CASE Clear(s) \/ Remove(s)
    <2>1. cont' = cont \/ cont' = [cont EXCEPT ![Slot1(s)] = "none"]
      BY <1>1, ClearMoves, RemoveMoves
    <2> QED
      BY <2>1, TypesNow
  <1>2. CASE Run(s)
    <2>1. /\ phase[s] = "run"
          /\ cont' = cont \/ \E c \in {"created", "running"} : cont' = [cont EXCEPT ![Slot1(s)] = c]
      BY <1>2, RunMoves
    <2>2. Is(s, "start")
      BY <2>1, CallNow DEF Suit, Is
    <2> QED
      BY <2>1, <2>2, TypesNow
  <1>3. CASE Info(s) \/ ReadKnown(s) \/ Inspect(s) \/ Exec(s) \/ LoadRows(s) \/ StoreRows(s) \/ Expire(s)
    BY <1>3 DEF Info, ReadKnown, Inspect, Exec, LoadRows, StoreRows, Expire
  <1> QED
    BY <1>1, <1>2, <1>3 DEF PoolStep

\* With somebody alone, or after a cleanup, nothing starts to run.
LEMMA NothingStarts ==
  ASSUME Core, Starts, NEW s \in Runner, PoolStep(s) \/ Expire(s), alone # {} \/ cleaned,
         NEW w \in Slot, cont'[w] = "running"
  PROVE  cont[w] = "running"
  BY NoNewRun DEF Starts

\* A cleanup's sweep is not undone by another session: none is a start.
LEMMA OthersSweep ==
  ASSUME Core, Starts, Swept, NEW s \in Runner, PoolStep(s) \/ Expire(s),
         NEW q \in Runner, q # s, Sweeping(q)', NEW w \in Slot, cont'[w] = "running"
  PROVE  w \in belated' \cup Left(q)'
  <1>1. /\ Steps(s) /\ UNCHANGED <<belated, alone>> /\ (racing => racing')
    BY PoolCommandStays
  <1>2. phase'[q] = phase[q] /\ call'[q] = call[q]
    BY <1>1 DEF Steps
  <1>3. Sweeping(q)
    BY <1>1, <1>2 DEF Sweeping, Is
  <1>4. alone # {}
    BY <1>3 DEF Sweeping
  <1>5. cont[w] = "running"
    BY <1>4, NothingStarts
  <1>6. w \in belated \cup Left(q)
    BY <1>3, <1>5 DEF Swept
  <1>7. Left(q)' = Left(q)
    BY <1>2 DEF Left
  <1> QED
    BY <1>1, <1>6, <1>7

\* The cleanup itself: it takes up all that runs, and goes from slot to slot.
LEMMA SweepsOn ==
  ASSUME Core, Rows, Starts, Swept, NEW s \in Runner, PoolStep(s) \/ Expire(s),
         Sweeping(s)', NEW w \in Slot, cont'[w] = "running"
  PROVE  w \in belated' \cup Left(s)'
  <1>1. Steps(s) /\ UNCHANGED <<belated, alone>> /\ (racing => racing')
    BY PoolCommandStays
  <1>2. /\ s \in alone /\ call'[s].cmd = "cleanup" /\ call'[s].ok
        /\ phase'[s] \in {"remove", "load", "store"} /\ (call'[s].answered \/ ~racing')
    BY <1>1 DEF Sweeping, Is
  <1>3. cont[w] = "running"
    BY <1>2, NothingStarts
  <1>4. ASSUME Sweeping(s) PROVE w \in belated \cup Left(s)
    BY <1>3, <1>4 DEF Swept
  <1>5. call[s].cmd = "cleanup"
    <2>1. call'[s].cmd \in {call[s].cmd, "none"}
      BY PoolCommandStays
    <2> QED
      BY <1>2, <2>1
  <1>6. CASE ReadKnown(s)
    <2>1. PICK K \in SUBSET Slot, a \in BOOLEAN :
            /\ K = {v \in Slot : row[v] # "none"} \cup (IF a THEN {v \in Slot : cont[v] = "running"} ELSE {})
            /\ UNCHANGED racing
            /\ \/ Quit(s)
               \/ /\ phase'[s] \in {"inspect", "remove"} /\ Elements(call'[s].plan) = K
                  /\ call'[s].answered => a
      BY <1>6, ReadKnownMoves
    <2>2. phase'[s] = "remove" /\ Elements(call'[s].plan) = K /\ (a \/ ~racing)
      BY <1>2, <2>1 DEF Quit
    <2>3. ~racing => row[w] # "none"
      BY <1>3 DEF Rows
    <2>4. w \in K
      BY <1>3, <2>1, <2>2, <2>3
    <2> QED
      BY <2>2, <2>4 DEF Left
  <1>7. CASE Remove(s)
    <2>1. /\ SameSlot(s) /\ phase[s] = "remove" /\ phase'[s] = "load" /\ UNCHANGED racing
          /\ \/ call'[s].ok = call[s].ok /\ cont' = [cont EXCEPT ![Slot1(s)] = "none"]
             \/ call'[s].ok = FALSE
      BY <1>7, RemoveMoves DEF poolGhosts
    <2>2. call'[s].ok = call[s].ok /\ cont' = [cont EXCEPT ![Slot1(s)] = "none"]
      BY <1>2, <2>1
    <2>3. Sweeping(s)
      BY <1>2, <1>5, <2>1, <2>2 DEF Sweeping, Is, SameSlot
    <2>4. w # Slot1(s)
      BY <2>2, TypesNow
    <2>5. call[s].plan \in Seq(Slot) /\ call[s].plan # <<>>
      BY <2>1, CallNow DEF OnSlot
    <2>6. Elements(call[s].plan) = {Slot1(s)} \cup Elements(Tail(call[s].plan))
      BY <2>5, PlanParts DEF Slot1
    <2>7. Left(s) = Elements(call[s].plan) /\ Left(s)' = Elements(Tail(call[s].plan))
      BY <2>1 DEF Left, SameSlot
    <2> QED
      BY <1>1, <1>4, <2>3, <2>4, <2>6, <2>7
  <1>8. CASE LoadRows(s)
    <2>1. /\ SameSlot(s) /\ phase[s] = "load" /\ phase'[s] = "store" /\ call'[s].ok = call[s].ok
      BY <1>8, LoadMoves
    <2>2. Sweeping(s)
      BY <1>1, <1>2, <1>5, <2>1 DEF Sweeping, Is, SameSlot
    <2>3. Left(s)' = Left(s)
      BY <2>1 DEF Left, SameSlot
    <2> QED
      BY <1>1, <1>4, <2>2, <2>3
  <1>9. CASE StoreRows(s)
    <2>1. /\ phase[s] = "store" /\ UNCHANGED racing
          /\ phase'[s] = "remove" /\ call'[s].plan = Tail(call[s].plan)
          /\ call'[s].ok = call[s].ok /\ call'[s].answered = call[s].answered
      BY <1>2, <1>9, StoreMoves DEF Quit
    <2>2. Sweeping(s)
      BY <1>1, <1>2, <1>5, <2>1 DEF Sweeping, Is
    <2>3. Left(s)' = Left(s)
      BY <2>1 DEF Left
    <2> QED
      BY <1>1, <1>4, <2>2, <2>3
  <1>10. CASE Info(s) \/ Inspect(s) \/ Clear(s) \/ Run(s) \/ Exec(s) \/ Expire(s)
    <2>1. phase[s] \in {"info", "inspect", "clear", "run", "exec"} \/ phase'[s] = "idle"
      BY <1>10, ExpireMoves DEF Info, Inspect, Clear, Run, Started, Exec, Quit
    <2> QED
      BY <1>2, <1>5, <2>1, CallNow DEF Suit
  <1> QED
    BY <1>6, <1>7, <1>8, <1>9, <1>10 DEF PoolStep

\* A cleanup that says ok at its end has nothing left.
LEMMA CleanupCleans ==
  ASSUME Core, Rows, Starts, Swept, NEW s \in Runner, PoolStep(s) \/ Expire(s),
         cleaned', NEW w \in Slot, cont'[w] = "running"
  PROVE  w \in belated'
  <1>1. belated' = belated /\ (cleaned \/ s \in alone)
    BY PoolCommandStays
  <1>2. cont[w] = "running"
    BY <1>1, NothingStarts
  <1>3. CASE cleaned
    BY <1>1, <1>2, <1>3 DEF Swept
  <1>4. CASE ~cleaned /\ ReadKnown(s)
    <2>1. PICK K \in SUBSET Slot, a \in BOOLEAN :
            /\ K = {v \in Slot : row[v] # "none"} \cup (IF a THEN {v \in Slot : cont[v] = "running"} ELSE {})
            /\ K = {} /\ (a \/ ~racing)
      BY <1>4, ReadKnownMoves
    <2>2. ~racing => row[w] # "none"
      BY <1>2 DEF Rows
    <2> QED
      BY <1>2, <2>1, <2>2
  <1>5. CASE ~cleaned /\ StoreRows(s)
    <2>1. /\ phase[s] = "store" /\ Tail(call[s].plan) = <<>> /\ call[s].cmd = "cleanup"
          /\ call[s].ok /\ s \in alone /\ (call[s].answered \/ ~racing)
      BY <1>5, StoreMoves
    <2>2. Sweeping(s)
      BY <2>1 DEF Sweeping, Is
    <2>3. Left(s) = {}
      <3>1. Left(s) = Elements(<<>>)
        BY <2>1 DEF Left
      <3>2. Elements(<<>>) = {}
        <4>1. Len(<<>>) = 0 /\ 1..0 = {}
          OBVIOUS
        <4> QED
          BY <4>1, Zenon DEF Elements
      <3> QED
        BY <3>1, <3>2
    <2> QED
      BY <1>1, <1>2, <2>2, <2>3 DEF Swept
  <1>6. ~cleaned => ReadKnown(s) \/ StoreRows(s)
    <2>1. SUFFICES ASSUME ~ReadKnown(s), ~StoreRows(s) PROVE cleaned
      OBVIOUS
    <2>2. CASE Info(s)
      BY <2>2, InfoMoves
    <2>3. CASE Inspect(s) \/ Clear(s) \/ Run(s) \/ Exec(s) \/ Remove(s) \/ LoadRows(s) \/ Expire(s)
      BY <2>3 DEF Inspect, Clear, Run, Started, Exec, Remove, LoadRows, Expire, poolGhosts
    <2> QED
      BY <2>1, <2>2, <2>3 DEF PoolStep
  <1> QED
    BY <1>3, <1>4, <1>5, <1>6

\* Every step of a command keeps Swept.
LEMMA StepKeepsSwept ==
  ASSUME Core, Rows, Starts, Swept, NEW s \in Runner, PoolStep(s) \/ Expire(s)
  PROVE  Swept'
  <1>1. cleaned' => \A w \in Slot : cont'[w] = "running" => w \in belated'
    BY CleanupCleans
  <1>2. ASSUME NEW q \in Runner, Sweeping(q)', NEW w \in Slot, cont'[w] = "running"
        PROVE  w \in belated' \cup Left(q)'
    BY <1>2, OthersSweep, SweepsOn
  <1> QED
    BY <1>1, <1>2 DEF Swept
\* No start but that of the session itself makes a container run.
LEMMA OthersCondemn ==
  ASSUME Core, Starts, Kept, NEW s \in Runner, PoolStep(s) \/ Expire(s),
         NEW q \in Runner, q # s, Condemns(q)', cont'[Slot1(q)'] = "running"
  PROVE  Slot1(q)' \in belated' \/ twoStarts'
  <1>1. /\ Steps(s) /\ UNCHANGED <<belated, twoStarts>>
    BY PoolCommandStays
  <1>2. phase'[q] = phase[q] /\ call'[q] = call[q]
    BY <1>1 DEF Steps
  <1>3. Condemns(q) /\ Slot1(q)' = Slot1(q)
    BY <1>2 DEF Condemns, Is, Slot1
  <1>4. Is(q, "start") /\ phase[q] \in OnSlot
    BY <1>3 DEF Condemns, OnSlot
  <1>5. Slot1(q) \in Slot
    BY <1>4, CallNow
  <1>6. cont[Slot1(q)] = "running" \/ Is(s, "start")
    BY <1>3, <1>5, NoNewRun
  <1>7. CASE Is(s, "start")
    BY <1>1, <1>4, <1>7 DEF Starts
  <1>8. CASE cont[Slot1(q)] = "running"
    BY <1>1, <1>3, <1>8 DEF Kept
  <1> QED
    BY <1>6, <1>7, <1>8

\* The session itself: it condemns what docker inspect said has stopped.
LEMMA Condemned ==
  ASSUME Core, Kept, NEW s \in Runner, PoolStep(s) \/ Expire(s),
         Condemns(s)', cont'[Slot1(s)'] = "running"
  PROVE  Slot1(s)' \in belated' \/ twoStarts'
  <1>1. /\ Steps(s) /\ UNCHANGED <<belated, twoStarts>>
    BY PoolCommandStays
  <1>2. /\ call'[s].cmd = "start"
        /\ \/ phase'[s] = "clear"
           \/ phase'[s] \in {"load", "store"} /\ call'[s].saw \in {"created", "exited"}
    BY DEF Condemns, Is
  <1>3. ASSUME Condemns(s), call'[s].plan = call[s].plan, cont' = cont
        PROVE  Slot1(s)' \in belated' \/ twoStarts'
    BY <1>1, <1>3 DEF Kept, Slot1
  <1>4. CASE Inspect(s)
    <2>1. SameSlot(s) /\ phase[s] = "inspect" /\ phase'[s] = "load" /\ cont' = cont
          /\ (call'[s].saw \notin {"created", "exited"} \/ call'[s].saw = cont[Slot1(s)])
      BY <1>4, InspectMoves
    <2>2. Slot1(s)' = Slot1(s)
      BY <2>1 DEF SameSlot, Slot1
    <2> QED
      BY <1>2, <2>1, <2>2
  <1>5. CASE LoadRows(s)
    <2>1. SameSlot(s) /\ phase[s] = "load" /\ phase'[s] = "store" /\ cont' = cont
          /\ call'[s].saw = call[s].saw
      BY <1>5, LoadMoves
    <2>2. Condemns(s)
      BY <1>2, <2>1 DEF Condemns, Is, SameSlot
    <2> QED
      BY <1>3, <2>1, <2>2 DEF SameSlot
  <1>6. CASE StoreRows(s)
    <2>1. phase[s] = "store" /\ phase'[s] = "clear" /\ SameSlot(s) /\ cont' = cont
          /\ call[s].cmd = "start" /\ call[s].saw \in {"created", "exited"}
      BY <1>2, <1>6, StoreMoves DEF Quit
    <2>2. Condemns(s)
      BY <2>1 DEF Condemns, Is
    <2> QED
      BY <1>3, <2>1, <2>2 DEF SameSlot
  <1>7. CASE Run(s)
    BY <1>2, <1>7, RunMoves
  <1>8. CASE Exec(s) \/ Remove(s)
    BY <1>2, <1>8, ExecMoves, RemoveMoves DEF SameSlot
  <1>9. CASE Info(s) \/ ReadKnown(s) \/ Clear(s) \/ Expire(s)
    <2>1. phase'[s] \in {"idle", "inspect", "remove", "run"}
      BY <1>9, InfoMoves, ReadKnownMoves, ClearMoves, ExpireMoves DEF Quit
    <2> QED
      BY <1>2, <2>1
  <1> QED
    BY <1>4, <1>5, <1>6, <1>7, <1>8, <1>9 DEF PoolStep

\* Every step of a command keeps Kept.
LEMMA StepKeepsKept ==
  ASSUME Core, Starts, Kept, NEW s \in Runner, PoolStep(s) \/ Expire(s)
  PROVE  Kept'
  <1> SUFFICES ASSUME NEW q \in Runner, Condemns(q)', cont'[Slot1(q)'] = "running"
               PROVE  Slot1(q)' \in belated' \/ twoStarts'
    BY DEF Kept
  <1> QED
    BY OthersCondemn, Condemned
-----------------------------------------------------------------------------
(* The beginning of a command, and what the daemon does on its own.        *)

\* The beginning of a command keeps the invariant.
LEMMA BeginKeeps ==
  ASSUME PoolInv, NEW s \in Runner, NEW cmd \in PoolCommands, NEW w,
         cmd = "exec" => w \in Slot, BeginPool(s, cmd, w)
  PROVE  PoolInv'
  <1>1. /\ Steps(s) /\ phase'[s] \in {"info", "exec", "known"} /\ phase[s] = "idle"
        /\ call'[s].cmd = cmd
    BY BeginPoolMoves DEF PoolInv
  <1>2. /\ UNCHANGED <<cont, late, row, belated, racing>>
        /\ cleaned' => cleaned
        /\ alone' \subseteq alone \cup {s}
        /\ twoStarts => twoStarts'
        /\ Core'
    BY BeginKeepsCore DEF PoolInv
  <1>3. Rows'
    BY <1>1, <1>2, RowsKept DEF PoolInv
  <1>4. Starts'
    BY BeginKeepsStarts DEF PoolInv
  <1>5. ASSUME NEW q \in Runner, Sweeping(q)', NEW v \in Slot, cont'[v] = "running"
        PROVE  v \in belated' \cup Left(q)'
    <2>1. q # s
      BY <1>1, <1>5 DEF Sweeping
    <2>2. phase'[q] = phase[q] /\ call'[q] = call[q]
      BY <1>1, <2>1 DEF Steps
    <2>3. Sweeping(q)
      BY <1>2, <1>5, <2>1, <2>2 DEF Sweeping, Is
    <2>4. Left(q)' = Left(q)
      BY <2>2 DEF Left
    <2> QED
      BY <1>2, <1>5, <2>3, <2>4 DEF PoolInv, Swept
  <1>6. Swept'
    BY <1>2, <1>5 DEF PoolInv, Swept
  <1>7. ASSUME NEW q \in Runner, Condemns(q)'
        PROVE  cont'[Slot1(q)'] # "running" \/ Slot1(q)' \in belated' \/ twoStarts'
    <2>1. q # s
      BY <1>1, <1>7 DEF Condemns
    <2>2. phase'[q] = phase[q] /\ call'[q] = call[q]
      BY <1>1, <2>1 DEF Steps
    <2>3. Condemns(q) /\ Slot1(q)' = Slot1(q)
      BY <1>7, <2>2 DEF Condemns, Is, Slot1
    <2> QED
      BY <1>2, <2>3 DEF PoolInv, Kept
  <1>8. Kept'
    BY <1>7 DEF Kept
  <1> QED
    BY <1>2, <1>3, <1>4, <1>6, <1>8 DEF PoolInv

\* So does what the daemon does: what it starts is belated.
LEMMA DaemonKeeps ==
  ASSUME PoolInv, NEW w \in Slot, DaemonStep(w)
  PROVE  PoolInv'
  <1>1. /\ UNCHANGED <<row, phase, call, racing, alone, twoStarts, cleaned>>
        /\ belated \subseteq belated' /\ late' \subseteq late
        /\ \A v \in Slot : cont'[v] # "none" => cont[v] # "none" \/ v \in late
        /\ \A v \in Slot : cont'[v] = "running" => cont[v] = "running" \/ v \in belated'
        /\ Core'
    BY DaemonMoves DEF PoolInv
  <1>2. \A q \in Runner : Slot1(q)' = Slot1(q) /\ Left(q)' = Left(q)
                          /\ (Sweeping(q)' <=> Sweeping(q)) /\ (Condemns(q)' <=> Condemns(q))
    BY <1>1 DEF Slot1, Left, Sweeping, Condemns, Is
  <1>3. Rows'
    <2>1. SUFFICES ASSUME ~racing PROVE Rows'
      BY <1>1 DEF Rows
    <2>2. \A v \in Slot : cont'[v] # "none" \/ v \in late' => row[v] # "none"
      BY <1>1, <2>1 DEF PoolInv, Rows
    <2> QED
      BY <1>1, <1>2, <2>1, <2>2 DEF PoolInv, Rows
  <1>4. Starts'
    BY <1>1 DEF PoolInv, Starts, Is
  <1>5. Swept'
    BY <1>1, <1>2 DEF PoolInv, Swept
  <1>6. Kept'
    <2>1. \A q \in Runner : Condemns(q) => Slot1(q) \in Slot
      <3>1. \A q \in Runner : Condemns(q) => phase[q] \in OnSlot
        BY DEF Condemns, OnSlot
      <3> QED
        BY <3>1, CallNow DEF PoolInv
    <2> QED
      BY <1>1, <1>2, <2>1 DEF PoolInv, Kept
  <1> QED
    BY <1>1, <1>3, <1>4, <1>5, <1>6 DEF PoolInv
-----------------------------------------------------------------------------
(* The invariant, and what follows.                                        *)

\* No container, no row, and nobody at work.
LEMMA PoolInvInit == PoolInit => PoolInv
  <1> SUFFICES ASSUME PoolInit PROVE PoolInv
    OBVIOUS
  <1>1. /\ cont = [w \in Slot |-> "none"] /\ late = {} /\ belated = {} /\ row = NoRows
        /\ phase = [s \in Runner |-> "idle"] /\ call = [s \in Runner |-> NoCall]
        /\ racing = FALSE /\ alone = {} /\ twoStarts = FALSE /\ cleaned = FALSE
    BY DEF PoolInit
  <1>2. NoCall \in Calls /\ Suit("idle", NoCall) /\ NoCall.cmd = "none"
    BY NoCallFits
  <1>3. \A s \in Runner : phase[s] = "idle" /\ call[s] = NoCall /\ call[s].cmd = "none"
    BY <1>1, <1>2
  <1>4. Core
    <2>1. cont \in [Slot -> ContStates] /\ row \in [Slot -> RowStates]
      BY <1>1 DEF NoRows, RowStates, ContStates
    <2>2. phase \in [Runner -> Places] /\ call \in [Runner -> Calls]
      BY <1>1, <1>2 DEF Places
    <2>3. \A s \in Runner : call[s].put \in RowStates
      BY <2>2 DEF Calls
    <2> QED
      BY <1>1, <1>2, <1>3, <2>1, <2>2, <2>3 DEF Core, PoolTypeOK
  <1>5. Rows
    BY <1>1, <1>3 DEF Rows
  <1>6. Starts
    BY <1>1, <1>3 DEF Starts, Is
  <1>7. Swept
    BY <1>1 DEF Swept, Sweeping
  <1>8. Kept
    BY <1>3 DEF Kept, Condemns, Is
  <1> QED
    BY <1>4, <1>5, <1>6, <1>7, <1>8 DEF PoolInv

\* Every step keeps the invariant.
LEMMA PoolInvNext == PoolInv /\ [PoolNext]_poolVars => PoolInv'
  <1> SUFFICES ASSUME PoolInv, [PoolNext]_poolVars PROVE PoolInv'
    OBVIOUS
  <1>1. CASE \E s \in Runner : PoolStep(s) \/ Expire(s)
    <2>1. PICK s \in Runner : PoolStep(s) \/ Expire(s)
      BY <1>1
    <2>2. Core' /\ Rows'
      <3>1. Core'
        <4>1. CASE Info(s) \/ ReadKnown(s) \/ Inspect(s)
          BY <4>1, InfoMoves, ReadKnownMoves, InspectMoves DEF PoolInv
        <4>2. CASE Clear(s) \/ Run(s) \/ Exec(s) \/ Remove(s)
          BY <4>2, ClearMoves, RunMoves, ExecMoves, RemoveMoves DEF PoolInv
        <4>3. CASE LoadRows(s) \/ StoreRows(s) \/ Expire(s)
          BY <4>3, LoadMoves, StoreMoves, ExpireMoves DEF PoolInv
        <4> QED
          BY <2>1, <4>1, <4>2, <4>3 DEF PoolStep
      <3> QED
        BY <2>1, <3>1, StepKeepsRows DEF PoolInv
    <2>3. Starts'
      BY <2>1, StepKeepsStarts DEF PoolInv
    <2>4. Swept' /\ Kept'
      BY <2>1, StepKeepsSwept, StepKeepsKept DEF PoolInv
    <2> QED
      BY <2>2, <2>3, <2>4 DEF PoolInv
  <1>2. CASE \E s \in Runner, w \in Slot : BeginPool(s, "exec", w)
    <2>1. PICK s \in Runner, w \in Slot : BeginPool(s, "exec", w)
      BY <1>2
    <2>2. "exec" \in PoolCommands
      BY <2>1 DEF BeginPool
    <2> QED
      BY <2>1, <2>2, BeginKeeps
  <1>3. CASE \E s \in Runner, cmd \in PoolCommands \ {"exec"} : BeginPool(s, cmd, 1)
    <2>1. PICK s \in Runner, cmd \in PoolCommands \ {"exec"} : BeginPool(s, cmd, 1)
      BY <1>3
    <2> QED
      BY <2>1, BeginKeeps
  <1>4. CASE \E w \in Slot : LateRun(w) \/ ContainerExits(w)
    BY <1>4, DaemonKeeps DEF DaemonStep
  <1>5. CASE UNCHANGED poolVars
    <2>1. /\ UNCHANGED <<cont, late, row, phase, call>>
          /\ UNCHANGED <<belated, racing, alone, twoStarts, cleaned>>
      BY <1>5 DEF poolVars, poolGhosts
    <2>2. Core' /\ Rows'
      BY <2>1 DEF PoolInv, Core, PoolTypeOK, Rows, Slot1
    <2>3. Starts' /\ Swept' /\ Kept'
      BY <2>1 DEF PoolInv, Starts, Swept, Kept, Is, Sweeping, Left, Condemns, Slot1
    <2> QED
      BY <2>2, <2>3 DEF PoolInv
  <1> QED
    BY <1>1, <1>2, <1>3, <1>4, <1>5 DEF PoolNext

\* The types, the places and locals of the commands, and Rows, Starts, Swept
\* and Kept are kept by every step of docker_pool.py and of the daemon.
THEOREM PoolInvariant == PoolSpec => []PoolInv
  BY PoolInvInit, PoolInvNext, PTL DEF PoolSpec

\* Type correctness of the pool.
THEOREM PoolTypes == PoolSpec => []PoolTypeOK
  <1>1. PoolInv => PoolTypeOK
    BY DEF PoolInv, Core
  <1> QED
    BY <1>1, PoolInvariant, PTL

\* containers.json accounts for every container that runs, and a cleanup that
\* said ok left none, however many sessions die or calls to the daemon fail.
THEOREM PoolIsAccounted == PoolSpec => []PoolAccounted
  <1>1. PoolInv => PoolAccounted
    BY DEF PoolInv, PoolAccounted, RunningHasRow, CleanedPool, Rows, Swept
  <1> QED
    BY <1>1, PoolInvariant, PTL

\* start_container removes no container that runs, unless another start, or a
\* run that timed out, started it after docker inspect.
THEOREM RunningIsKept == PoolSpec => RunningKept
  <1>1. ASSUME PoolInv, NEW w \in Slot, NEW s \in Runner, Clearing(s, w), cont[w] = "running"
        PROVE  w \in belated \/ twoStarts
    <2>1. phase[s] = "clear" /\ w = Slot1(s)
      BY <1>1 DEF Clearing
    <2>2. Is(s, "start")
      BY <1>1, <2>1, CallNow DEF PoolInv, Suit, Is
    <2> QED
      BY <1>1, <2>1, <2>2 DEF PoolInv, Kept, Condemns
  <1>2. PoolInv =>
          [\A w \in Slot, s \in Runner :
             /\ Clearing(s, w) /\ phase'[s] = "run" /\ cont[w] = "running" /\ cont'[w] = "none"
             => w \in belated \/ twoStarts]_poolVars
    BY <1>1
  <1> QED
    BY <1>2, PoolInvariant, PTL DEF RunningKept
-----------------------------------------------------------------------------
(* The contest, its listeners and tunnels and its containers together, as  *)
(* MCContest composes them.                                                *)
LEMMA ContestRunsTheParts == ContestSpec => Spec /\ ResourcesSpec /\ PoolSpec
  <1>1. ContestInit => Init /\ ResourcesInit /\ PoolInit
    BY DEF ContestInit
  <1>2. [ContestNext]_<<part, vars, resourceVars, poolVars>> =>
          [Next]_vars /\ [ResourcesNext]_resourceVars /\ [PoolNext]_poolVars
    BY DEF ContestNext
  <1> QED
    BY <1>1, <1>2, PTL DEF ContestSpec, Spec, ResourcesSpec, PoolSpec

(* Everything a contest runs on the machine stays well-typed.              *)
THEOREM ContestTypeCorrect == ContestSpec => []PartsTypeOK
  <1>1. TypeOK /\ ResourcesTypeOK /\ PoolTypeOK => PartsTypeOK
    BY DEF PartsTypeOK
  <1> QED
    BY <1>1, ContestRunsTheParts, ContestTypes, ResourcesTypeCorrect, PoolTypes, PTL

(* What the parts promise holds of the composition: arming, workers,       *)
(* listeners and tunnels, containers.                                      *)
THEOREM ContestHolds ==
  ContestSpec => /\ [](ArmingHolds /\ WorkersAccounted /\ ResourcesAccounted /\ PoolAccounted)
                 /\ RunningKept
  BY ContestRunsTheParts, ArmingIsKept, WorkersAreAccounted, ResourcesKept, PoolIsAccounted,
     RunningIsKept, PTL
=============================================================================
