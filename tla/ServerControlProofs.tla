-------------------------- MODULE ServerControlProofs --------------------------
EXTENDS ServerControl, TLAPS

(* What is at work: each call, executor, report and sweep is idle, or      *)
(* knows a task that exists.                                               *)
Asking == [pc : {"authorized"}, key : Keys,
           op : Ops \cap {"create", "start", "restart", "restore"}]
Executing == [pc : {"read", "call", "gone", "failed", "save", "halt", "remove",
                    "archived", "reconcile", "look", "decide", "release"},
              task : TaskIds, machine : Machines \cup {None}, inside : BOOLEAN,
              seen : {"none", "on", "off"}]
Reporting == [pc : {"ask", "apply"},
              event : [type : {"healthy", "stopped"}, seq : 1 .. MaxSeq],
              machine : Machines \cup {None}]
Sweeping == [pc : {"halt", "end"}, task : TaskIds, machine : Machines \cup {None}]

TaskRecord == [op : Ops \cup {"forced_stop"},
               status : {"queued", "running", "succeeded", "failed"}]

Server == [status : Statuses, task : TaskIds \cup {None},
           lease : Keys \cup {None}, machine : Machines \cup {None},
           snapshot : {"none", "fresh", "old"}, deadline : {"none", "set", "passed"},
           workerSeq : 0 .. MaxSeq, adminSeq : {0} \cup Admins]

AtWork ==
    /\ calls \in [Calls -> {Idle} \cup Asking]
    /\ execs \in [Executors -> {Idle} \cup Executing]
    /\ reports \in [Reports -> {Idle} \cup Reporting]
    /\ sweeps \in [Sweeps -> {Idle} \cup Sweeping]

(* Owners ask for everything but forced stops, and each under a key.       *)
KnownTasks ==
    /\ \A e \in Executors : execs[e] # Idle => tasks[execs[e].task] # NoTask
    /\ \A s \in Sweeps : sweeps[s] # Idle => tasks[sweeps[s].task] # NoTask
    /\ \A t \in TaskIds : tasks[t] # NoTask => (tasks[t].op # "forced_stop" <=> t \in Keys)
    /\ \A e \in Executors : execs[e].pc = "look" => execs[e].machine # None
    /\ \A r \in Reports : reports[r] # Idle => reports[r].event \in mail

Typed == TypeOK /\ AtWork /\ KnownTasks

LEMMA IdleIs == Idle.pc = "idle"
  BY DEF Idle

LEMMA InitTyped == ASSUME ServerControlAssumption, Init PROVE Typed
<1> USE DEF ServerControlAssumption, Init, TaskIds, Machines, Admins
<1>1. server \in Server
  <2>1. NoServer \in Server
    BY DEF NoServer, Server, Statuses
  <2>2. CASE Created
    <3>1. server = [NoServer EXCEPT !.status = "stopped", !.machine = First]
      BY <2>2
    <3> HIDE DEF Init
    <3> QED BY <2>1, <3>1 DEF Server, Statuses
  <2>3. CASE ~Created
    BY <2>1, <2>3
  <2> QED BY <2>2, <2>3
<1>2. TypeOK
  BY <1>1 DEF TypeOK, Server
<1> QED
  BY <1>2 DEF Typed, AtWork, KnownTasks, NoTask, Idle

(* A step of executor e, in which tasks only change what became of them.   *)
LEMMA TasksKept ==
    ASSUME TypeOK, NEW t \in TaskIds, tasks[t] # NoTask,
           NEW status \in {"queued", "running", "succeeded", "failed"},
           tasks' = Ended(t, status)
    PROVE  /\ tasks' \in [TaskIds -> {NoTask} \cup TaskRecord]
           /\ tasks'[t] = [op |-> tasks[t].op, status |-> status]
           /\ \A u \in TaskIds \ {t} : tasks'[u] = tasks[u]
  BY DEF TypeOK, Ended, NoTask, TaskRecord

(* The release of an authorization, and the end of a lease.                *)
LEMMA Releases ==
    ASSUME TypeOK, NEW l \in Keys \cup {None}, None \notin Keys
    PROVE  /\ Release(l) => /\ auths' \in [Keys -> {"none", "held", "released"}]
                            /\ \A k \in Keys \ {l} : auths'[k] = auths[k]
                            /\ l \in Keys => auths'[l] \in {auths[l], "released"}
           /\ Closed(l) \in [Keys -> {"none", "reserved", "active", "released"}]
           /\ \A k \in Keys \ {l} : Closed(l)[k] = leases[k]
           /\ l \in Keys => /\ leases[l] \in Open => Closed(l)[l] = "released"
                            /\ leases[l] \notin Open => Closed(l)[l] = leases[l]
  BY DEF TypeOK, Release, Closed, Open

LEMMA Current ==
    ASSUME Typed
    PROVE  /\ CurrentSucceeded \in [TaskIds -> {NoTask} \cup TaskRecord]
           /\ \A t \in TaskIds :
                /\ tasks[t] = NoTask => CurrentSucceeded[t] = NoTask
                /\ tasks[t] # NoTask =>
                     /\ CurrentSucceeded[t] # NoTask
                     /\ CurrentSucceeded[t].op = tasks[t].op
                     /\ CurrentSucceeded[t].status \in {tasks[t].status, "succeeded"}
<1> USE DEF Typed, TypeOK, TaskRecord, NoTask
<1>1. CASE server.task # None /\ tasks[server.task].status = "running"
  <2>1. server.task \in TaskIds /\ tasks[server.task] \in TaskRecord
    BY <1>1
  <2>2. [tasks[server.task] EXCEPT !.status = "succeeded"]
          = [op |-> tasks[server.task].op, status |-> "succeeded"]
    BY <2>1
  <2>3. CurrentSucceeded =
          [tasks EXCEPT ![server.task] = [tasks[server.task] EXCEPT !.status = "succeeded"]]
    BY <1>1 DEF CurrentSucceeded, Ended
  <2> QED BY <2>1, <2>2, <2>3
<1>2. CASE ~(server.task # None /\ tasks[server.task].status = "running")
  BY <1>2 DEF CurrentSucceeded
<1> QED BY <1>1, <1>2

LEMMA TypedAuthorize ==
    ASSUME ServerControlAssumption, Typed, NEW c \in Calls, NEW k \in Keys, NEW op \in Ops,
           Authorize(c, k, op)
    PROVE  Typed'
<1>1. [pc |-> "authorized", key |-> k, op |-> op] \in Asking
  BY DEF Authorize, MayBegin, Asking
<1>2. calls' \in [Calls -> {Idle} \cup Asking]
  BY <1>1 DEF Authorize, Typed, AtWork
<1>3. auths' \in [Keys -> {"none", "held", "released"}]
  BY DEF Authorize, Typed, TypeOK
<1> QED
  BY <1>2, <1>3 DEF Authorize, Typed, TypeOK, AtWork, KnownTasks, outside, events

(* A new task.                                                             *)
LEMMA TaskAdded ==
    ASSUME Typed, NEW t \in TaskIds, NEW op \in Ops \cup {"forced_stop"},
           op # "forced_stop" <=> t \in Keys,
           NEW status \in {"queued", "running"},
           tasks' = [tasks EXCEPT ![t] = Task(op, status)]
    PROVE  /\ tasks' \in [TaskIds -> {NoTask} \cup TaskRecord]
           /\ \A u \in TaskIds : tasks[u] # NoTask => tasks'[u] # NoTask
           /\ \A u \in TaskIds :
                tasks'[u] # NoTask => (tasks'[u].op # "forced_stop" <=> u \in Keys)
           /\ tasks'[t] = [op |-> op, status |-> status]
           /\ \A u \in TaskIds \ {t} : tasks'[u] = tasks[u]
  BY DEF Typed, TypeOK, KnownTasks, Task, TaskRecord, NoTask

LEMMA TypedCommit ==
    ASSUME ServerControlAssumption, Typed, NEW c \in Calls, Commit(c)
    PROVE  Typed'
<1> DEFINE k == calls[c].key
           op == calls[c].op
<1>1. k \in Keys /\ op \in Ops \cap {"create", "start", "restart", "restore"}
  BY DEF Commit, Typed, AtWork, Asking
<1>2. k \in TaskIds /\ server \in Server /\ op # "forced_stop"
  BY <1>1 DEF TaskIds, Typed, TypeOK, Server
<1>3. calls' \in [Calls -> {Idle} \cup Asking]
  BY DEF Commit, Typed, AtWork
<1>4. CASE Replays(k) \/ ~MayBegin(op)
  BY <1>3, <1>4
     DEF Commit, Typed, TypeOK, AtWork, KnownTasks, outside, events, aggregate
<1>5. CASE ~Replays(k) /\ MayBegin(op)
  <2>1. /\ tasks' = [tasks EXCEPT ![k] = Task(op, "queued")]
        /\ server' = Began(k, op)
        /\ leases' = Leased(k, op)
        /\ Release(IF op = "restart" THEN server.lease ELSE None)
    BY <1>5 DEF Commit
  <2>2. server' \in Server
    <3>1. NoServer \in Server
      BY DEF ServerControlAssumption, NoServer, Server, Statuses
    <3>2. CASE op = "create"
      <4>1. server' = [NoServer EXCEPT !.status = "creating", !.task = k]
        BY <2>1, <3>2 DEF Began
      <4> QED BY <3>1, <4>1, <1>2 DEF Server, Statuses
    <3>3. CASE op \in {"start", "restart"}
      <4>1. server' = [server EXCEPT !.status = "starting", !.task = k, !.lease = k]
        BY <2>1, <3>3 DEF Began
      <4> QED BY <1>1, <4>1, <1>2 DEF Server, Statuses
    <3>4. CASE op = "restore"
      <4>1. server' = [server EXCEPT !.status = "restoring", !.task = k, !.lease = k]
        BY <2>1, <3>4 DEF Began
      <4> QED BY <1>1, <4>1, <1>2 DEF Server, Statuses
    <3> QED BY <1>1, <3>2, <3>3, <3>4
  <2>3. leases' \in [Keys -> {"none", "reserved", "active", "released"}]
    BY <2>1, <1>1, <1>2, Releases
       DEF ServerControlAssumption, Machines, Leased, Typed, TypeOK, Server
  <2>4. auths' \in [Keys -> {"none", "held", "released"}]
    BY <2>1, <1>2, Releases DEF ServerControlAssumption, Machines, Typed, Server
  <2>5. /\ tasks' \in [TaskIds -> {NoTask} \cup TaskRecord]
        /\ \A u \in TaskIds : tasks[u] # NoTask => tasks'[u] # NoTask
        /\ \A u \in TaskIds :
             tasks'[u] # NoTask => (tasks'[u].op # "forced_stop" <=> u \in Keys)
    BY <1>1, <1>2, <2>1, TaskAdded
  <2>6. UNCHANGED <<outside, events, execs, reports, sweeps, halts>>
    BY DEF Commit
  <2> HIDE DEF k, op
  <2> QED
    BY <1>3, <2>2, <2>3, <2>4, <2>5, <2>6
       DEF Typed, TypeOK, AtWork, KnownTasks, outside, events, Server, TaskRecord, Executing, Sweeping
<1> QED
  BY <1>4, <1>5

LEMMA TypedOwner ==
    ASSUME ServerControlAssumption, Typed, NEW k \in Keys, Stop(k) \/ Archive(k) \/ Delete(k)
    PROVE  Typed'
<1>1. k \in TaskIds /\ server \in Server
  BY DEF TaskIds, Typed, TypeOK, Server
<1>2. CASE Stop(k)
  <2>1. server' \in Server
    <3>1. server' = [server EXCEPT !.status = "stopping", !.task = k, !.deadline = "set"]
      BY <1>2 DEF Stop
    <3> QED BY <1>1, <3>1 DEF Server, Statuses
  <2>2. "stop" \in Ops \cup {"forced_stop"} /\ tasks' = [tasks EXCEPT ![k] = Task("stop", "running")]
    BY <1>2 DEF Stop, New
  <2>3. /\ tasks' \in [TaskIds -> {NoTask} \cup TaskRecord]
        /\ \A u \in TaskIds : tasks[u] # NoTask => tasks'[u] # NoTask
        /\ \A u \in TaskIds :
             tasks'[u] # NoTask => (tasks'[u].op # "forced_stop" <=> u \in Keys)
    BY <1>1, <2>2, TaskAdded
  <2>4. worker' \in [seq : 0 .. MaxSeq, asked : BOOLEAN]
    BY <1>2 DEF Stop, AskToStop, Typed, TypeOK
  <2> QED
    BY <1>2, <2>1, <2>3, <2>4
       DEF Stop, Typed, TypeOK, AtWork, KnownTasks, events, running, Server, TaskRecord,
           Executing, Sweeping
<1>3. CASE Archive(k)
  <2>1. server' \in Server
    <3>1. server' = [server EXCEPT !.status = "archiving", !.task = k]
      BY <1>3 DEF Archive
    <3> QED BY <1>1, <3>1 DEF Server, Statuses
  <2>2. "archive" \in Ops \cup {"forced_stop"} /\ tasks' = [tasks EXCEPT ![k] = Task("archive", "queued")]
    BY <1>3 DEF Archive, New
  <2>3. /\ tasks' \in [TaskIds -> {NoTask} \cup TaskRecord]
        /\ \A u \in TaskIds : tasks[u] # NoTask => tasks'[u] # NoTask
        /\ \A u \in TaskIds :
             tasks'[u] # NoTask => (tasks'[u].op # "forced_stop" <=> u \in Keys)
    BY <1>1, <2>2, TaskAdded
  <2> QED
    BY <1>3, <2>1, <2>3
       DEF Archive, Typed, TypeOK, AtWork, KnownTasks, outside, events, running, Server,
           TaskRecord, Executing, Sweeping
<1>4. CASE Delete(k)
  <2>1. server' \in Server
    <3>1. server' = [[server EXCEPT !.lease = None] EXCEPT !.status = "deleting", !.task = k]
      BY <1>4 DEF Delete, Without
    <3>2. [server EXCEPT !.lease = None] \in Server
      BY <1>1 DEF Server
    <3> QED BY <1>1, <3>1, <3>2 DEF Server, Statuses
  <2>2. "delete" \in Ops \cup {"forced_stop"} /\ tasks' = [tasks EXCEPT ![k] = Task("delete", "queued")]
    BY <1>4 DEF Delete, New
  <2>3. /\ tasks' \in [TaskIds -> {NoTask} \cup TaskRecord]
        /\ \A u \in TaskIds : tasks[u] # NoTask => tasks'[u] # NoTask
        /\ \A u \in TaskIds :
             tasks'[u] # NoTask => (tasks'[u].op # "forced_stop" <=> u \in Keys)
    BY <1>1, <2>2, TaskAdded
  <2>4. /\ leases' \in [Keys -> {"none", "reserved", "active", "released"}]
        /\ auths' \in [Keys -> {"none", "held", "released"}]
    BY <1>1, <1>4, Releases DEF Delete, ServerControlAssumption, Machines, Typed, Server
  <2> QED
    BY <1>4, <2>1, <2>3, <2>4
       DEF Delete, Typed, TypeOK, AtWork, KnownTasks, outside, events, running, Server,
           TaskRecord, Executing, Sweeping
<1> QED
  BY <1>2, <1>3, <1>4

(* A step of executor e: what it goes on with, and its effect.             *)
LEMMA TypedExecs ==
    ASSUME Typed, NEW e \in Executors, NEW r,
           execs' = [execs EXCEPT ![e] = r],
           \/ r = Idle
           \/ /\ r \in Executing /\ tasks'[r.task] # NoTask
              /\ r.pc = "look" => r.machine # None,
           server' \in Server,
           tasks' \in [TaskIds -> {NoTask} \cup TaskRecord],
           \A t \in TaskIds :
              /\ tasks[t] # NoTask => tasks'[t] # NoTask
              /\ tasks'[t] # NoTask => (tasks'[t].op # "forced_stop" <=> t \in Keys),
           leases' \in [Keys -> {"none", "reserved", "active", "released"}],
           auths' \in [Keys -> {"none", "held", "released"}],
           vultr' \in [Machines -> {"none", "on", "off"}],
           creates' \in [Keys -> Nat], StillHere
    PROVE  Typed'
<1>1. execs' \in [Executors -> {Idle} \cup Executing]
  BY DEF Typed, AtWork
<1>2. \A f \in Executors : execs'[f] # Idle =>
        tasks'[execs'[f].task] # NoTask /\ (execs'[f].pc = "look" => execs'[f].machine # None)
  BY DEF Typed, AtWork, KnownTasks, Executing
<1>3. \A f \in Executors : execs'[f].pc = "look" => execs'[f].machine # None
  BY <1>2, IdleIs
<1> QED
  BY <1>1, <1>2, <1>3
     DEF Typed, TypeOK, AtWork, KnownTasks, StillHere, events, Server, TaskRecord, Sweeping

LEMMA ExecIs ==
    ASSUME Typed, NEW e \in Executors, execs[e].pc # "idle"
    PROVE  /\ execs[e] \in Executing /\ execs[e].task \in TaskIds
           /\ tasks[execs[e].task] \in TaskRecord /\ tasks[execs[e].task] # NoTask
           /\ execs[e].machine \in Machines \cup {None}
           /\ server \in Server
  BY IdleIs DEF Typed, TypeOK, AtWork, KnownTasks, Executing, TaskRecord, Server

(* What stays of the types when an action leaves a variable alone.         *)
LEMMA SameTypes ==
    ASSUME Typed
    PROVE  /\ server \in Server
           /\ tasks \in [TaskIds -> {NoTask} \cup TaskRecord]
           /\ \A t \in TaskIds :
                tasks[t] # NoTask => (tasks[t].op # "forced_stop" <=> t \in Keys)
           /\ leases \in [Keys -> {"none", "reserved", "active", "released"}]
           /\ auths \in [Keys -> {"none", "held", "released"}]
           /\ vultr \in [Machines -> {"none", "on", "off"}]
           /\ creates \in [Keys -> Nat]
  BY DEF Typed, TypeOK, KnownTasks, Server, TaskRecord

LEMMA TypedExecute ==
    ASSUME Typed, NEW e \in Executors, NEW t \in TaskIds, Execute(e, t)
    PROVE  Typed'
<1> DEFINE r(pc, inside) == [pc |-> pc, task |-> t, machine |-> None, inside |-> inside,
                             seen |-> "none"]
<1>1. r("read", TRUE) \in Executing /\ r("reconcile", FALSE) \in Executing
  BY DEF Executing
<1>2. tasks[t] # NoTask
  BY DEF Execute
<1>3. CASE Queued(t) /\ tasks' = Ended(t, "running") /\ execs' = [execs EXCEPT ![e] = r("read", TRUE)]
  <2>1. /\ tasks' \in [TaskIds -> {NoTask} \cup TaskRecord]
        /\ tasks'[t] = [op |-> tasks[t].op, status |-> "running"]
        /\ \A u \in TaskIds \ {t} : tasks'[u] = tasks[u]
    BY <1>2, <1>3, TasksKept DEF Typed
  <2>2. \A u \in TaskIds :
          /\ tasks[u] # NoTask => tasks'[u] # NoTask
          /\ tasks'[u] # NoTask => (tasks'[u].op # "forced_stop" <=> u \in Keys)
    BY <2>1, <1>2, SameTypes DEF NoTask
  <2> HIDE DEF r
  <2>3. r("read", TRUE).task = t /\ r("read", TRUE).pc = "read"
    BY DEF r
  <2> QED
    BY <1>1, <1>2, <1>3, <2>1, <2>2, <2>3, SameTypes, TypedExecs DEF Execute
<1>4. CASE UNCHANGED tasks /\ execs' = [execs EXCEPT ![e] = r("reconcile", FALSE)]
  <2> HIDE DEF r
  <2>3. r("reconcile", FALSE).task = t /\ r("reconcile", FALSE).pc = "reconcile"
    BY DEF r
  <2> QED
    BY <1>1, <1>2, <1>4, <2>3, SameTypes, TypedExecs DEF Execute
<1> QED
  BY <1>3, <1>4 DEF Execute

LEMMA TypedReadServer ==
    ASSUME Typed, NEW e \in Executors, ReadServer(e)
    PROVE  Typed'
<1> DEFINE pc == CASE Op(e) \in {"create", "restore"} -> "call"
                   [] Op(e) = "delete" /\ server.machine = None -> "gone"
                   [] Op(e) \notin {"create", "restore", "delete"} /\ server.machine = None -> "failed"
                   [] OTHER -> "call"
           r == [execs[e] EXCEPT !.machine = server.machine, !.pc = pc]
<1>1. execs[e] \in Executing /\ tasks[execs[e].task] # NoTask /\ server.machine \in Machines \cup {None}
  BY ExecIs DEF ReadServer, Server
<1>2. pc \in {"call", "gone", "failed"}
  BY DEF Server
<1>3. execs' = [execs EXCEPT ![e] = r]
  <2>1. execs' = [execs EXCEPT ![e].machine = server.machine, ![e].pc = pc]
    BY DEF ReadServer
  <2> HIDE DEF pc
  <2> QED BY <2>1 DEF Typed, AtWork
<1>4. r \in Executing /\ r.task = execs[e].task /\ r.pc = pc
  <2> HIDE DEF pc
  <2> QED BY <1>1, <1>2 DEF Executing
<1>5. UNCHANGED <<server, tasks, leases, auths, vultr, creates>> /\ StillHere
  BY DEF ReadServer, aggregate
<1> HIDE DEF r, pc
<1> QED
  BY <1>1, <1>2, <1>3, <1>4, <1>5, SameTypes, TypedExecs

(* A step of an executor that only moves it, and what is at the provider.  *)
LEMMA TypedGoto ==
    ASSUME Typed, NEW e \in Executors, execs[e].pc # "idle",
           NEW pc \in {"read", "call", "gone", "failed", "save", "halt", "remove", "archived",
                       "reconcile", "decide", "release"},
           Goto(e, pc) \/ Ends(e),
           server' \in Server,
           leases' \in [Keys -> {"none", "reserved", "active", "released"}],
           auths' \in [Keys -> {"none", "held", "released"}],
           vultr' \in [Machines -> {"none", "on", "off"}],
           creates' \in [Keys -> Nat], UNCHANGED tasks, StillHere
    PROVE  Typed'
<1>1. CASE Goto(e, pc)
  <2> DEFINE r == [execs[e] EXCEPT !.pc = pc]
  <2>1. /\ r \in Executing /\ r.task = execs[e].task /\ r.pc = pc
        /\ execs' = [execs EXCEPT ![e] = r]
    <3>1. execs[e] \in Executing
      BY ExecIs
    <3> QED BY <1>1, <3>1 DEF Executing, Goto
  <2>2. tasks[execs[e].task] # NoTask
    BY ExecIs
  <2> HIDE DEF r
  <2> QED BY <2>1, <2>2, SameTypes, TypedExecs
<1>2. CASE Ends(e)
  BY <1>2, SameTypes, TypedExecs DEF Ends
<1> QED
  BY <1>1, <1>2

LEMMA TypedProvider ==
    ASSUME Typed, NEW e \in Executors, execs[e].pc # "idle",
           NEW next \in {"reconcile", "remove", "archived"},
           NEW possible \in BOOLEAN,
           NEW power, power \in {"none", "on", "off"} \/ Machine(e) \notin Machines,
           Provider(e, possible, power, next),
           UNCHANGED <<aggregate, creates>>, StillHere
    PROVE  Typed'
<1>1. vultr' \in [Machines -> {"none", "on", "off"}]
  BY SameTypes DEF Provider
<1>2. Goto(e, next) \/ Ends(e) \/ Goto(e, "failed")
  BY DEF Provider
<1> QED
  BY <1>1, <1>2, SameTypes, TypedGoto DEF aggregate

LEMMA TypedCreate ==
    ASSUME ServerControlAssumption, Typed, NEW e \in Executors, Create(e)
    PROVE  Typed'
<1> DEFINE t == execs[e].task
           r == [execs[e] EXCEPT !.pc = "save", !.machine = t]
<1>1. /\ execs[e] \in Executing /\ tasks[t] # NoTask /\ t \in Keys /\ t \in Machines
      /\ execs[e].pc # "idle"
  BY ExecIs DEF Create, Op, Typed, KnownTasks, Machines
<1>2. creates' \in [Keys -> Nat] /\ UNCHANGED <<server, tasks, leases, auths>> /\ StillHere
  BY <1>1, SameTypes DEF Create, aggregate
<1>3. CASE vultr' = [vultr EXCEPT ![t] = "on"] /\ execs' = [execs EXCEPT ![e] = r]
  <2>1. r \in Executing /\ r.task = t /\ r.pc = "save"
    BY <1>1 DEF Executing
  <2>2. vultr' \in [Machines -> {"none", "on", "off"}]
    BY <1>1, <1>3, SameTypes
  <2> HIDE DEF r
  <2> QED BY <1>1, <1>2, <1>3, <2>1, <2>2, SameTypes, TypedExecs
<1>4. CASE vultr' \in {vultr, [vultr EXCEPT ![t] = "on"]} /\ (Ends(e) \/ Goto(e, "failed"))
  <2>1. vultr' \in [Machines -> {"none", "on", "off"}]
    BY <1>1, <1>4, SameTypes
  <2> QED BY <1>1, <1>2, <1>4, <2>1, SameTypes, TypedGoto
<1>5. execs' = [execs EXCEPT ![e].pc = "save", ![e].machine = t] => execs' = [execs EXCEPT ![e] = r]
  BY DEF Typed, AtWork
<1> QED
  BY <1>3, <1>4, <1>5 DEF Create

LEMMA TypedSave ==
    ASSUME Typed, NEW e \in Executors, Save(e)
    PROVE  Typed'
<1>1. server \in Server /\ Machine(e) \in Machines \cup {None} /\ execs[e].pc # "idle"
  BY ExecIs DEF Save, Machine
<1>2. server' \in Server
  <2>1. server' = [server EXCEPT !.machine = Machine(e)] \/ server' = server
    BY DEF Save
  <2> QED BY <1>1, <2>1 DEF Server
<1>3. Goto(e, "halt") \/ Ends(e)
  BY DEF Save
<1>4. UNCHANGED <<tasks, leases, auths, vultr, creates>> /\ StillHere
  BY DEF Save
<1> QED
  BY <1>1, <1>2, <1>3, <1>4, SameTypes, TypedGoto

LEMMA TypedCall ==
    ASSUME Typed, NEW e \in Executors, Call(e)
    PROVE  Typed'
<1>1. execs[e].pc # "idle" /\ UNCHANGED <<aggregate, creates>> /\ StillHere
  BY DEF Call
<1>2. CASE Provider(e, Exists(Machine(e)), "on", "reconcile")
  BY <1>1, <1>2, TypedProvider DEF Exists
<1>3. CASE Provider(e, TRUE, "none", "reconcile")
  BY <1>1, <1>3, TypedProvider
<1>4. CASE Provider(e, Exists(Machine(e)), vultr[Machine(e)], "remove")
  <2>1. vultr[Machine(e)] \in {"none", "on", "off"} \/ Machine(e) \notin Machines
    BY SameTypes
  <2> QED BY <1>1, <1>4, <2>1, TypedProvider DEF Exists
<1> QED
  BY <1>2, <1>3, <1>4 DEF Call

LEMMA TypedHaltRemove ==
    ASSUME Typed, NEW e \in Executors, Halt(e) \/ Remove(e)
    PROVE  Typed'
<1>1. execs[e].pc # "idle" /\ UNCHANGED <<aggregate, creates>> /\ StillHere
  BY DEF Halt, Remove
<1>2. CASE Provider(e, Exists(Machine(e)), "off", "reconcile")
  BY <1>1, <1>2, TypedProvider DEF Exists
<1>3. CASE Provider(e, TRUE, "none", "archived")
  BY <1>1, <1>3, TypedProvider
<1> QED
  BY <1>2, <1>3 DEF Halt, Remove

(* An executor ends, and so does its task, if it does.                     *)
LEMMA TypedEnds ==
    ASSUME Typed, NEW e \in Executors, execs[e].pc # "idle",
           Ends(e) \/ Goto(e, "release"),
           NEW status \in {"succeeded", "failed"},
           tasks' = Ended(execs[e].task, status) \/ UNCHANGED tasks,
           server' \in Server,
           leases' \in [Keys -> {"none", "reserved", "active", "released"}],
           auths' \in [Keys -> {"none", "held", "released"}],
           UNCHANGED <<vultr, creates>>, StillHere
    PROVE  Typed'
<1>1. /\ execs[e] \in Executing /\ execs[e].task \in TaskIds
      /\ tasks[execs[e].task] # NoTask
  BY ExecIs
<1>2. /\ tasks' \in [TaskIds -> {NoTask} \cup TaskRecord]
      /\ \A t \in TaskIds :
           /\ tasks[t] # NoTask => tasks'[t] # NoTask
           /\ tasks'[t] # NoTask => (tasks'[t].op # "forced_stop" <=> t \in Keys)
  <2>1. CASE UNCHANGED tasks
    BY <2>1, SameTypes
  <2>2. CASE tasks' = Ended(execs[e].task, status)
    <3>1. /\ tasks' \in [TaskIds -> {NoTask} \cup TaskRecord]
          /\ tasks'[execs[e].task] = [op |-> tasks[execs[e].task].op, status |-> status]
          /\ \A u \in TaskIds \ {execs[e].task} : tasks'[u] = tasks[u]
      BY <1>1, <2>2, TasksKept DEF Typed
    <3> QED BY <3>1, <1>1, SameTypes DEF NoTask
  <2> QED BY <2>1, <2>2
<1>3. CASE Ends(e)
  BY <1>2, <1>3, SameTypes, TypedExecs DEF Ends
<1>4. CASE Goto(e, "release")
  <2> DEFINE r == [execs[e] EXCEPT !.pc = "release"]
  <2>1. r \in Executing /\ r.task = execs[e].task /\ r.pc = "release"
    BY <1>1 DEF Executing
  <2>2. execs' = [execs EXCEPT ![e] = r]
    BY <1>4 DEF Goto
  <2> HIDE DEF r
  <2> QED BY <1>1, <1>2, <2>1, <2>2, SameTypes, TypedExecs
<1> QED
  BY <1>3, <1>4

LEMMA TypedArchived ==
    ASSUME Typed, NEW e \in Executors, Archived(e) \/ Gone(e)
    PROVE  Typed'
<1>1. server \in Server /\ execs[e].task \in TaskIds /\ execs[e].pc # "idle"
  BY ExecIs DEF Archived, Gone
<1>2. server' \in Server
  <2>1. \/ server' = server
        \/ server' = [server EXCEPT !.status = "archived", !.machine = None,
                             !.snapshot = "fresh", !.task = execs[e].task]
        \/ server' = [server EXCEPT !.status = "deleted", !.task = execs[e].task]
    BY DEF Archived, Gone, Shelved
  <2> QED BY <1>1, <2>1 DEF Server, Statuses
<1>3. /\ Ends(e) /\ (tasks' = Ended(execs[e].task, "succeeded") \/ UNCHANGED tasks)
      /\ UNCHANGED <<leases, auths, vultr, creates>> /\ StillHere
  BY DEF Archived, Gone
<1> QED
  BY <1>1, <1>2, <1>3, SameTypes, TypedEnds

LEMMA TypedReconcile ==
    ASSUME ServerControlAssumption, Typed, NEW e \in Executors, Reconcile(e)
    PROVE  Typed'
<1> DEFINE t == execs[e].task
           found == tasks[t].op = "create" /\ server.machine = None /\ Exists(t)
           m == IF found THEN t ELSE server.machine
           r == [execs[e] EXCEPT !.pc = "look", !.machine = m]
<1>1. /\ execs[e] \in Executing /\ tasks[t] # NoTask /\ t \in TaskIds
      /\ execs[e].pc # "idle" /\ server \in Server
  BY ExecIs DEF Reconcile
<1>2. UNCHANGED <<tasks, leases, auths, vultr, creates>> /\ StillHere
  BY DEF Reconcile
<1>3. found => t \in Machines /\ t # None
  BY <1>1 DEF ServerControlAssumption, Typed, KnownTasks, Machines
<1>4. CASE Ends(e) /\ UNCHANGED server
  BY <1>1, <1>2, <1>4, SameTypes, TypedGoto
<1>5. CASE /\ found \/ server.machine # None
           /\ server' = IF found THEN [server EXCEPT !.machine = t] ELSE server
           /\ execs' = [execs EXCEPT ![e].pc = "look", ![e].machine = m]
  <2>1. m \in Machines \cup {None} /\ m # None
    BY <1>1, <1>3, <1>5 DEF Server
  <2>2. server' \in Server
    <3>1. server' = [server EXCEPT !.machine = t] \/ server' = server
      BY <1>5
    <3>2. CASE found
      <4>1. server' = [server EXCEPT !.machine = t] /\ t \in Machines
        BY <1>3, <1>5, <3>2
      <4> QED BY <1>1, <4>1 DEF Server
    <3> QED BY <1>1, <1>5, <3>2
  <2> HIDE DEF m, t
  <2>3. execs' = [execs EXCEPT ![e] = r]
    BY <1>5 DEF Typed, AtWork
  <2>4. r \in Executing /\ r.task = execs[e].task /\ r.machine = m
    BY <1>1, <2>1 DEF Executing
  <2>5. tasks[execs[e].task] # NoTask
    BY <1>1 DEF t
  <2> HIDE DEF r
  <2> QED BY <2>1, <2>2, <2>3, <2>4, <2>5, <1>2, SameTypes, TypedExecs
<1> QED
  BY <1>4, <1>5 DEF Reconcile

LEMMA TypedLook ==
    ASSUME Typed, NEW e \in Executors, Look(e)
    PROVE  Typed'
<1> DEFINE m == Machine(e)
           power == IF Op(e) = "create" /\ vultr[m] = "on" THEN "off" ELSE vultr[m]
           r == [execs[e] EXCEPT !.pc = "decide", !.seen = power]
<1>1. /\ execs[e] \in Executing /\ tasks[execs[e].task] # NoTask /\ m \in Machines
      /\ execs[e].pc # "idle"
  BY ExecIs DEF Look, Machine, Typed, KnownTasks
<1>2. UNCHANGED <<aggregate, creates>> /\ StillHere
  BY DEF Look
<1>3. power \in {"none", "on", "off"}
  BY <1>1, SameTypes
<1>4. CASE /\ vultr' = [vultr EXCEPT ![m] = power]
           /\ execs' = [execs EXCEPT ![e].pc = "decide", ![e].seen = power]
  <2> HIDE DEF power
  <2>1. vultr' \in [Machines -> {"none", "on", "off"}]
    BY <1>1, <1>3, <1>4, SameTypes
  <2>2. r \in Executing /\ r.task = execs[e].task /\ r.pc = "decide"
    BY <1>1, <1>3 DEF Executing
  <2>3. execs' = [execs EXCEPT ![e] = r]
    BY <1>4 DEF Typed, AtWork
  <2> HIDE DEF r
  <2> QED BY <1>1, <1>2, <2>1, <2>2, <2>3, SameTypes, TypedExecs DEF aggregate
<1>5. CASE UNCHANGED vultr /\ (Ends(e) \/ Goto(e, "failed"))
  BY <1>1, <1>2, <1>5, SameTypes, TypedGoto DEF aggregate
<1> QED
  BY <1>4, <1>5 DEF Look

LEMMA TypedDecide ==
    ASSUME Typed, NEW e \in Executors, Decide(e)
    PROVE  Typed'
<1>1. server \in Server /\ execs[e].task \in TaskIds /\ execs[e].pc # "idle"
  BY ExecIs DEF Decide
<1>2. server' \in Server
  <2>1. \/ server' = server
        \/ server' = [server EXCEPT !.task = execs[e].task, !.status = "deleted"]
        \/ server' = [server EXCEPT !.task = execs[e].task, !.status = "stopped"]
    BY DEF Decide
  <2> QED BY <1>1, <2>1 DEF Server, Statuses
<1>3. /\ tasks' = Ended(execs[e].task, "succeeded") \/ UNCHANGED tasks
      /\ Goto(e, "release") \/ Ends(e)
      /\ UNCHANGED <<leases, auths, vultr, creates>> /\ StillHere
  BY DEF Decide
<1> QED
  BY <1>1, <1>2, <1>3, SameTypes, TypedEnds

LEMMA TypedReleaseCreate ==
    ASSUME Typed, NEW e \in Executors, ReleaseCreate(e)
    PROVE  Typed'
<1>1. auths' \in [Keys -> {"none", "held", "released"}]
  BY SameTypes DEF ReleaseCreate
<1>2. /\ execs[e].pc # "idle" /\ (Ends(e) \/ Goto(e, "failed"))
      /\ UNCHANGED <<server, tasks, leases, vultr, creates>> /\ StillHere
  BY DEF ReleaseCreate
<1> QED
  BY <1>1, <1>2, SameTypes, TypedGoto

LEMMA TypedFail ==
    ASSUME ServerControlAssumption, Typed, NEW e \in Executors, Fail(e)
    PROVE  Typed'
<1> DEFINE t == execs[e].task
           starts == Op(e) \in {"start", "restart", "restore"}
<1>1. server \in Server /\ t \in TaskIds /\ execs[e].pc # "idle"
  BY ExecIs DEF Fail
<1>2. server' \in Server
  <2>1. [server EXCEPT !.lease = None] \in Server
    BY <1>1 DEF Server
  <2>2. \/ server' = server
        \/ server' = [server EXCEPT !.status = "failed", !.task = t]
        \/ server' = [[server EXCEPT !.lease = None] EXCEPT !.task = t, !.status = "archived"]
        \/ server' = [[server EXCEPT !.lease = None] EXCEPT !.task = t, !.status = "stopped"]
    BY DEF Fail, Without
  <2> DEFINE without == [server EXCEPT !.lease = None]
  <2> HIDE DEF without
  <2>3. without \in Server
    BY <2>1 DEF without
  <2>4. \/ server' = server
        \/ server' = [server EXCEPT !.status = "failed", !.task = t]
        \/ server' = [without EXCEPT !.task = t, !.status = "archived"]
        \/ server' = [without EXCEPT !.task = t, !.status = "stopped"]
    BY <2>2 DEF without
  <2>5. CASE server' = [server EXCEPT !.status = "failed", !.task = t]
    BY <1>1, <2>5 DEF Server, Statuses
  <2>6. CASE server' = [without EXCEPT !.task = t, !.status = "archived"]
    BY <1>1, <2>3, <2>6 DEF Server, Statuses
  <2>7. CASE server' = [without EXCEPT !.task = t, !.status = "stopped"]
    BY <1>1, <2>3, <2>7 DEF Server, Statuses
  <2> QED BY <1>1, <2>4, <2>5, <2>6, <2>7
<1>3. leases' \in [Keys -> {"none", "reserved", "active", "released"}]
  BY <1>1, SameTypes, Releases DEF Fail, ServerControlAssumption, Machines, Typed, Server
<1>4. auths' \in [Keys -> {"none", "held", "released"}]
  <2>1. PICK l \in TaskIds \cup {None} : Release(l)
    BY <1>1 DEF Fail, Server, TaskIds
  <2> QED BY <2>1, SameTypes DEF Release
<1>5. /\ tasks' = Ended(t, "failed") /\ Ends(e)
      /\ UNCHANGED <<vultr, creates>> /\ StillHere
  BY DEF Fail
<1> QED
  BY <1>1, <1>2, <1>3, <1>4, <1>5, SameTypes, TypedEnds

LEMMA TypedExecutor ==
    ASSUME ServerControlAssumption, Typed, NEW e \in Executors, Executor(e) \/ ExecutorDies(e)
    PROVE  Typed'
<1>1. CASE ExecutorDies(e)
  <2>1. execs[e].pc # "idle"
    BY <1>1, IdleIs DEF ExecutorDies, Typed, AtWork, Executing
  <2> QED BY <1>1, <2>1, SameTypes, TypedGoto DEF ExecutorDies, aggregate
<1> QED
  BY <1>1, TypedExecute, TypedReadServer, TypedCreate, TypedSave, TypedCall, TypedHaltRemove,
     TypedArchived, TypedReconcile, TypedLook, TypedDecide, TypedReleaseCreate, TypedFail
     DEF Executor

(* The rest of what happens to a server.                                   *)
LEMMA TypedRest ==
    ASSUME Typed,
           server' \in Server,
           tasks' \in [TaskIds -> {NoTask} \cup TaskRecord],
           \A t \in TaskIds :
              /\ tasks[t] # NoTask => tasks'[t] # NoTask
              /\ tasks'[t] # NoTask => (tasks'[t].op # "forced_stop" <=> t \in Keys),
           leases' \in [Keys -> {"none", "reserved", "active", "released"}],
           auths' \in [Keys -> {"none", "held", "released"}],
           vultr' \in [Machines -> {"none", "on", "off"}],
           worker' \in [seq : 0 .. MaxSeq, asked : BOOLEAN],
           mail' \subseteq [type : {"healthy", "stopped"}, seq : 1 .. MaxSeq],
           consumed' \subseteq mail',
           settlements' \in [Settlements -> [lease : Keys \cup {None}, stopped : BOOLEAN]],
           admin' \in [Admins -> [consumed : BOOLEAN,
                                  result : {"none", "applied", "ignored", "out_of_order", "duplicate"},
                                  done : {"none", "succeeded", "rejected"}]],
           halts' \subseteq Machines,
           reports' \in [Reports -> {Idle} \cup Reporting],
           sweeps' \in [Sweeps -> {Idle} \cup Sweeping],
           \A s \in Sweeps : sweeps'[s] # Idle => tasks'[sweeps'[s].task] # NoTask,
           \A r \in Reports : reports'[r] # Idle => reports'[r].event \in mail',
           UNCHANGED <<creates, calls, execs>>
    PROVE  Typed'
<1>1. \A e \in Executors : execs[e] # Idle => execs[e].task \in TaskIds
  BY DEF Typed, AtWork, Executing
<1> QED
  BY <1>1 DEF Typed, TypeOK, AtWork, KnownTasks, Server, TaskRecord

LEMMA SameRest ==
    ASSUME Typed
    PROVE  /\ worker \in [seq : 0 .. MaxSeq, asked : BOOLEAN]
           /\ mail \subseteq [type : {"healthy", "stopped"}, seq : 1 .. MaxSeq]
           /\ consumed \subseteq mail
           /\ settlements \in [Settlements -> [lease : Keys \cup {None}, stopped : BOOLEAN]]
           /\ admin \in [Admins -> [consumed : BOOLEAN,
                                  result : {"none", "applied", "ignored", "out_of_order", "duplicate"},
                                  done : {"none", "succeeded", "rejected"}]]
           /\ halts \subseteq Machines
           /\ reports \in [Reports -> {Idle} \cup Reporting]
           /\ sweeps \in [Sweeps -> {Idle} \cup Sweeping]
           /\ \A s \in Sweeps : sweeps[s] # Idle =>
                sweeps[s].task \in TaskIds /\ tasks[sweeps[s].task] # NoTask
           /\ \A r \in Reports : reports[r] # Idle => reports[r].event \in mail
  BY DEF Typed, TypeOK, AtWork, KnownTasks, Sweeping

LEMMA TypedSend ==
    ASSUME ServerControlAssumption, Typed, NEW type \in {"healthy", "stopped"}, Send(type)
    PROVE  Typed'
<1>1. worker.seq \in 0 .. MaxSeq /\ worker.seq + 1 \in 1 .. MaxSeq /\ worker.asked \in BOOLEAN
  BY SameRest DEF Send, ServerControlAssumption
<1>2. worker' \in [seq : 0 .. MaxSeq, asked : BOOLEAN]
  BY <1>1 DEF Send
<1>3. mail' \subseteq [type : {"healthy", "stopped"}, seq : 1 .. MaxSeq] /\ mail \subseteq mail'
  BY <1>1, SameRest DEF Send
<1> QED
  BY <1>2, <1>3, SameTypes, SameRest, TypedRest DEF Send, aggregate, events, running

LEMMA TypedReceiveAsk ==
    ASSUME Typed, NEW r \in Reports, (\E ev \in mail : Receive(r, ev)) \/ Ask(r)
    PROVE  Typed'
<1>1. /\ reports' \in [Reports -> {Idle} \cup Reporting]
      /\ vultr' \in [Machines -> {"none", "on", "off"}]
      /\ \A q \in Reports : reports'[q] # Idle => reports'[q].event \in mail
  <2>1. ASSUME NEW ev \in mail, Receive(r, ev)
        PROVE  /\ reports' \in [Reports -> {Idle} \cup Reporting]
               /\ vultr' \in [Machines -> {"none", "on", "off"}]
               /\ \A q \in Reports : reports'[q] # Idle => reports'[q].event \in mail
    <3>1. [pc |-> "ask", event |-> ev, machine |-> server.machine] \in Reporting
      BY SameTypes, SameRest DEF Reporting, Server
    <3>2. reports' = [reports EXCEPT ![r] = [pc |-> "ask", event |-> ev, machine |-> server.machine]]
          /\ vultr' = vultr
      BY <2>1 DEF Receive, outside
    <3> DEFINE new == [pc |-> "ask", event |-> ev, machine |-> server.machine]
    <3>3. new \in Reporting /\ new.event = ev
      BY <3>1
    <3> HIDE DEF new
    <3>4. /\ reports' \in [Reports -> {Idle} \cup Reporting]
          /\ \A q \in Reports : reports'[q] # Idle => reports'[q].event \in mail
      BY <3>2, <3>3, SameRest DEF new
    <3> QED BY <3>2, <3>4, SameTypes
  <2>2. CASE Ask(r)
    <3>1. reports[r] \in Reporting
      BY <2>2, SameRest, IdleIs DEF Ask
    <3>2. /\ [reports[r] EXCEPT !.pc = "apply"] \in Reporting
          /\ [reports[r] EXCEPT !.pc = "apply"].event = reports[r].event
      BY <3>1 DEF Reporting
    <3>3. reports[r] # Idle
      BY <2>2, IdleIs DEF Ask
    <3> DEFINE new == [reports[r] EXCEPT !.pc = "apply"]
    <3>4. reports' = [reports EXCEPT ![r] = new] \/ reports' = [reports EXCEPT ![r] = Idle]
      BY <2>2 DEF Ask
    <3>5. new \in Reporting /\ new.event \in mail
      BY <3>2, <3>3, SameRest
    <3> HIDE DEF new
    <3>6. /\ reports' \in [Reports -> {Idle} \cup Reporting]
          /\ \A q \in Reports : reports'[q] # Idle => reports'[q].event \in mail
      BY <3>4, <3>5, SameRest
    <3>7. vultr' \in [Machines -> {"none", "on", "off"}]
      <4>1. \/ UNCHANGED vultr
            \/ /\ reports[r].machine # None
               /\ vultr' = [vultr EXCEPT ![reports[r].machine] = "off"]
        BY <2>2 DEF Ask
      <4> QED BY <3>1, <4>1, SameTypes DEF Reporting
    <3> QED BY <3>6, <3>7
  <2> QED BY <2>1, <2>2
<1>2. /\ UNCHANGED <<aggregate, creates, worker, mail, events, calls, execs, sweeps, halts>>
  BY DEF Receive, Ask, outside
<1> QED
  BY <1>1, <1>2, SameTypes, SameRest, TypedRest DEF aggregate, events

LEMMA TypedApply ==
    ASSUME ServerControlAssumption, Typed, NEW r \in Reports, Apply(r)
    PROVE  Typed'
<1> DEFINE ev == reports[r].event
<1>1. reports[r] \in Reporting /\ ev.seq \in 0 .. MaxSeq /\ server \in Server
  BY SameTypes, SameRest, IdleIs DEF Apply, Reporting, ServerControlAssumption
<1>2. /\ UNCHANGED <<outside, settlements, admin, calls, execs, sweeps, halts>>
      /\ reports' \in [Reports -> {Idle} \cup Reporting]
  BY SameRest DEF Apply
<1>3. tasks' = CurrentSucceeded \/ UNCHANGED tasks
  BY DEF Apply, aggregate
<1>4. /\ leases' \in [Keys -> {"none", "reserved", "active", "released"}]
      /\ auths' \in [Keys -> {"none", "held", "released"}]
  BY <1>1, SameTypes, Releases
     DEF Apply, aggregate, ServerControlAssumption, Machines, Typed, Server
<1>5. server' \in Server
  <2>1. Seen(ev) \in Server
    <3>1. Seen(ev) = [server EXCEPT !.workerSeq = ev.seq] \/ Seen(ev) = server
      BY DEF Seen
    <3> QED BY <1>1, <3>1 DEF Server
  <2>2. Down(Seen(ev)) \in Server
    <3> DEFINE seen == Seen(ev)
               without == [seen EXCEPT !.lease = None]
               status == IF without.status = "stopping" THEN "stopped" ELSE without.status
    <3>0. seen \in Server
      BY <2>1
    <3> HIDE DEF seen
    <3>1. without \in Server
      BY <3>0 DEF Server
    <3>2. Down(seen) = [without EXCEPT !.deadline = "none", !.status = status]
      BY <3>0 DEF Down, Without, Server
    <3> HIDE DEF without
    <3>3. status \in Statuses
      BY <3>1 DEF Server, Statuses
    <3>4. Down(seen) \in Server
      <4> HIDE DEF status
      <4> QED BY <3>1, <3>2, <3>3 DEF Server
    <3> QED BY <3>4 DEF seen
  <2>3. CASE server' = [Seen(ev) EXCEPT !.status = "running", !.snapshot = Aged(@)]
    <3> DEFINE seen == Seen(ev)
               snapshot == Aged(seen.snapshot)
    <3>1. server' = [seen EXCEPT !.status = "running", !.snapshot = snapshot]
      BY <2>1, <2>3 DEF Server
    <3>2. seen \in Server
      BY <2>1
    <3> HIDE DEF seen
    <3>3. snapshot \in {"none", "fresh", "old"}
      BY <3>2 DEF Server, Aged
    <3> HIDE DEF snapshot
    <3> QED BY <3>1, <3>2, <3>3 DEF Server, Statuses
  <2> QED
    BY <1>1, <2>1, <2>2, <2>3 DEF Apply, aggregate
<1>6. consumed' \subseteq mail
  BY SameRest, IdleIs DEF Apply
<1>7. \A q \in Reports : reports'[q] # Idle => reports'[q].event \in mail
  BY SameRest DEF Apply
<1> QED
  BY <1>2, <1>3, <1>4, <1>5, <1>6, <1>7, SameTypes, SameRest, Current, TypedRest DEF outside

LEMMA TypedRuntimeStopped ==
    ASSUME ServerControlAssumption, Typed, NEW b \in Settlements, RuntimeStopped(b)
    PROVE  Typed'
<1>1. server \in Server
  BY SameTypes
<1>2. settlements' \in [Settlements -> [lease : Keys \cup {None}, stopped : BOOLEAN]]
  BY SameRest DEF RuntimeStopped
<1>3. CASE server.status = "billing_blocked"
  <2>1. /\ leases' = Closed(server.lease) /\ Release(server.lease)
        /\ server' = [Without(server) EXCEPT !.deadline = "none", !.status = "stopped"]
        /\ tasks' = CurrentSucceeded
        /\ halts' = halts \cup ({server.machine} \ {None})
    BY <1>3 DEF RuntimeStopped
  <2>2. /\ leases' \in [Keys -> {"none", "reserved", "active", "released"}]
        /\ auths' \in [Keys -> {"none", "held", "released"}]
    BY <1>1, <2>1, Releases DEF ServerControlAssumption, Machines, Typed, Server
  <2>3. server' \in Server
    <3> DEFINE without == [server EXCEPT !.lease = None]
    <3>1. without \in Server
      BY <1>1 DEF Server
    <3>2. server' = [without EXCEPT !.deadline = "none", !.status = "stopped"]
      BY <2>1 DEF Without
    <3> HIDE DEF without
    <3> QED BY <3>1, <3>2 DEF Server, Statuses
  <2>4. halts' \subseteq Machines
    BY <1>1, <2>1, SameRest DEF Server
  <2>5. UNCHANGED <<outside, consumed, admin, calls, execs, reports, sweeps>>
    BY DEF RuntimeStopped
  <2> QED
    BY <1>2, <2>1, <2>2, <2>3, <2>4, <2>5, SameTypes, SameRest, Current, TypedRest DEF outside
<1>4. CASE server.status # "billing_blocked"
  <2>1. UNCHANGED <<outside, consumed, admin, calls, execs, reports, sweeps, aggregate, halts>>
    BY <1>4 DEF RuntimeStopped
  <2> QED
    BY <1>2, <2>1, SameTypes, SameRest, TypedRest DEF outside, aggregate
<1> QED
  BY <1>3, <1>4

LEMMA TypedRequireStop ==
    ASSUME ServerControlAssumption, Typed, NEW b \in Settlements, RequireStop(b)
    PROVE  Typed'
<1>1. server \in Server /\ b \in TaskIds /\ b \notin Keys
  BY SameTypes DEF TaskIds, ServerControlAssumption
<1>2. settlements' \in [Settlements -> [lease : Keys \cup {None}, stopped : BOOLEAN]]
  BY SameRest DEF RequireStop
<1>3. UNCHANGED <<leases, auths, vultr, creates, mail, consumed, admin, running>>
  BY DEF RequireStop
<1>4. CASE server.status = "running"
  <2>1. /\ tasks' = [tasks EXCEPT ![b] = Task("forced_stop", "running")]
        /\ server' = [server EXCEPT !.status = "billing_blocked", !.task = b,
                                    !.deadline = "set"]
        /\ AskToStop
    BY <1>4 DEF RequireStop
  <2>2. server' \in Server
    BY <1>1, <2>1 DEF Server, Statuses
  <2>3. /\ tasks' \in [TaskIds -> {NoTask} \cup TaskRecord]
        /\ \A u \in TaskIds : tasks[u] # NoTask => tasks'[u] # NoTask
        /\ \A u \in TaskIds :
             tasks'[u] # NoTask => (tasks'[u].op # "forced_stop" <=> u \in Keys)
    <3>1. "forced_stop" \in Ops \cup {"forced_stop"}
      OBVIOUS
    <3> QED BY <1>1, <2>1, <3>1, TaskAdded
  <2>4. worker' \in [seq : 0 .. MaxSeq, asked : BOOLEAN]
    BY <2>1, SameRest DEF AskToStop
  <2> QED
    BY <1>2, <1>3, <2>2, <2>3, <2>4, SameTypes, SameRest, TypedRest DEF running
<1>5. CASE server.status # "running"
  <2>1. UNCHANGED <<tasks, server, worker>>
    BY <1>5 DEF RequireStop
  <2> QED
    BY <1>2, <1>3, <2>1, SameTypes, SameRest, TypedRest DEF running
<1> QED
  BY <1>4, <1>5

LEMMA TypedAdmin ==
    ASSUME ServerControlAssumption, Typed, NEW a \in Admins,
           Administer(a) \/ Complete(a) \/ AdminDies(a)
    PROVE  Typed'
<1>1. server \in Server /\ a \in TaskIds /\ a \notin Keys
  BY SameTypes DEF TaskIds, ServerControlAssumption
<1>2. admin' \in [Admins -> [consumed : BOOLEAN,
                             result : {"none", "applied", "ignored", "out_of_order", "duplicate"},
                             done : {"none", "succeeded", "rejected"}]]
  <2>1. admin[a] \in [consumed : BOOLEAN,
                      result : {"none", "applied", "ignored", "out_of_order", "duplicate"},
                      done : {"none", "succeeded", "rejected"}]
    BY SameRest
  <2>2. CASE Complete(a) \/ AdminDies(a)
    <3> DEFINE done == IF admin[a].result = "ignored" THEN "rejected" ELSE "succeeded"
               now == [admin[a] EXCEPT !.result = "none", !.done = done]
               dead == [admin[a] EXCEPT !.result = "none"]
    <3>1. now \in [consumed : BOOLEAN,
                   result : {"none", "applied", "ignored", "out_of_order", "duplicate"},
                   done : {"none", "succeeded", "rejected"}]
      BY <2>1
    <3>2. dead \in [consumed : BOOLEAN,
                   result : {"none", "applied", "ignored", "out_of_order", "duplicate"},
                   done : {"none", "succeeded", "rejected"}]
      BY <2>1
    <3>3. admin' = [admin EXCEPT ![a] = now] \/ admin' = [admin EXCEPT ![a] = dead]
      BY <2>2, SameRest DEF Complete, AdminDies
    <3> HIDE DEF now, dead
    <3> QED BY <3>1, <3>2, <3>3, SameRest
  <2>3. CASE Administer(a)
    <3>1. AdminResult(a) \in {"applied", "ignored", "out_of_order", "duplicate"}
      BY DEF AdminResult
    <3>2. admin' = [admin EXCEPT ![a].consumed = TRUE, ![a].result = AdminResult(a)]
      BY <2>3 DEF Administer
    <3> DEFINE now == [admin[a] EXCEPT !.consumed = TRUE, !.result = AdminResult(a)]
    <3>3. now \in [consumed : BOOLEAN,
                   result : {"none", "applied", "ignored", "out_of_order", "duplicate"},
                   done : {"none", "succeeded", "rejected"}]
      BY <2>1, <3>1
    <3>4. admin' = [admin EXCEPT ![a] = now]
      BY <3>2, SameRest
    <3> HIDE DEF now
    <3> QED BY <3>3, <3>4, SameRest
  <2> QED BY <2>2, <2>3
<1>3. CASE Complete(a) \/ AdminDies(a)
  BY <1>2, <1>3, SameTypes, SameRest, TypedRest
     DEF Complete, AdminDies, aggregate, outside, running
<1>4. CASE Administer(a)
  <2> DEFINE result == AdminResult(a)
             seen == IF result \in {"applied", "ignored"}
                     THEN [server EXCEPT !.adminSeq = a] ELSE server
  <2>1. seen \in Server
    <3>1. [server EXCEPT !.adminSeq = a] \in Server
      BY <1>1 DEF Server
    <3> QED BY <1>1, <3>1
  <2>2. \/ /\ tasks' = [tasks EXCEPT ![a] = Task("forced_stop", "running")]
           /\ server' = [seen EXCEPT !.status = "suspended", !.task = a, !.deadline = "set"]
           /\ AskToStop
        \/ /\ server' = [seen EXCEPT !.status = "stopped", !.task = None]
           /\ UNCHANGED <<tasks, worker>>
        \/ server' = seen /\ UNCHANGED <<tasks, worker>>
    BY <1>4 DEF Administer
  <2> HIDE DEF seen
  <2>3. server' \in Server
    <3>1. CASE server' = [seen EXCEPT !.status = "suspended", !.task = a, !.deadline = "set"]
      BY <1>1, <2>1, <3>1 DEF Server, Statuses
    <3>2. CASE server' = [seen EXCEPT !.status = "stopped", !.task = None]
      BY <1>1, <2>1, <3>2 DEF Server, Statuses
    <3> QED BY <2>1, <2>2, <3>1, <3>2
  <2>4. worker' \in [seq : 0 .. MaxSeq, asked : BOOLEAN]
    BY <2>2, SameRest DEF AskToStop
  <2>5. /\ tasks' \in [TaskIds -> {NoTask} \cup TaskRecord]
        /\ \A u \in TaskIds : tasks[u] # NoTask => tasks'[u] # NoTask
        /\ \A u \in TaskIds :
             tasks'[u] # NoTask => (tasks'[u].op # "forced_stop" <=> u \in Keys)
    <3>1. "forced_stop" \in Ops \cup {"forced_stop"}
      OBVIOUS
    <3> QED BY <1>1, <2>2, <3>1, TaskAdded, SameTypes
  <2>6. UNCHANGED <<leases, auths, vultr, creates, mail, consumed, settlements, running>>
    BY <1>4 DEF Administer
  <2> QED
    BY <1>2, <2>3, <2>4, <2>5, <2>6, SameTypes, SameRest, TypedRest DEF running
<1> QED
  BY <1>3, <1>4

LEMMA TypedHaltAfter ==
    ASSUME Typed, NEW m \in Machines, HaltAfter(m) \/ DeadlinePasses
    PROVE  Typed'
<1>1. CASE HaltAfter(m)
  <2>1. vultr' \in [Machines -> {"none", "on", "off"}]
    BY <1>1, SameTypes DEF HaltAfter
  <2>2. halts' \subseteq Machines
    BY <1>1, SameRest DEF HaltAfter
  <2> QED
    BY <1>1, <2>1, <2>2, SameTypes, SameRest, TypedRest DEF HaltAfter, aggregate, events
<1>2. CASE DeadlinePasses
  <2>1. server' \in Server
    BY <1>2, SameTypes DEF DeadlinePasses, Server
  <2> QED
    BY <1>2, <2>1, SameTypes, SameRest, TypedRest DEF DeadlinePasses, outside, events, running
<1> QED
  BY <1>1, <1>2

LEMMA TypedSweep ==
    ASSUME ServerControlAssumption, Typed, NEW s \in Sweeps,
           (\E t \in TaskIds : Sweep(s, t)) \/ SweepHalts(s) \/ SweepEnds(s)
    PROVE  Typed'
<1>1. server \in Server
  BY SameTypes
<1>2. ASSUME NEW t \in TaskIds, Sweep(s, t)
      PROVE  Typed'
  <2> DEFINE w == [pc |-> "halt", task |-> t, machine |-> server.machine]
  <2>1. w \in Sweeping /\ w.task = t /\ tasks[t] # NoTask
    BY <1>1, <1>2 DEF Sweep, Stops, Sweeping, Server
  <2>2. sweeps' = [sweeps EXCEPT ![s] = w]
    BY <1>2 DEF Sweep
  <2> HIDE DEF w
  <2>3. /\ sweeps' \in [Sweeps -> {Idle} \cup Sweeping]
        /\ \A z \in Sweeps : sweeps'[z] # Idle => tasks[sweeps'[z].task] # NoTask
    BY <2>1, <2>2, SameRest
  <2> QED
    BY <1>2, <2>3, SameTypes, SameRest, TypedRest DEF Sweep, aggregate, outside, events
<1>3. CASE SweepHalts(s)
  <2>1. sweeps[s] \in Sweeping /\ sweeps[s].machine \in Machines \cup {None} /\ sweeps[s] # Idle
    BY <1>3, SameRest, IdleIs DEF SweepHalts, Sweeping
  <2>2. vultr' \in [Machines -> {"none", "on", "off"}]
    BY <1>3, <2>1, SameTypes DEF SweepHalts
  <2> DEFINE w == [sweeps[s] EXCEPT !.pc = "end"]
  <2>3. w \in Sweeping /\ w.task = sweeps[s].task
    BY <2>1 DEF Sweeping
  <2>4. sweeps' = [sweeps EXCEPT ![s] = w] \/ sweeps' = [sweeps EXCEPT ![s] = Idle]
    BY <1>3 DEF SweepHalts
  <2> HIDE DEF w
  <2>5. /\ sweeps' \in [Sweeps -> {Idle} \cup Sweeping]
        /\ \A z \in Sweeps : sweeps'[z] # Idle => tasks[sweeps'[z].task] # NoTask
    BY <2>1, <2>3, <2>4, SameRest
  <2> QED
    BY <1>3, <2>2, <2>5, SameTypes, SameRest, TypedRest DEF SweepHalts, aggregate, events
<1>4. CASE SweepEnds(s)
  <2>1. sweeps[s].task \in TaskIds /\ tasks[sweeps[s].task] # NoTask
    BY <1>4, SameRest, IdleIs DEF SweepEnds
  <2>2. sweeps' \in [Sweeps -> {Idle} \cup Sweeping]
    BY <1>4, SameRest DEF SweepEnds
  <2>3. UNCHANGED <<outside, events, calls, execs, reports, halts>>
    BY <1>4 DEF SweepEnds
  <2>4. CASE ~Forceable
    BY <1>4, <2>2, <2>3, <2>4, SameTypes, SameRest, TypedRest
       DEF SweepEnds, aggregate, outside, events
  <2>5. CASE Forceable
    <3>1. /\ leases' = Closed(server.lease) /\ Release(server.lease)
          /\ server' = IF server.status = "stopping"
                       THEN [Down(server) EXCEPT !.task = sweeps[s].task] ELSE Down(server)
          /\ tasks' = Ended(sweeps[s].task, "succeeded")
      BY <1>4, <2>5 DEF SweepEnds
    <3>2. /\ leases' \in [Keys -> {"none", "reserved", "active", "released"}]
          /\ auths' \in [Keys -> {"none", "held", "released"}]
      BY <1>1, <3>1, Releases DEF ServerControlAssumption, Machines, Typed, Server
    <3>3. /\ tasks' \in [TaskIds -> {NoTask} \cup TaskRecord]
          /\ \A t \in TaskIds :
              /\ tasks[t] # NoTask => tasks'[t] # NoTask
              /\ tasks'[t] # NoTask => (tasks'[t].op # "forced_stop" <=> t \in Keys)
      <4>1. /\ tasks' \in [TaskIds -> {NoTask} \cup TaskRecord]
            /\ tasks'[sweeps[s].task] = [op |-> tasks[sweeps[s].task].op, status |-> "succeeded"]
            /\ \A u \in TaskIds \ {sweeps[s].task} : tasks'[u] = tasks[u]
        BY <2>1, <3>1, TasksKept DEF Typed
      <4> QED BY <2>1, <4>1, SameTypes DEF NoTask
    <3>4. server' \in Server
      <4> DEFINE without == [server EXCEPT !.lease = None]
                 status == IF without.status = "stopping" THEN "stopped" ELSE without.status
                 down == [without EXCEPT !.deadline = "none", !.status = status]
      <4>1. without \in Server
        BY <1>1 DEF Server
      <4>2. Down(server) = down
        BY <1>1 DEF Down, Without, Server
      <4> HIDE DEF without
      <4>3. status \in Statuses
        BY <4>1 DEF Server, Statuses
      <4> HIDE DEF status
      <4>4. down \in Server
        BY <4>1, <4>3 DEF Server
      <4> HIDE DEF down
      <4>5. [down EXCEPT !.task = sweeps[s].task] \in Server
        BY <2>1, <4>4 DEF Server
      <4> QED BY <3>1, <4>2, <4>4, <4>5
    <3>5. \A z \in Sweeps : sweeps'[z] # Idle => tasks'[sweeps'[z].task] # NoTask
      BY <1>4, <3>3, SameRest DEF SweepEnds
    <3> QED
      BY <2>2, <2>3, <3>2, <3>3, <3>4, <3>5, SameTypes, SameRest, TypedRest
         DEF outside, events
  <2> QED BY <2>4, <2>5
<1> QED
  BY <1>2, <1>3, <1>4

(* Every step keeps the types.                                             *)
LEMMA NextTyped ==
    ASSUME ServerControlAssumption, Typed, [Next]_vars
    PROVE  Typed'
<1>1. CASE UNCHANGED vars
  BY <1>1 DEF vars, aggregate, outside, events, running, Typed, TypeOK, AtWork, KnownTasks
<1>2. CASE Owner
  BY <1>2, TypedAuthorize, TypedCommit, TypedOwner DEF Owner
<1>3. CASE DeadlinePasses
  <2>1. First \in Machines
    BY DEF Machines
  <2> QED BY <1>3, <2>1, TypedHaltAfter
<1>4. CASE Next /\ ~Owner /\ ~DeadlinePasses
  BY <1>4, TypedExecutor, TypedSend, TypedReceiveAsk, TypedApply, TypedRequireStop,
     TypedRuntimeStopped, TypedHaltAfter, TypedAdmin, TypedSweep
     DEF Next
<1> QED
  BY <1>1, <1>2, <1>3, <1>4

-----------------------------------------------------------------------------
(* What a step does to the tasks, and what it does to the leases.          *)

(* A task stays what it is, and is not queued again.                       *)
Progress ==
    \A t \in TaskIds : tasks[t] # NoTask =>
        /\ tasks'[t] # NoTask /\ tasks'[t].op = tasks[t].op
        /\ tasks'[t].status = "queued" => tasks[t].status = "queued"

(* A task that the step adds opens no lease.                               *)
AddsNoLease ==
    \A t \in TaskIds : tasks[t] = NoTask /\ tasks'[t] # NoTask =>
        tasks'[t].op \notin {"create", "start", "restart", "restore"}

LEMMA EndedProgress ==
    ASSUME Typed, NEW t \in TaskIds, tasks[t] # NoTask,
           NEW status \in {"running", "succeeded", "failed"},
           tasks' = Ended(t, status)
    PROVE  Progress /\ AddsNoLease
<1>1. /\ tasks'[t] = [op |-> tasks[t].op, status |-> status]
      /\ \A u \in TaskIds \ {t} : tasks'[u] = tasks[u]
  BY TasksKept DEF Typed
<1> QED
  BY <1>1 DEF Progress, AddsNoLease, NoTask

LEMMA CurrentProgress ==
    ASSUME Typed, tasks' = CurrentSucceeded \/ UNCHANGED tasks
    PROVE  Progress /\ AddsNoLease
  BY Current DEF Progress, AddsNoLease

LEMMA AddedProgress ==
    ASSUME Typed, NEW t \in TaskIds, NEW op \in Ops \cup {"forced_stop"},
           op # "forced_stop" <=> t \in Keys, NEW status \in {"queued", "running"},
           tasks' = [tasks EXCEPT ![t] = Task(op, status)],
           tasks[t] = NoTask \/ (op = "forced_stop" /\ status = "running")
    PROVE  /\ Progress
           /\ op \notin {"create", "start", "restart", "restore"} => AddsNoLease
<1>1. /\ tasks'[t] = [op |-> op, status |-> status]
      /\ \A u \in TaskIds \ {t} : tasks'[u] = tasks[u]
  BY TaskAdded
<1>2. tasks[t] # NoTask => tasks[t].op = "forced_stop" /\ op = "forced_stop"
  BY DEF Typed, KnownTasks
<1>3. tasks'[t] # NoTask
  BY <1>1 DEF NoTask
<1>4. Progress
  BY <1>1, <1>2, <1>3 DEF Progress
<1> QED
  BY <1>1, <1>4 DEF AddsNoLease

(* Where an executor is on the way through its task.                       *)
Plan(x, op) ==
    /\ x.pc = "save" => op \in {"create", "restore"} /\ x.machine = x.task
    /\ x.pc \in {"halt", "release"} => op = "create"
    /\ x.pc \in {"remove", "archived"} => op = "archive"
    /\ x.pc = "gone" => op = "delete"
    /\ x.pc \in {"read", "call", "save", "halt", "gone", "remove", "archived", "failed"} => x.inside

Plans ==
    \A e \in Executors : execs[e] # Idle =>
        Plan(execs[e], Op(e)) /\ tasks[execs[e].task].status # "queued"

(* The statuses of a server that is at rest: a request may open a lease.   *)
Rest == {"none", "stopped", "archived"}

(* An archive, or a create, that ends.                                     *)
Ending(e) ==
    /\ tasks[execs[e].task].status = "running"
    /\ \/ execs[e].pc = "archived"
       \/ execs[e].pc = "decide" /\ Op(e) = "create"

(* The leases stay, and the server does not come to rest with one.         *)
Quiet ==
    /\ UNCHANGED <<leases, calls>> /\ server'.lease = server.lease
    /\ \/ UNCHANGED auths
       \/ \E e \in Executors : /\ execs[e].pc # "idle" /\ Op(e) = "create"
                               /\ auths' = [auths EXCEPT ![execs[e].task] = "released"]
    /\ \/ server'.status = server.status \/ server'.status \notin Rest
       \/ server.lease = None \/ leases[server.lease] \notin Open
       \/ \E e \in Executors : Ending(e)

(* The lease of the server ends.                                           *)
Closing ==
    /\ leases' = Closed(server.lease) /\ Release(server.lease)
    /\ server'.lease = None /\ UNCHANGED calls

(* The lease of the server becomes active.                                 *)
Granting ==
    /\ server.lease # None /\ leases[server.lease] = "reserved"
    /\ leases' = [leases EXCEPT ![server.lease] = "active"]
    /\ server'.lease = server.lease /\ server'.status = "running"
    /\ UNCHANGED <<auths, calls>>

Moves == Progress /\ AddsNoLease /\ (Quiet \/ Closing \/ Granting)

LEMMA OwnerMoves ==
    ASSUME ServerControlAssumption, Typed, NEW k \in Keys, Stop(k) \/ Archive(k) \/ Delete(k)
    PROVE  Moves
<1>1. k \in TaskIds /\ server \in Server
  BY SameTypes DEF TaskIds
<1>2. Progress /\ AddsNoLease
  <2>1. ASSUME NEW op \in {"stop", "archive", "delete"}, NEW status \in {"queued", "running"},
               op \in Ops, tasks[k] = NoTask, tasks' = [tasks EXCEPT ![k] = Task(op, status)]
        PROVE  Progress /\ AddsNoLease
    <3>1. op \in Ops \cup {"forced_stop"} /\ (op # "forced_stop" <=> k \in Keys)
      BY <2>1
    <3>2. op \notin {"create", "start", "restart", "restore"}
      OBVIOUS
    <3> QED BY <1>1, <2>1, <3>1, <3>2, AddedProgress
  <2>2. \E op \in {"stop", "archive", "delete"}, status \in {"queued", "running"} :
           op \in Ops /\ tasks[k] = NoTask /\ tasks' = [tasks EXCEPT ![k] = Task(op, status)]
    BY DEF Stop, Archive, Delete, New, Replays
  <2> QED BY <2>1, <2>2
<1>3. CASE Stop(k) \/ Archive(k)
  <2>1. Quiet
    BY <1>1, <1>3 DEF Stop, Archive, Quiet, Rest, Server, running
  <2> QED BY <1>2, <2>1 DEF Moves
<1>4. CASE Delete(k)
  <2>1. server'.lease = None
    BY <1>1, <1>4 DEF Delete, Without, Server
  <2>2. Closing
    BY <1>4, <2>1 DEF Delete, Closing, running
  <2> QED BY <1>2, <2>2 DEF Moves
<1> QED
  BY <1>3, <1>4

LEMMA ExecutorMoves ==
    ASSUME ServerControlAssumption, Typed, Plans, NEW e \in Executors,
           Executor(e) \/ ExecutorDies(e)
    PROVE  Moves
<1> USE DEF StillHere
<1>1. server \in Server
  BY SameTypes
<1>2. CASE /\ ReadServer(e) \/ Create(e) \/ Call(e) \/ Halt(e) \/ Remove(e) \/ Look(e)
              \/ ExecutorDies(e) \/ Save(e) \/ Reconcile(e)
  <2>1. UNCHANGED <<tasks, leases, auths, calls>>
    BY <1>2 DEF ReadServer, Create, Call, Halt, Remove, Look, ExecutorDies, Save, Reconcile, aggregate
  <2>2. \E m : server' \in {server, [server EXCEPT !.machine = m]}
    BY <1>2 DEF ReadServer, Create, Call, Halt, Remove, Look, ExecutorDies, Save, Reconcile, aggregate
  <2>3. server'.lease = server.lease /\ server'.status = server.status
    BY <1>1, <2>2 DEF Server
  <2>4. Quiet
    BY <2>1, <2>3 DEF Quiet
  <2> QED BY <2>1, <2>4, CurrentProgress DEF Moves
<1>3. ASSUME NEW t \in TaskIds, Execute(e, t)
      PROVE  Moves
  <2>1. UNCHANGED <<server, leases, auths, calls>>
    BY <1>3 DEF Execute
  <2>2. Quiet
    BY <2>1 DEF Quiet
  <2>3. tasks[t] # NoTask /\ (tasks' = Ended(t, "running") \/ UNCHANGED tasks)
    BY <1>3 DEF Execute
  <2> QED BY <2>2, <2>3, EndedProgress, CurrentProgress DEF Moves
<1>4. ASSUME execs[e].pc # "idle",
             \/ \E status \in {"running", "succeeded", "failed"} : tasks' = Ended(execs[e].task, status)
             \/ UNCHANGED tasks
      PROVE  Progress /\ AddsNoLease
  <2>1. execs[e].task \in TaskIds /\ tasks[execs[e].task] # NoTask
    BY <1>4, ExecIs
  <2> QED BY <1>4, <2>1, EndedProgress, CurrentProgress
<1>5. CASE Archived(e)
  <2>1. Quiet
    <3>1. CASE tasks[execs[e].task].status = "running"
      <4>1. Ending(e)
        BY <1>5, <3>1 DEF Archived, Ending
      <4>2. UNCHANGED <<leases, auths, calls>> /\ server'.lease = server.lease
        BY <1>1, <1>5, <3>1 DEF Archived, Shelved, Server
      <4> QED BY <4>1, <4>2 DEF Quiet
    <3>2. CASE tasks[execs[e].task].status # "running"
      BY <1>5, <3>2 DEF Archived, Quiet
    <3> QED BY <3>1, <3>2
  <2> QED BY <1>4, <1>5, <2>1 DEF Archived, Moves
<1>6. CASE Gone(e)
  <2>1. server'.lease = server.lease /\ server'.status = "deleted"
    BY <1>1, <1>6 DEF Gone, Server
  <2>2. Quiet
    BY <1>6, <2>1 DEF Gone, Quiet, Rest
  <2> QED BY <1>4, <1>6, <2>2 DEF Gone, Moves
<1>7. CASE Decide(e)
  <2>1. UNCHANGED <<leases, auths, calls>> /\ server'.lease = server.lease
    BY <1>1, <1>7 DEF Decide, Server
  <2>2. server'.status = server.status \/ server'.status = "deleted" \/ Ending(e)
    BY <1>1, <1>7 DEF Decide, Confirms, Ending, Server
  <2>3. Quiet
    BY <2>1, <2>2 DEF Quiet, Rest
  <2>4. execs[e].pc # "idle" /\ (tasks' = Ended(execs[e].task, "succeeded") \/ UNCHANGED tasks)
    BY <1>7 DEF Decide
  <2> QED BY <1>4, <2>3, <2>4 DEF Moves
<1>8. CASE ReleaseCreate(e)
  <2>1. UNCHANGED <<server, tasks, leases, calls>> /\ execs[e].pc # "idle"
    BY <1>8 DEF ReleaseCreate
  <2>2. CASE UNCHANGED auths
    BY <1>4, <2>1, <2>2 DEF Quiet, Moves
  <2>3. CASE auths' = [auths EXCEPT ![execs[e].task] = "released"]
    <3>1. Op(e) = "create"
      BY <1>8, IdleIs DEF ReleaseCreate, Plans, Plan
    <3> QED BY <1>4, <2>1, <2>3, <3>1 DEF Quiet, Moves
  <2> QED BY <1>8, <2>2, <2>3 DEF ReleaseCreate
<1>9. CASE Fail(e)
  <2>1. execs[e].pc # "idle" /\ tasks' = Ended(execs[e].task, "failed") /\ UNCHANGED calls
    BY <1>9 DEF Fail
  <2>2. CASE Op(e) \in {"start", "restart", "restore"}
    <3>1. server'.lease = None
      BY <1>1, <1>9, <2>2 DEF Fail, Without, Server
    <3>2. leases' = Closed(server.lease) /\ Release(server.lease)
      BY <1>9, <2>2 DEF Fail
    <3> QED BY <1>4, <2>1, <3>1, <3>2 DEF Closing, Moves
  <2>3. CASE Op(e) = "create"
    <3>1. server'.lease = server.lease /\ server'.status = "failed"
      BY <1>1, <1>9, <2>3 DEF Fail, Server
    <3>2. UNCHANGED leases /\ Release(execs[e].task)
      BY <1>9, <2>3 DEF Fail
    <3>3. UNCHANGED auths \/ auths' = [auths EXCEPT ![execs[e].task] = "released"]
      BY <3>2 DEF Release
    <3>4. Quiet
      BY <2>1, <2>3, <3>1, <3>2, <3>3 DEF Quiet, Rest
    <3> QED BY <1>4, <2>1, <3>4 DEF Moves
  <2>4. CASE Op(e) \notin {"start", "restart", "restore", "create"}
    <3>1. UNCHANGED <<server, leases, auths>>
      BY <1>9, <2>4 DEF Fail, Release
    <3>2. Quiet
      BY <2>1, <3>1 DEF Quiet
    <3> QED BY <1>4, <2>1, <3>2 DEF Moves
  <2> QED BY <2>2, <2>3, <2>4
<1> QED
  BY <1>2, <1>3, <1>5, <1>6, <1>7, <1>8, <1>9 DEF Executor

LEMMA RestMoves ==
    ASSUME ServerControlAssumption, Typed,
           \/ \E type \in {"healthy", "stopped"} : Send(type)
           \/ \E r \in Reports : (\E ev \in mail : Receive(r, ev)) \/ Ask(r)
           \/ \E m \in Machines : HaltAfter(m)
           \/ \E a \in Admins : Complete(a) \/ AdminDies(a)
           \/ DeadlinePasses
           \/ \E s \in Sweeps : (\E t \in TaskIds : Sweep(s, t)) \/ SweepHalts(s)
           \/ UNCHANGED vars
    PROVE  Moves /\ UNCHANGED execs
<1>1. UNCHANGED <<tasks, leases, auths, calls, execs>>
  BY DEF Send, Receive, Ask, HaltAfter, Complete, AdminDies, DeadlinePasses, Sweep, SweepHalts,
         aggregate, outside, events, running, vars
<1>2. server' = server \/ server' = [server EXCEPT !.deadline = "passed"]
  BY DEF Send, Receive, Ask, HaltAfter, Complete, AdminDies, DeadlinePasses, Sweep, SweepHalts,
         aggregate, outside, events, running, vars
<1>3. server'.lease = server.lease /\ server'.status = server.status
  BY <1>2, SameTypes DEF Server
<1> QED
  BY <1>1, <1>3, CurrentProgress DEF Quiet, Moves

LEMMA ApplyMoves ==
    ASSUME ServerControlAssumption, Typed, NEW r \in Reports, Apply(r)
    PROVE  Moves /\ UNCHANGED execs
<1> DEFINE ev == reports[r].event
           seen == Seen(ev)
<1>1. tasks' = CurrentSucceeded \/ UNCHANGED tasks
  BY DEF Apply, aggregate
<1>2. reports[r] \in Reporting /\ server \in Server /\ ev.seq \in 0 .. MaxSeq
  BY SameTypes, SameRest, IdleIs DEF Apply, Reporting, ServerControlAssumption
<1>3. seen \in Server /\ seen.lease = server.lease /\ seen.status = server.status
  <2>1. seen = [server EXCEPT !.workerSeq = ev.seq] \/ seen = server
    BY DEF Seen
  <2> QED BY <1>2, <2>1 DEF Server
<1>4. UNCHANGED <<calls, execs>>
  BY DEF Apply
<1> HIDE DEF seen
<1>5. CASE /\ ReservedLease /\ leases' = [leases EXCEPT ![server.lease] = "active"]
           /\ server' = [seen EXCEPT !.status = "running", !.snapshot = Aged(@)]
           /\ UNCHANGED auths
  <2>1. server'.lease = server.lease /\ server'.status = "running"
    BY <1>3, <1>5 DEF Server
  <2>2. Granting
    BY <1>4, <1>5, <2>1 DEF Granting, ReservedLease
  <2> QED BY <1>1, <1>4, <2>2, CurrentProgress DEF Moves
<1>6. CASE leases' = Closed(server.lease) /\ Release(server.lease) /\ server' = Down(seen)
  <2>1. server'.lease = None
    BY <1>3, <1>6 DEF Down, Without, Server
  <2> QED BY <1>1, <1>4, <1>6, <2>1, CurrentProgress DEF Closing, Moves
<1>7. CASE (server' = seen \/ server' = server) /\ UNCHANGED <<leases, auths>>
  BY <1>1, <1>3, <1>4, <1>7, CurrentProgress DEF Quiet, Moves
<1>8. \/ /\ ReservedLease /\ leases' = [leases EXCEPT ![server.lease] = "active"]
         /\ server' = [seen EXCEPT !.status = "running", !.snapshot = Aged(@)]
         /\ UNCHANGED auths
      \/ leases' = Closed(server.lease) /\ Release(server.lease) /\ server' = Down(seen)
      \/ (server' = seen \/ server' = server) /\ UNCHANGED <<leases, auths>>
  BY DEF Apply, aggregate, seen
<1> QED
  BY <1>5, <1>6, <1>7, <1>8

LEMMA StopMoves ==
    ASSUME ServerControlAssumption, Typed,
           \/ \E b \in Settlements : RequireStop(b) \/ RuntimeStopped(b)
           \/ \E a \in Admins : Administer(a)
           \/ \E s \in Sweeps : SweepEnds(s)
    PROVE  Moves /\ UNCHANGED execs
<1>1. server \in Server
  BY SameTypes
<1>2. ASSUME NEW t \in TaskIds \ Keys, tasks' = [tasks EXCEPT ![t] = Task("forced_stop", "running")]
      PROVE  Progress /\ AddsNoLease
  <2>1. "forced_stop" \in Ops \cup {"forced_stop"}
    OBVIOUS
  <2> QED BY <1>2, <2>1, AddedProgress
<1>3. ASSUME NEW b \in Settlements, RequireStop(b)
      PROVE  Moves /\ UNCHANGED execs
  <2>1. Progress /\ AddsNoLease
    <3>1. b \in TaskIds \ Keys
      BY DEF TaskIds, ServerControlAssumption
    <3>2. tasks' = [tasks EXCEPT ![b] = Task("forced_stop", "running")] \/ UNCHANGED tasks
      BY <1>3 DEF RequireStop
    <3> QED BY <1>2, <3>1, <3>2, CurrentProgress
  <2>2. server' = server \/ server' = [server EXCEPT !.status = "billing_blocked", !.task = b,
                                                     !.deadline = "set"]
    BY <1>3 DEF RequireStop
  <2>3. server'.lease = server.lease /\ server'.status \in {server.status, "billing_blocked"}
    BY <1>1, <2>2 DEF Server
  <2> QED BY <1>3, <2>1, <2>3 DEF RequireStop, running, Quiet, Rest, Moves
<1>4. ASSUME NEW b \in Settlements, RuntimeStopped(b)
      PROVE  Moves /\ UNCHANGED execs
  <2>1. UNCHANGED <<calls, execs>>
    BY <1>4 DEF RuntimeStopped
  <2>2. CASE server.status = "billing_blocked"
    <3>1. server'.lease = None
      BY <1>1, <1>4, <2>2 DEF RuntimeStopped, Without, Server
    <3>2. tasks' = CurrentSucceeded /\ leases' = Closed(server.lease) /\ Release(server.lease)
      BY <1>4, <2>2 DEF RuntimeStopped
    <3> QED BY <2>1, <3>1, <3>2, CurrentProgress DEF Closing, Moves
  <2>3. CASE server.status # "billing_blocked"
    <3>1. UNCHANGED aggregate
      BY <1>4, <2>3 DEF RuntimeStopped
    <3> QED BY <2>1, <3>1, CurrentProgress DEF aggregate, Quiet, Moves
  <2> QED BY <2>2, <2>3
<1>5. ASSUME NEW a \in Admins, Administer(a)
      PROVE  Moves /\ UNCHANGED execs
  <2> DEFINE result == AdminResult(a)
             seen == IF result \in {"applied", "ignored"}
                     THEN [server EXCEPT !.adminSeq = a] ELSE server
  <2>1. seen \in Server /\ seen.lease = server.lease /\ seen.status = server.status
    <3>1. a \in {0} \cup Admins
      OBVIOUS
    <3>2. seen = [server EXCEPT !.adminSeq = a] \/ seen = server
      OBVIOUS
    <3> HIDE DEF seen
    <3> QED BY <1>1, <3>1, <3>2 DEF Server
  <2>2. UNCHANGED <<leases, auths, calls, execs>>
    BY <1>5 DEF Administer, running
  <2>3. \/ /\ tasks' = [tasks EXCEPT ![a] = Task("forced_stop", "running")]
           /\ server' = [seen EXCEPT !.status = "suspended", !.task = a, !.deadline = "set"]
        \/ /\ Restorable
           /\ server' = [seen EXCEPT !.status = "stopped", !.task = None]
           /\ UNCHANGED tasks
        \/ server' = seen /\ UNCHANGED tasks
    <3>1. result = "applied" => \/ AdminAction[a] = "suspend" /\ Suspendable
                                \/ AdminAction[a] = "restore" /\ Restorable
      BY DEF AdminResult
    <3> HIDE DEF result
    <3>2. result = AdminResult(a)
      BY DEF result
    <3>3. \/ /\ tasks' = [tasks EXCEPT ![a] = Task("forced_stop", "running")]
             /\ server' = [seen EXCEPT !.status = "suspended", !.task = a, !.deadline = "set"]
          \/ /\ result = "applied" /\ AdminAction[a] = "restore"
             /\ server' = [seen EXCEPT !.status = "stopped", !.task = None]
             /\ UNCHANGED tasks
          \/ server' = seen /\ UNCHANGED tasks
      BY <1>5, <3>2 DEF Administer
    <3> QED BY <3>1, <3>3
  <2>4. Progress /\ AddsNoLease
    <3>1. a \in TaskIds \ Keys
      BY DEF TaskIds, ServerControlAssumption
    <3>2. tasks' = [tasks EXCEPT ![a] = Task("forced_stop", "running")] \/ UNCHANGED tasks
      BY <2>3
    <3> QED BY <1>2, <3>1, <3>2, CurrentProgress
  <2> HIDE DEF seen
  <2>5. Quiet
    <3>1. server'.lease = server.lease
      BY <2>1, <2>3 DEF Server
    <3>2. CASE /\ Restorable
               /\ server' = [seen EXCEPT !.status = "stopped", !.task = None]
      BY <2>2, <3>1, <3>2 DEF Restorable, Quiet
    <3>3. CASE server' = [seen EXCEPT !.status = "suspended", !.task = a, !.deadline = "set"]
      BY <2>1, <2>2, <3>1, <3>3 DEF Server, Quiet, Rest
    <3>4. CASE server' = seen
      BY <2>1, <2>2, <3>4 DEF Quiet
    <3> QED BY <2>3, <3>2, <3>3, <3>4
  <2> QED BY <2>2, <2>4, <2>5 DEF Moves
<1>6. ASSUME NEW s \in Sweeps, SweepEnds(s)
      PROVE  Moves /\ UNCHANGED execs
  <2>1. UNCHANGED <<calls, execs>>
    BY <1>6 DEF SweepEnds
  <2>2. CASE Forceable
    <3>1. sweeps[s].task \in TaskIds /\ tasks[sweeps[s].task] # NoTask
      BY <1>6, SameRest, IdleIs DEF SweepEnds
    <3>2. /\ leases' = Closed(server.lease) /\ Release(server.lease)
          /\ tasks' = Ended(sweeps[s].task, "succeeded")
      BY <1>6, <2>2 DEF SweepEnds
    <3>3. server'.lease = None
      BY <1>1, <1>6, <2>2 DEF SweepEnds, Down, Without, Server
    <3> QED BY <2>1, <3>1, <3>2, <3>3, EndedProgress DEF Closing, Moves
  <2>3. CASE ~Forceable
    <3>1. UNCHANGED aggregate
      BY <1>6, <2>3 DEF SweepEnds
    <3> QED BY <2>1, <3>1, CurrentProgress DEF aggregate, Quiet, Moves
  <2> QED BY <2>2, <2>3
<1> QED
  BY <1>3, <1>4, <1>5, <1>6

LEMMA CommitProgress ==
    ASSUME ServerControlAssumption, Typed, NEW c \in Calls, Commit(c)
    PROVE  Progress /\ UNCHANGED execs
<1> DEFINE k == calls[c].key
           op == calls[c].op
<1>1. k \in TaskIds /\ k \in Keys /\ op \in Ops \cup {"forced_stop"} /\ op # "forced_stop"
  BY DEF Commit, Typed, AtWork, Asking, TaskIds
<1>2. \/ UNCHANGED tasks
      \/ tasks[k] = NoTask /\ tasks' = [tasks EXCEPT ![k] = Task(op, "queued")]
  BY DEF Commit, Replays, aggregate
<1> HIDE DEF k, op
<1> QED
  BY <1>1, <1>2, AddedProgress, CurrentProgress DEF Commit

(* Each step is one of these.                                              *)
LEMMA Steps ==
    ASSUME ServerControlAssumption, Typed, Plans, [Next]_vars
    PROVE  /\ Progress
           /\ \/ Moves
              \/ \E c \in Calls, k \in Keys, op \in Ops : Authorize(c, k, op)
              \/ \E c \in Calls : Commit(c)
           /\ UNCHANGED execs \/ \E e \in Executors : Executor(e) \/ ExecutorDies(e)
<1>1. ASSUME NEW c \in Calls, NEW k \in Keys, NEW op \in Ops, Authorize(c, k, op)
      PROVE  Progress /\ UNCHANGED execs
  BY <1>1, CurrentProgress DEF Authorize
<1>2. ASSUME NEW k \in Keys, Stop(k) \/ Archive(k) \/ Delete(k)
      PROVE  Moves /\ UNCHANGED execs
  BY <1>2, OwnerMoves DEF Stop, Archive, Delete, running
<1>3. CASE Owner
  BY <1>1, <1>2, <1>3, CommitProgress DEF Owner, Moves
<1>4. ASSUME NEW e \in Executors, Executor(e) \/ ExecutorDies(e)
      PROVE  Moves
  BY <1>4, ExecutorMoves
<1>5. CASE \E e \in Executors : Executor(e) \/ ExecutorDies(e)
  BY <1>4, <1>5 DEF Moves
<1>6. CASE \/ \E type \in {"healthy", "stopped"} : Send(type)
           \/ \E r \in Reports : (\E ev \in mail : Receive(r, ev)) \/ Ask(r)
           \/ \E m \in Machines : HaltAfter(m)
           \/ \E a \in Admins : Complete(a) \/ AdminDies(a)
           \/ DeadlinePasses
           \/ \E s \in Sweeps : (\E t \in TaskIds : Sweep(s, t)) \/ SweepHalts(s)
           \/ UNCHANGED vars
  BY <1>6, RestMoves DEF Moves
<1>7. CASE \/ \E b \in Settlements : RequireStop(b) \/ RuntimeStopped(b)
           \/ \E a \in Admins : Administer(a)
           \/ \E s \in Sweeps : SweepEnds(s)
  BY <1>7, StopMoves DEF Moves
<1>8. CASE \E r \in Reports : Apply(r)
  BY <1>8, ApplyMoves DEF Moves
<1>9. \/ Owner
      \/ \E e \in Executors : Executor(e) \/ ExecutorDies(e)
      \/ \/ \E type \in {"healthy", "stopped"} : Send(type)
         \/ \E r \in Reports : (\E ev \in mail : Receive(r, ev)) \/ Ask(r)
         \/ \E m \in Machines : HaltAfter(m)
         \/ \E a \in Admins : Complete(a) \/ AdminDies(a)
         \/ DeadlinePasses
         \/ \E s \in Sweeps : (\E t \in TaskIds : Sweep(s, t)) \/ SweepHalts(s)
         \/ UNCHANGED vars
      \/ \/ \E b \in Settlements : RequireStop(b) \/ RuntimeStopped(b)
         \/ \E a \in Admins : Administer(a)
         \/ \E s \in Sweeps : SweepEnds(s)
      \/ \E r \in Reports : Apply(r)
  BY DEF Next
<1> QED
  BY <1>3, <1>5, <1>6, <1>7, <1>8, <1>9

-----------------------------------------------------------------------------
(* The way of an executor, and how often it asks for a machine.            *)

(* Before it asks for a machine, an executor is alone with its task, and   *)
(* nobody has asked.                                                       *)
Before == {"read", "call"}

Once ==
    /\ CreatedOnce
    /\ \A k \in Keys : tasks[k] = NoTask \/ tasks[k].status = "queued" => creates[k] = 0
    /\ \A e \in Executors : execs[e].pc \in Before =>
          /\ execs[e].task \in Keys => creates[execs[e].task] = 0
          /\ \A f \in Executors \ {e} :
                execs[f].pc \in Before => execs[f].task # execs[e].task

(* The next step of executor e: it has ended, goes on, or takes a task.    *)
GoesOn(e, r) ==
    \/ r = Idle
    \/ /\ execs[e] # Idle /\ r.task = execs[e].task /\ r.inside = execs[e].inside
       /\ r.pc # "idle" /\ r.pc # "read" /\ (r.pc = "call" => execs[e].pc = "read")
       /\ Plan(r, Op(e))
    \/ /\ execs[e] = Idle /\ r.pc # "idle"
       /\ r.task \in TaskIds /\ tasks[r.task] # NoTask
       /\ tasks'[r.task].status # "queued"
       /\ r.pc \in Before => tasks[r.task].status = "queued"
       /\ r.inside <=> r.pc = "read"
       /\ r.pc \in {"read", "reconcile"}

LEMMA ExecutorGoesOn ==
    ASSUME Typed, Plans, NEW e \in Executors, Executor(e) \/ ExecutorDies(e)
    PROVE  \E r : execs' = [execs EXCEPT ![e] = r] /\ GoesOn(e, r)
<1>1. ASSUME Ends(e)
      PROVE  \E r : execs' = [execs EXCEPT ![e] = r] /\ GoesOn(e, r)
  BY <1>1 DEF Ends, GoesOn
<1>2. ASSUME execs[e].pc # "idle", NEW pc, Goto(e, pc), pc # "idle", pc # "read", pc # "call",
             pc = "failed" => execs[e].inside,
             pc # "save", pc \in {"halt", "release"} => Op(e) = "create",
             pc \in {"remove", "archived"} => Op(e) = "archive" /\ execs[e].inside,
             pc = "halt" => execs[e].inside,
             pc = "gone" => Op(e) = "delete" /\ execs[e].inside
      PROVE  \E r : execs' = [execs EXCEPT ![e] = r] /\ GoesOn(e, r)
  <2> DEFINE r == [execs[e] EXCEPT !.pc = pc]
  <2>1. execs[e] \in Executing /\ execs[e] # Idle
    BY <1>2, ExecIs, IdleIs
  <2>2. r.pc = pc /\ r.task = execs[e].task /\ r.inside = execs[e].inside
    BY <2>1 DEF Executing
  <2>3. execs' = [execs EXCEPT ![e] = r]
    BY <1>2 DEF Goto
  <2> HIDE DEF r
  <2>4. Plan(r, Op(e))
    BY <1>2, <2>2 DEF Plan
  <2> QED BY <1>2, <2>1, <2>2, <2>3, <2>4 DEF GoesOn
<1>3. execs[e].pc # "idle" => execs[e] # Idle /\ Plan(execs[e], Op(e)) /\ execs[e] \in Executing
  BY IdleIs, ExecIs DEF Plans
<1>4. ASSUME NEW possible, NEW power, NEW next, Provider(e, possible, power, next)
      PROVE  \/ Ends(e) \/ Goto(e, next) \/ (execs[e].inside /\ Goto(e, "failed"))
  BY <1>4 DEF Provider
<1>5. CASE Call(e)
  <2>1. execs[e].pc = "call" /\ execs[e].inside
    BY <1>3, <1>5 DEF Call, Plan
  <2>2. \/ Ends(e) \/ Goto(e, "reconcile") \/ (Op(e) = "archive" /\ Goto(e, "remove"))
        \/ Goto(e, "failed")
    BY <1>4, <1>5 DEF Call
  <2> QED BY <1>1, <1>2, <2>1, <2>2
<1>6. CASE Halt(e)
  <2>1. execs[e].pc = "halt"
    BY <1>6 DEF Halt
  <2>2. \/ Ends(e) \/ Goto(e, "reconcile") \/ (execs[e].inside /\ Goto(e, "failed"))
    BY <1>4, <1>6 DEF Halt
  <2> QED BY <1>1, <1>2, <2>1, <2>2
<1>7. CASE Remove(e)
  <2>1. execs[e].pc = "remove" /\ execs[e].inside /\ Op(e) = "archive"
    BY <1>3, <1>7 DEF Remove, Plan
  <2>2. \/ Ends(e) \/ Goto(e, "archived") \/ (execs[e].inside /\ Goto(e, "failed"))
    BY <1>4, <1>7 DEF Remove
  <2> QED BY <1>1, <1>2, <2>1, <2>2
<1>8. CASE Archived(e) \/ Gone(e) \/ Fail(e) \/ ExecutorDies(e)
  BY <1>1, <1>8 DEF Archived, Gone, Fail, ExecutorDies
<1>9. CASE Decide(e)
  <2>1. execs[e].pc = "decide" /\ (Ends(e) \/ (Op(e) = "create" /\ Goto(e, "release")))
    BY <1>9 DEF Decide
  <2> QED BY <1>1, <1>2, <2>1
<1>10. CASE ReleaseCreate(e)
  <2>1. execs[e].pc = "release" /\ (Ends(e) \/ (execs[e].inside /\ Goto(e, "failed")))
    BY <1>10 DEF ReleaseCreate
  <2> QED BY <1>1, <1>2, <2>1
<1>11. CASE Save(e)
  <2>1. execs[e].pc = "save" /\ execs[e].inside
    BY <1>3, <1>11 DEF Save, Plan
  <2>2. (Op(e) = "create" /\ Goto(e, "halt")) \/ Ends(e)
    BY <1>11 DEF Save
  <2> QED BY <1>1, <1>2, <2>1, <2>2
<1>12. CASE ReadServer(e)
  <2> DEFINE pc == CASE Op(e) \in {"create", "restore"} -> "call"
                     [] Op(e) = "delete" /\ server.machine = None -> "gone"
                     [] Op(e) \notin {"create", "restore", "delete"} /\ server.machine = None -> "failed"
                     [] OTHER -> "call"
             r == [execs[e] EXCEPT !.machine = server.machine, !.pc = pc]
  <2>1. execs[e].pc = "read" /\ execs[e].inside /\ execs[e] \in Executing
    BY <1>3, <1>12 DEF ReadServer, Plan
  <2>2. execs' = [execs EXCEPT ![e] = r]
    <3>1. execs' = [execs EXCEPT ![e].machine = server.machine, ![e].pc = pc]
      BY <1>12 DEF ReadServer
    <3> HIDE DEF pc
    <3> QED BY <3>1 DEF Typed, AtWork
  <2>3. pc = "call" \/ (pc = "gone" /\ Op(e) = "delete") \/ pc = "failed"
    OBVIOUS
  <2> HIDE DEF pc
  <2>4. r.pc = pc /\ r.task = execs[e].task /\ r.inside = execs[e].inside
    BY <2>1 DEF Executing
  <2> HIDE DEF r
  <2> QED BY <1>3, <2>1, <2>2, <2>3, <2>4 DEF GoesOn, Plan
<1>13. CASE Create(e)
  <2> DEFINE r == [execs[e] EXCEPT !.pc = "save", !.machine = execs[e].task]
  <2>1. execs[e].pc = "call" /\ execs[e].inside /\ execs[e] \in Executing
        /\ Op(e) \in {"create", "restore"}
    BY <1>3, <1>13 DEF Create, Plan
  <2>2. execs' = [execs EXCEPT ![e] = r] \/ Ends(e) \/ Goto(e, "failed")
    BY <1>13 DEF Create, Typed, AtWork
  <2>3. r.pc = "save" /\ r.task = execs[e].task /\ r.inside = execs[e].inside
        /\ r.machine = r.task
    BY <2>1 DEF Executing
  <2> HIDE DEF r
  <2>4. GoesOn(e, r)
    BY <1>3, <2>1, <2>3 DEF GoesOn, Plan
  <2> QED BY <1>1, <1>2, <2>1, <2>2, <2>4
<1>14. CASE Reconcile(e)
  <2>1. execs[e].pc = "reconcile" /\ execs[e] \in Executing
    BY <1>3, <1>14 DEF Reconcile
  <2>2. CASE Ends(e)
    BY <1>1, <2>2
  <2>3. CASE ~Ends(e)
    <3>1. PICK m : execs' = [execs EXCEPT ![e].pc = "look", ![e].machine = m]
      BY <1>14, <2>3 DEF Reconcile
    <3> DEFINE r == [execs[e] EXCEPT !.pc = "look", !.machine = m]
    <3>2. execs' = [execs EXCEPT ![e] = r]
      BY <3>1 DEF Typed, AtWork
    <3>3. r.pc = "look" /\ r.task = execs[e].task /\ r.inside = execs[e].inside
      BY <2>1 DEF Executing
    <3> HIDE DEF r
    <3> QED BY <1>3, <2>1, <3>2, <3>3 DEF GoesOn, Plan
  <2> QED BY <2>2, <2>3
<1>15. CASE Look(e)
  <2>1. execs[e].pc = "look" /\ execs[e] \in Executing
    BY <1>3, <1>15 DEF Look
  <2>2. CASE Ends(e) \/ (execs[e].inside /\ Goto(e, "failed"))
    BY <1>1, <1>2, <2>1, <2>2
  <2>3. CASE ~(Ends(e) \/ (execs[e].inside /\ Goto(e, "failed")))
    <3>1. PICK power : execs' = [execs EXCEPT ![e].pc = "decide", ![e].seen = power]
      BY <1>15, <2>3 DEF Look
    <3> DEFINE r == [execs[e] EXCEPT !.pc = "decide", !.seen = power]
    <3>2. execs' = [execs EXCEPT ![e] = r]
      BY <3>1 DEF Typed, AtWork
    <3>3. r.pc = "decide" /\ r.task = execs[e].task /\ r.inside = execs[e].inside
      BY <2>1 DEF Executing
    <3> HIDE DEF r
    <3> QED BY <1>3, <2>1, <3>2, <3>3 DEF GoesOn, Plan
  <2> QED BY <2>2, <2>3
<1>16. ASSUME NEW t \in TaskIds, Execute(e, t)
       PROVE  \E r : execs' = [execs EXCEPT ![e] = r] /\ GoesOn(e, r)
  <2> DEFINE r(pc, inside) == [pc |-> pc, task |-> t, machine |-> None, inside |-> inside,
                               seen |-> "none"]
  <2>1. execs[e] = Idle /\ tasks[t] # NoTask
    BY <1>16 DEF Execute
  <2>2. CASE /\ Queued(t) /\ tasks' = Ended(t, "running")
             /\ execs' = [execs EXCEPT ![e] = r("read", TRUE)]
    <3>0. tasks'[t] = [op |-> tasks[t].op, status |-> "running"]
      BY <2>1, <2>2, TasksKept DEF Typed
    <3>1. tasks'[t].status = "running"
      BY <3>0
    <3>2. GoesOn(e, r("read", TRUE))
      BY <2>1, <2>2, <3>1 DEF GoesOn, Queued
    <3> QED BY <2>2, <3>2
  <2>3. CASE /\ ~Queued(t) /\ UNCHANGED tasks
             /\ execs' = [execs EXCEPT ![e] = r("reconcile", FALSE)]
    <3>1. GoesOn(e, r("reconcile", FALSE))
      BY <2>1, <2>3 DEF GoesOn, Queued, Before
    <3> QED BY <2>3, <3>1
  <2> QED BY <1>16, <2>2, <2>3 DEF Execute
<1> QED
  BY <1>5, <1>6, <1>7, <1>8, <1>9, <1>10, <1>11, <1>12, <1>13, <1>14, <1>15, <1>16 DEF Executor

LEMMA CreatesStep ==
    ASSUME [Next]_vars
    PROVE  UNCHANGED creates \/ \E e \in Executors : Create(e)
<1>1. Owner => UNCHANGED creates
  BY DEF Owner, Authorize, Commit, Stop, Archive, Delete, outside
<1>2. ASSUME NEW e \in Executors, Executor(e) \/ ExecutorDies(e)
      PROVE  UNCHANGED creates \/ Create(e)
  BY <1>2 DEF Executor, Execute, ReadServer, Save, Call, Halt, Remove, Archived, Gone, Reconcile,
     Look, Decide, ReleaseCreate, Fail, ExecutorDies
<1>3. \/ \E type \in {"healthy", "stopped"} : Send(type)
      \/ \E r \in Reports : (\E ev \in mail : Receive(r, ev)) \/ Ask(r) \/ Apply(r)
      \/ \E b \in Settlements : RequireStop(b) \/ RuntimeStopped(b)
      => UNCHANGED creates
  BY DEF Send, Receive, Ask, Apply, RequireStop, RuntimeStopped, outside
<1>4. \/ \E m \in Machines : HaltAfter(m)
      \/ \E a \in Admins : Administer(a) \/ Complete(a) \/ AdminDies(a)
      \/ DeadlinePasses
      \/ \E s \in Sweeps : (\E t \in TaskIds : Sweep(s, t)) \/ SweepHalts(s) \/ SweepEnds(s)
      \/ UNCHANGED vars
      => UNCHANGED creates
  BY DEF HaltAfter, Administer, Complete, AdminDies, DeadlinePasses, Sweep, SweepHalts, SweepEnds,
     vars, outside
<1> QED
  BY <1>1, <1>2, <1>3, <1>4 DEF Next

(* The executors after a step.                                             *)
LEMMA ExecsStep ==
    ASSUME ServerControlAssumption, Typed, Plans, [Next]_vars
    PROVE  \/ UNCHANGED execs
           \/ \E e \in Executors : \E r : execs' = [execs EXCEPT ![e] = r] /\ GoesOn(e, r)
  BY Steps, ExecutorGoesOn

LEMMA NextPlans ==
    ASSUME ServerControlAssumption, Typed, Plans, [Next]_vars
    PROVE  Plans'
<1>1. Progress
  BY Steps
<1>2. \A t \in TaskIds : tasks[t] # NoTask =>
         tasks'[t].op = tasks[t].op
         /\ (tasks[t].status # "queued" => tasks'[t].status # "queued")
  BY <1>1 DEF Progress
<1>3. \A e \in Executors : execs[e] # Idle =>
         execs[e].task \in TaskIds /\ tasks[execs[e].task] # NoTask
  BY DEF Typed, AtWork, KnownTasks, Executing
<1>4. CASE UNCHANGED execs
  BY <1>2, <1>3, <1>4 DEF Plans, Op
<1>5. ASSUME NEW e \in Executors, NEW r, execs' = [execs EXCEPT ![e] = r], GoesOn(e, r)
      PROVE  Plans'
  <2>1. ASSUME NEW f \in Executors, execs'[f] # Idle, f # e
        PROVE  Plan(execs'[f], tasks'[execs'[f].task].op) /\ tasks'[execs'[f].task].status # "queued"
    <3>1. execs'[f] = execs[f]
      BY <1>5, <2>1 DEF Typed, AtWork
    <3> QED BY <1>2, <1>3, <2>1, <3>1 DEF Plans, Op
  <2>2. ASSUME r # Idle
        PROVE  Plan(r, tasks'[r.task].op) /\ tasks'[r.task].status # "queued"
    <3>1. CASE execs[e] # Idle
      BY <1>2, <1>3, <1>5, <2>2, <3>1 DEF Plans, Op, GoesOn
    <3>2. CASE execs[e] = Idle
      <4>1. r.pc \in {"read", "reconcile"} /\ (r.pc = "read" => r.inside)
            /\ tasks'[r.task].status # "queued"
        BY <1>5, <2>2, <3>2 DEF GoesOn
      <4> QED BY <4>1 DEF Plan
    <3> QED BY <3>1, <3>2
  <2>3. execs'[e] = r
    BY <1>5 DEF Typed, AtWork
  <2> QED BY <2>1, <2>2, <2>3 DEF Plans, Op
<1> QED
  BY <1>4, <1>5, ExecsStep

(* "provider unknown outcome ... does not blindly create twice".           *)
LEMMA NextOnce ==
    ASSUME ServerControlAssumption, Typed, Plans, Once, [Next]_vars
    PROVE  Once'
<1>1. Progress
  BY Steps
<1>2. \A t \in TaskIds : tasks[t] # NoTask =>
         tasks'[t] # NoTask /\ (tasks[t].status # "queued" => tasks'[t].status # "queued")
  BY <1>1 DEF Progress
<1>3. \A e \in Executors : execs[e] # Idle =>
         execs[e].task \in TaskIds /\ tasks[execs[e].task] # NoTask
         /\ tasks[execs[e].task].status # "queued"
  BY DEF Typed, AtWork, KnownTasks, Executing, Plans
<1>4. Keys \subseteq TaskIds /\ creates \in [Keys -> Nat]
  BY SameTypes DEF TaskIds
<1>5. \A e \in Executors : execs[e].pc \in Before => execs[e] # Idle
  BY IdleIs DEF Before
<1>6. CASE UNCHANGED creates
  <2>1. CASE UNCHANGED execs
    BY <1>2, <1>4, <1>6, <2>1 DEF Once, CreatedOnce
  <2>2. ASSUME NEW e \in Executors, NEW r, execs' = [execs EXCEPT ![e] = r], GoesOn(e, r)
        PROVE  Once'
    <3>1. execs'[e] = r /\ \A f \in Executors \ {e} : execs'[f] = execs[f]
      BY <2>2 DEF Typed, AtWork
    <3>2. /\ CreatedOnce'
          /\ \A k \in Keys : tasks'[k] = NoTask \/ tasks'[k].status = "queued" => creates'[k] = 0
      BY <1>2, <1>4, <1>6 DEF Once, CreatedOnce
    <3>3. CASE r.pc \in Before
      <4>1. CASE execs[e] # Idle
        <5>1. r.task = execs[e].task /\ execs[e].pc \in Before
          BY <2>2, <3>3, <4>1, IdleIs DEF GoesOn, Before
        <5> QED BY <1>6, <3>1, <3>2, <5>1 DEF Once
      <4>2. CASE execs[e] = Idle
        <5>1. r.task \in TaskIds /\ tasks[r.task].status = "queued"
          BY <2>2, <3>3, <4>2, IdleIs DEF GoesOn, Before
        <5>2. r.task \in Keys => creates[r.task] = 0
          BY <5>1 DEF Once
        <5>3. \A f \in Executors \ {e} : execs[f].pc \in Before => execs[f].task # r.task
          BY <1>3, <1>5, <5>1
        <5> QED BY <1>6, <3>1, <3>2, <5>2, <5>3 DEF Once
      <4> QED BY <4>1, <4>2
    <3>4. CASE r.pc \notin Before
      BY <1>6, <3>1, <3>2, <3>4 DEF Once
    <3> QED BY <3>3, <3>4
  <2> QED BY <2>1, <2>2, ExecsStep
<1>7. ASSUME NEW e \in Executors, Create(e)
      PROVE  Once'
  <2> DEFINE t == execs[e].task
  <2>1. execs[e].pc = "call" /\ tasks[t].op \in {"create", "restore"} /\ UNCHANGED tasks
    BY <1>7 DEF Create, Op, aggregate
  <2>2. execs[e] # Idle
    BY <2>1, IdleIs
  <2>3. t \in Keys
    BY <1>3, <2>1, <2>2 DEF Typed, KnownTasks
  <2>4. creates[t] = 0 /\ \A f \in Executors \ {e} : execs[f].pc \in Before => execs[f].task # t
    BY <2>1, <2>3 DEF Once, Before
  <2>5. creates' = [creates EXCEPT ![t] = creates[t] + 1]
    BY <1>7 DEF Create
  <2>6. creates'[t] = 1 /\ \A k \in Keys \ {t} : creates'[k] = creates[k]
    BY <1>4, <2>3, <2>4, <2>5
  <2>7. execs'[e].pc \notin Before /\ \A f \in Executors \ {e} : execs'[f] = execs[f]
    <3>1. \/ execs' = [execs EXCEPT ![e].pc = "save", ![e].machine = t]
          \/ execs' = [execs EXCEPT ![e] = Idle]
          \/ execs' = [execs EXCEPT ![e].pc = "failed"]
      BY <1>7 DEF Create, Ends, Goto
    <3>2. execs[e] \in Executing
      BY <2>1, ExecIs
    <3>3. CASE execs' = [execs EXCEPT ![e].pc = "save", ![e].machine = t]
      BY <3>2, <3>3 DEF Typed, AtWork, Before, Executing
    <3>4. CASE execs' = [execs EXCEPT ![e] = Idle]
      BY <3>4, IdleIs DEF Typed, AtWork, Before
    <3>5. CASE execs' = [execs EXCEPT ![e].pc = "failed"]
      BY <3>2, <3>5 DEF Typed, AtWork, Before, Executing
    <3> QED BY <3>1, <3>3, <3>4, <3>5
  <2>8. tasks[t] # NoTask /\ tasks[t].status # "queued"
    BY <1>3, <2>2
  <2> QED
    BY <1>4, <2>1, <2>3, <2>4, <2>6, <2>7, <2>8 DEF Once, CreatedOnce
<1> QED
  BY <1>6, <1>7, CreatesStep

-----------------------------------------------------------------------------
(* Leases.                                                                 *)

(* A lease is of a task that exists, and of no other.                      *)
LeaseHasTask ==
    /\ \A k \in Keys : tasks[k] = NoTask => leases[k] = "none" /\ auths[k] # "released"
    /\ server.lease # None => tasks[server.lease] # NoTask

CloseOpen ==
    /\ \A c \in Calls : calls[c] # Idle /\ tasks[calls[c].key] = NoTask =>
          auths[calls[c].key] = "held"
    /\ \A k \in Keys : tasks[k] # NoTask /\ tasks[k].op = "create" => leases[k] = "none"
    /\ OneLease /\ OpenLeaseIsPaid
    /\ server.status \in Rest => server.lease = None \/ leases[server.lease] \notin Open

(* What Commit does when the request is new and is allowed.                *)
LEMMA CommitIs ==
    ASSUME ServerControlAssumption, Typed, NEW c \in Calls, Commit(c)
    PROVE  \/ UNCHANGED aggregate
           \/ LET k == calls[c].key
                  op == calls[c].op
              IN  /\ k \in Keys /\ calls[c] # Idle /\ tasks[k] = NoTask /\ MayBegin(op)
                  /\ op \in {"create", "start", "restart", "restore"}
                  /\ tasks'[k] = [op |-> op, status |-> "queued"]
                  /\ \A t \in TaskIds \ {k} : tasks'[t] = tasks[t]
                  /\ leases' = Leased(k, op)
                  /\ Release(IF op = "restart" THEN server.lease ELSE None)
                  /\ server'.lease = IF op = "create" THEN None ELSE k
                  /\ server'.task = k
                  /\ server'.machine = IF op = "create" THEN None ELSE server.machine
                  /\ server'.snapshot = IF op = "create" THEN "none" ELSE server.snapshot
                  /\ server'.deadline = IF op = "create" THEN "none" ELSE server.deadline
                  /\ server'.status = CASE op = "create" -> "creating"
                                        [] op = "restore" -> "restoring"
                                        [] OTHER -> "starting"
<1> DEFINE k == calls[c].key
           op == calls[c].op
<1>1. k \in Keys /\ op \in Ops \cap {"create", "start", "restart", "restore"} /\ calls[c] # Idle
  BY DEF Commit, Typed, AtWork, Asking
<1>2. CASE Replays(k) \/ ~MayBegin(op)
  BY <1>2 DEF Commit
<1>3. CASE ~Replays(k) /\ MayBegin(op)
  <2>1. /\ tasks' = [tasks EXCEPT ![k] = Task(op, "queued")]
        /\ server' = Began(k, op)
        /\ leases' = Leased(k, op)
        /\ Release(IF op = "restart" THEN server.lease ELSE None)
    BY <1>3 DEF Commit
  <2>2. k \in TaskIds /\ op \in Ops \cup {"forced_stop"} /\ op # "forced_stop"
    BY <1>1 DEF TaskIds
  <2>3. /\ tasks'[k] = [op |-> op, status |-> "queued"]
        /\ \A t \in TaskIds \ {k} : tasks'[t] = tasks[t]
    BY <1>1, <2>1, <2>2, TaskAdded
  <2>4. server \in Server /\ NoServer.lease = None /\ NoServer.machine = None
        /\ NoServer.snapshot = "none" /\ NoServer.deadline = "none"
    BY SameTypes DEF NoServer
  <2> DEFINE new == server'
  <2>5. /\ new.lease = IF op = "create" THEN None ELSE k
        /\ new.task = k
        /\ new.machine = IF op = "create" THEN None ELSE server.machine
        /\ new.snapshot = IF op = "create" THEN "none" ELSE server.snapshot
        /\ new.deadline = IF op = "create" THEN "none" ELSE server.deadline
        /\ new.status = CASE op = "create" -> "creating"
                          [] op = "restore" -> "restoring"
                          [] OTHER -> "starting"
    <3>1. CASE op = "create"
      <4>1. new = [NoServer EXCEPT !.status = "creating", !.task = k]
        BY <2>1, <3>1 DEF Began
      <4> QED BY <3>1, <4>1 DEF NoServer
    <3>2. CASE op \in {"start", "restart"}
      <4>1. new = [server EXCEPT !.status = "starting", !.task = k, !.lease = k]
        BY <2>1, <3>2 DEF Began
      <4> QED BY <2>4, <3>2, <4>1 DEF Server
    <3>3. CASE op = "restore"
      <4>1. new = [server EXCEPT !.status = "restoring", !.task = k, !.lease = k]
        BY <2>1, <3>3 DEF Began
      <4> QED BY <2>4, <3>3, <4>1 DEF Server
    <3> QED BY <1>1, <3>1, <3>2, <3>3
  <2>6. tasks[k] = NoTask
    BY <1>3 DEF Replays
  <2> HIDE DEF k, op
  <2> QED BY <1>1, <1>3, <2>1, <2>3, <2>5, <2>6 DEF k, op
<1> QED
  BY <1>2, <1>3

LEMMA NextLeaseHasTask ==
    ASSUME ServerControlAssumption, Typed, Plans, LeaseHasTask, [Next]_vars
    PROVE  /\ LeaseHasTask'
           /\ \A l \in Keys : leases[l] = "released" => leases'[l] = "released"
<1>1. /\ Keys \subseteq TaskIds /\ leases \in [Keys -> {"none", "reserved", "active", "released"}]
      /\ auths \in [Keys -> {"none", "held", "released"}]
      /\ server.lease \in Keys \cup {None} /\ None \notin Keys
  BY SameTypes DEF TaskIds, Server, ServerControlAssumption, Machines
<1>2. CASE Moves
  <2>1. \A t \in TaskIds : tasks'[t] = NoTask => tasks[t] = NoTask
    BY <1>2 DEF Moves, Progress
  <2>2. CASE Quiet
    <3>1. \A k \in Keys : auths'[k] # auths[k] => tasks[k] # NoTask
      <4>1. ASSUME NEW e \in Executors, execs[e].pc # "idle",
                   auths' = [auths EXCEPT ![execs[e].task] = "released"]
            PROVE  \A k \in Keys : auths'[k] # auths[k] => tasks[k] # NoTask
        BY <1>1, <4>1, ExecIs
      <4> QED BY <2>2, <4>1 DEF Quiet
    <3> QED BY <1>1, <2>1, <2>2, <3>1 DEF LeaseHasTask, Quiet
  <2>3. CASE Closing
    <3>1. \A k \in Keys : /\ leases'[k] # leases[k] => k = server.lease /\ leases'[k] = "released"
                          /\ auths'[k] # auths[k] => k = server.lease
      BY <1>1, <2>3, Releases DEF Closing, Typed
    <3> QED BY <1>1, <2>1, <2>3, <3>1 DEF LeaseHasTask, Closing
  <2>4. CASE Granting
    BY <1>1, <2>1, <2>4 DEF LeaseHasTask, Granting
  <2> QED BY <1>2, <2>2, <2>3, <2>4 DEF Moves
<1>3. ASSUME NEW c \in Calls, NEW k \in Keys, NEW op \in Ops, Authorize(c, k, op)
      PROVE  /\ LeaseHasTask'
             /\ \A l \in Keys : leases[l] = "released" => leases'[l] = "released"
  BY <1>1, <1>3 DEF Authorize, LeaseHasTask
<1>4. ASSUME NEW c \in Calls, Commit(c)
      PROVE  /\ LeaseHasTask'
             /\ \A l \in Keys : leases[l] = "released" => leases'[l] = "released"
  <2>1. CASE UNCHANGED aggregate
    BY <2>1 DEF aggregate, LeaseHasTask
  <2> DEFINE k == calls[c].key
             op == calls[c].op
             closed == IF op = "restart" THEN server.lease ELSE None
  <2>2. CASE ~UNCHANGED aggregate
    <3>1. /\ k \in Keys /\ tasks[k] = NoTask
          /\ tasks'[k] = [op |-> op, status |-> "queued"]
          /\ \A t \in TaskIds \ {k} : tasks'[t] = tasks[t]
          /\ leases' = Leased(k, op) /\ Release(closed)
          /\ server'.lease = IF op = "create" THEN None ELSE k
      BY <1>4, <2>2, CommitIs
    <3>2. tasks'[k] # NoTask
      BY <3>1 DEF NoTask
    <3>3. closed \in Keys \cup {None} /\ (closed \in Keys => tasks[closed] # NoTask)
      BY <1>1 DEF LeaseHasTask
    <3> HIDE DEF k, op
    <3>4. \A l \in Keys \ {k} : leases'[l] # leases[l] => l = closed /\ leases'[l] = "released"
      BY <1>1, <3>1, <3>3, Releases DEF Leased, closed, Typed
    <3>5. \A l \in Keys : auths'[l] # auths[l] => l = closed
      BY <1>1, <3>1, <3>3, Releases DEF Typed
    <3>6. leases[k] = "none"
      BY <3>1 DEF LeaseHasTask
    <3> HIDE DEF closed
    <3> QED BY <1>1, <3>1, <3>2, <3>3, <3>4, <3>5, <3>6 DEF LeaseHasTask
  <2> QED BY <2>1, <2>2
<1> QED
  BY <1>2, <1>3, <1>4, Steps

(* An archive or a create that ends finds no lease.                        *)
EndsWithout == \A e \in Executors : Ending(e) => server.lease = None

LEMMA NextCloseOpen ==
    ASSUME ServerControlAssumption, Typed, Plans, LeaseHasTask, CloseOpen, EndsWithout, [Next]_vars
    PROVE  CloseOpen'
<1>1. /\ Keys \subseteq TaskIds /\ leases \in [Keys -> {"none", "reserved", "active", "released"}]
      /\ auths \in [Keys -> {"none", "held", "released"}]
      /\ server.lease \in Keys \cup {None} /\ None \notin Keys
      /\ \A c \in Calls : calls[c] # Idle => calls[c].key \in Keys
  BY SameTypes DEF TaskIds, Server, ServerControlAssumption, Machines, Typed, AtWork, Asking
<1>2. CASE Moves
  <2>1. /\ \A t \in TaskIds : tasks'[t] = NoTask => tasks[t] = NoTask
        /\ \A t \in TaskIds : tasks'[t] # NoTask /\ tasks'[t].op = "create" =>
              tasks[t] # NoTask /\ tasks[t].op = "create"
    BY <1>2 DEF Moves, Progress, AddsNoLease
  <2>2. CASE Quiet
    <3>1. \A k \in Keys : auths'[k] # auths[k] => tasks[k] # NoTask /\ tasks[k].op = "create"
      <4>1. ASSUME NEW e \in Executors, execs[e].pc # "idle", Op(e) = "create",
                   auths' = [auths EXCEPT ![execs[e].task] = "released"]
            PROVE  \A k \in Keys : auths'[k] # auths[k] => tasks[k] # NoTask /\ tasks[k].op = "create"
        BY <1>1, <4>1, ExecIs DEF Op
      <4> QED BY <2>2, <4>1 DEF Quiet
    <3>2. UNCHANGED <<leases, calls>> /\ server'.lease = server.lease
      BY <2>2 DEF Quiet
    <3>3. \A c \in Calls : calls'[c] # Idle /\ tasks'[calls'[c].key] = NoTask =>
             auths'[calls'[c].key] = "held"
      BY <1>1, <2>1, <3>1, <3>2 DEF CloseOpen
    <3>4. OneLease' /\ \A k \in Keys : tasks'[k] # NoTask /\ tasks'[k].op = "create" => leases'[k] = "none"
      BY <1>1, <2>1, <3>2 DEF CloseOpen, OneLease
    <3>5. OpenLeaseIsPaid'
      BY <1>1, <3>1, <3>2 DEF CloseOpen, OpenLeaseIsPaid, Open
    <3>6. server'.status \in Rest => server'.lease = None \/ leases'[server'.lease] \notin Open
      BY <2>2, <3>2 DEF CloseOpen, Quiet, EndsWithout
    <3> QED BY <3>3, <3>4, <3>5, <3>6 DEF CloseOpen
  <2>3. CASE Closing
    <3>1. \A k \in Keys : /\ leases'[k] # leases[k] => k = server.lease /\ leases'[k] = "released"
                          /\ auths'[k] # auths[k] => k = server.lease
                          /\ k = server.lease => leases'[k] \notin Open
      BY <1>1, <2>3, Releases DEF Closing, Typed, Open
    <3>2. \A k \in Keys : leases'[k] \notin Open
      BY <1>1, <3>1 DEF CloseOpen, OneLease, Open
    <3>3. UNCHANGED calls /\ server'.lease = None
      BY <2>3 DEF Closing
    <3>4. \A c \in Calls : calls'[c] # Idle /\ tasks'[calls'[c].key] = NoTask =>
             auths'[calls'[c].key] = "held"
      BY <1>1, <2>1, <3>1, <3>3 DEF CloseOpen, LeaseHasTask
    <3>5. \A k \in Keys : tasks'[k] # NoTask /\ tasks'[k].op = "create" => leases'[k] = "none"
      <4>1. \A k \in Keys : leases'[k] # leases[k] => leases[k] \in Open
        BY <1>1, <2>3, Releases DEF Closing, Typed
      <4> QED BY <1>1, <2>1, <4>1 DEF CloseOpen, Open
    <3> QED BY <3>2, <3>3, <3>4, <3>5 DEF CloseOpen, OneLease, OpenLeaseIsPaid
  <2>4. CASE Granting
    <3>1. /\ server.lease \in Keys /\ leases[server.lease] = "reserved"
          /\ leases' = [leases EXCEPT ![server.lease] = "active"]
          /\ server'.lease = server.lease /\ server'.status = "running"
          /\ UNCHANGED <<auths, calls>>
      BY <1>1, <2>4 DEF Granting
    <3> QED BY <1>1, <2>1, <3>1 DEF CloseOpen, OneLease, OpenLeaseIsPaid, Open, Rest
  <2> QED BY <1>2, <2>2, <2>3, <2>4 DEF Moves
<1>3. ASSUME NEW c \in Calls, NEW k \in Keys, NEW op \in Ops, Authorize(c, k, op)
      PROVE  CloseOpen'
  <2>1. /\ calls' = [calls EXCEPT ![c] = [pc |-> "authorized", key |-> k, op |-> op]]
        /\ auths' = [auths EXCEPT ![k] = "held"]
        /\ UNCHANGED <<server, tasks, leases>>
    BY <1>3 DEF Authorize
  <2>2. \A d \in Calls : calls'[d] # Idle /\ tasks[calls'[d].key] = NoTask => auths'[calls'[d].key] = "held"
    <3> DEFINE new == [pc |-> "authorized", key |-> k, op |-> op]
    <3>1. new.key = k
      OBVIOUS
    <3>2. calls' = [calls EXCEPT ![c] = new]
      BY <2>1
    <3> HIDE DEF new
    <3>3. calls \in [Calls -> {Idle} \cup Asking]
      BY DEF Typed, AtWork
    <3> QED BY <1>1, <2>1, <3>1, <3>2, <3>3 DEF CloseOpen
  <2>3. OpenLeaseIsPaid'
    BY <1>1, <2>1 DEF CloseOpen, OpenLeaseIsPaid
  <2> QED BY <2>1, <2>2, <2>3 DEF CloseOpen, OneLease
<1>4. ASSUME NEW c \in Calls, Commit(c)
      PROVE  CloseOpen'
  <2>1. calls' = [calls EXCEPT ![c] = Idle] /\ calls \in [Calls -> {Idle} \cup Asking]
    BY <1>4 DEF Commit, Typed, AtWork
  <2>2. CASE UNCHANGED aggregate
    BY <2>1, <2>2 DEF aggregate, CloseOpen, OneLease, OpenLeaseIsPaid
  <2> DEFINE k == calls[c].key
             op == calls[c].op
             closed == IF op = "restart" THEN server.lease ELSE None
  <2>3. CASE ~UNCHANGED aggregate
    <3>1. /\ k \in Keys /\ tasks[k] = NoTask /\ MayBegin(op) /\ calls[c] # Idle
          /\ op \in {"create", "start", "restart", "restore"}
          /\ tasks'[k] = [op |-> op, status |-> "queued"]
          /\ \A t \in TaskIds \ {k} : tasks'[t] = tasks[t]
          /\ leases' = Leased(k, op) /\ Release(closed)
          /\ server'.lease = IF op = "create" THEN None ELSE k
          /\ server'.status = CASE op = "create" -> "creating"
                                [] op = "restore" -> "restoring"
                                [] OTHER -> "starting"
      BY <1>4, <2>3, CommitIs
    <3>2. tasks'[k] # NoTask /\ tasks'[k].op = op
      BY <3>1 DEF NoTask
    <3>3. closed \in Keys \cup {None} /\ (closed \in Keys => tasks[closed] # NoTask)
      BY <1>1 DEF LeaseHasTask
    <3>4. /\ \A l \in Keys \ {k} : leases'[l] # leases[l] => l = closed /\ leases'[l] = "released"
          /\ op = "create" => leases' = leases
          /\ op # "create" => leases'[k] = "reserved"
          /\ \A l \in Keys \ {k} : l = closed /\ op # "create" => leases'[l] \notin Open
      <4> HIDE DEF k, op
      <4> QED BY <1>1, <3>1, <3>3, Releases DEF Leased, Typed, Open, closed
    <3>5. \A l \in Keys : auths'[l] # auths[l] => l = closed
      BY <1>1, <3>1, <3>3, Releases DEF Typed
    <3>6. leases[k] = "none" /\ auths[k] = "held"
      BY <3>1 DEF LeaseHasTask, CloseOpen
    <3>7. \A l \in Keys \ {k} : leases'[l] \notin Open
      <4>1. CASE op = "restart"
        <5> HIDE DEF k, op
        <5> QED BY <1>1, <3>1, <3>4, <4>1 DEF CloseOpen, OneLease, Open, closed
      <4>2. CASE op # "restart"
        <5>1. server.status \in Rest
          BY <3>1, <4>2 DEF MayBegin, Rest
        <5>2. \A l \in Keys : leases[l] \notin Open
          BY <1>1, <5>1 DEF CloseOpen, OneLease
        <5> HIDE DEF k, op
        <5> QED BY <1>1, <3>4, <4>2, <5>2 DEF closed, Open
      <4> QED BY <4>1, <4>2
    <3>8. k # closed
      BY <3>1, <3>3
    <3> HIDE DEF k, op, closed
    <3>9. \A l \in Keys : leases'[l] \in Open => l = k /\ op # "create"
      BY <3>4, <3>6, <3>7 DEF Open
    <3>10. OneLease' /\ OpenLeaseIsPaid'
      BY <3>1, <3>5, <3>6, <3>8, <3>9 DEF OneLease, OpenLeaseIsPaid
    <3>11. \A l \in Keys : tasks'[l] # NoTask /\ tasks'[l].op = "create" => leases'[l] = "none"
      <4>1. ASSUME NEW l \in Keys \ {k}, tasks[l] # NoTask, tasks[l].op = "create"
            PROVE  leases'[l] = "none"
        <5>1. leases[l] = "none"
          BY <4>1 DEF CloseOpen
        <5>2. CASE l # closed
          BY <3>4, <5>1, <5>2
        <5>3. CASE l = closed
          <6>1. op = "restart" /\ closed = server.lease
            BY <1>1, <5>3 DEF closed
          <6>2. leases' = [Closed(server.lease) EXCEPT ![k] = "reserved"]
            BY <3>1, <6>1 DEF Leased
          <6>3. leases'[l] = leases[l]
            BY <1>1, <5>1, <6>2, <6>1, <5>3, Releases DEF Typed, Open
          <6> QED BY <5>1, <6>3
        <5> QED BY <5>2, <5>3
      <4> QED BY <1>1, <3>1, <3>2, <3>4, <3>6, <4>1
    <3>12. \A d \in Calls : calls'[d] # Idle /\ tasks'[calls'[d].key] = NoTask => auths'[calls'[d].key] = "held"
      <4>1. ASSUME NEW d \in Calls, d # c, calls[d] # Idle, tasks'[calls[d].key] = NoTask
            PROVE  auths'[calls[d].key] = "held"
        BY <1>1, <3>1, <3>2, <3>3, <3>5, <4>1 DEF CloseOpen
      <4> QED BY <2>1, <4>1
    <3>13. server'.status \notin Rest
      BY <3>1 DEF Rest
    <3> QED BY <3>10, <3>11, <3>12, <3>13 DEF CloseOpen
  <2> QED BY <2>2, <2>3
<1> QED
  BY <1>2, <1>3, <1>4, Steps

-----------------------------------------------------------------------------
(* A server that is only started, restarted and stopped.                   *)

RunsOnly == Created /\ Ops \subseteq {"start", "restart", "stop"}

Runs ==
    /\ server.status \in {"stopped", "starting", "running", "stopping", "suspended",
                          "billing_blocked"}
    /\ \/ server.status = "stopped"
       \/ server.status \in {"suspended", "billing_blocked"} /\ server.deadline = "none"
       => server.lease = None
    /\ server.machine = First /\ vultr[First] # "none"

LEMMA RunsExecutor ==
    ASSUME ServerControlAssumption, RunsOnly, Typed, Plans, Runs, NEW e \in Executors,
           Executor(e) \/ ExecutorDies(e)
    PROVE  Runs'
<1> USE DEF StillHere
<1>1. First \in Machines /\ vultr \in [Machines -> {"none", "on", "off"}] /\ server \in Server
  BY SameTypes DEF Machines
<1>2. execs[e].pc # "idle" => Op(e) \in {"start", "restart", "stop", "forced_stop"} /\ Plan(execs[e], Op(e))
  BY ExecIs, IdleIs DEF TaskRecord, Op, RunsOnly, Plans
<1>3. CASE UNCHANGED <<server, vultr>>
  BY <1>3 DEF Runs
<1>4. CASE ReadServer(e) \/ ExecutorDies(e) \/ \E t \in TaskIds : Execute(e, t)
  BY <1>3, <1>4 DEF ReadServer, ExecutorDies, Execute, aggregate
<1>5. CASE Create(e) \/ Save(e) \/ Halt(e) \/ Remove(e) \/ Archived(e) \/ Gone(e)
  BY <1>2, <1>5 DEF Create, Save, Halt, Remove, Archived, Gone, Plan
<1>6. CASE Call(e)
  <2>1. UNCHANGED server /\ \E next : Provider(e, Exists(Machine(e)), "on", next)
    BY <1>2, <1>6 DEF Call, aggregate
  <2>2. vultr' = vultr \/ vultr' = [vultr EXCEPT ![Machine(e)] = "on"]
    BY <2>1 DEF Provider
  <2> QED BY <1>1, <2>1, <2>2 DEF Runs
<1>7. CASE Reconcile(e)
  BY <1>2, <1>3, <1>7 DEF Reconcile, Op
<1>8. CASE Look(e)
  BY <1>1, <1>8 DEF Look, aggregate, Runs
<1>9. CASE Decide(e)
  BY <1>2, <1>3, <1>9 DEF Decide, Confirms
<1>10. CASE ReleaseCreate(e)
  BY <1>3, <1>10 DEF ReleaseCreate
<1>11. CASE Fail(e)
  <2>1. UNCHANGED vultr
    BY <1>11 DEF Fail
  <2>2. CASE Op(e) \in {"start", "restart"}
    <3>1. server' = [Without(server) EXCEPT !.task = execs[e].task, !.status = "stopped"]
      BY <1>11, <2>2 DEF Fail
    <3>2. server'.status = "stopped" /\ server'.lease = None /\ server'.machine = server.machine
      BY <1>1, <3>1 DEF Without, Server
    <3> QED BY <2>1, <3>2 DEF Runs
  <2>3. CASE Op(e) \notin {"start", "restart"}
    <3>1. UNCHANGED server
      BY <1>2, <1>11, <2>3 DEF Fail
    <3> QED BY <1>3, <2>1, <3>1
  <2> QED BY <2>2, <2>3
<1> QED
  BY <1>4, <1>5, <1>6, <1>7, <1>8, <1>9, <1>10, <1>11 DEF Executor

LEMMA RunsOwner ==
    ASSUME ServerControlAssumption, RunsOnly, Typed, Runs, Owner
    PROVE  Runs'
<1>1. UNCHANGED vultr
  BY DEF Owner, Authorize, Commit, Stop, Archive, Delete, outside
<1>2. server \in Server
  BY SameTypes
<1>3. ASSUME NEW c \in Calls, Commit(c)
      PROVE  Runs'
  <2>1. calls[c].op \in {"start", "restart"}
    BY <1>3 DEF Commit, Typed, AtWork, Asking, RunsOnly
  <2>2. UNCHANGED server \/ (server'.status = "starting" /\ server'.machine = server.machine)
    BY <1>3, <2>1, CommitIs DEF aggregate
  <2> QED BY <1>1, <2>2 DEF Runs
<1>4. ASSUME NEW k \in Keys, Stop(k)
      PROVE  Runs'
  <2>1. server'.status = "stopping" /\ server'.machine = server.machine
    BY <1>2, <1>4 DEF Stop, Server
  <2> QED BY <1>1, <2>1 DEF Runs
<1>5. ASSUME NEW k \in Keys, Archive(k) \/ Delete(k)
      PROVE  FALSE
  BY <1>5 DEF Archive, Delete, New, RunsOnly
<1>6. ASSUME NEW c \in Calls, NEW k \in Keys, NEW op \in Ops, Authorize(c, k, op)
      PROVE  Runs'
  BY <1>1, <1>6 DEF Authorize, Runs
<1> QED
  BY <1>3, <1>4, <1>5, <1>6 DEF Owner

(* The end of a stop keeps what the server is.                             *)
LEMMA DownIs ==
    ASSUME NEW s \in Server
    PROVE  /\ Down(s).lease = None /\ Down(s).deadline = "none"
           /\ Down(s).machine = s.machine /\ Down(s).snapshot = s.snapshot
           /\ Down(s).task = s.task
           /\ Down(s).status = IF s.status = "stopping" THEN "stopped" ELSE s.status
           /\ Down(s) \in Server
<1> DEFINE without == [s EXCEPT !.lease = None]
           status == IF without.status = "stopping" THEN "stopped" ELSE without.status
<1>1. /\ without \in Server /\ without.status = s.status /\ without.lease = None
      /\ without.machine = s.machine /\ without.snapshot = s.snapshot /\ without.task = s.task
  BY DEF Server
<1>2. Down(s) = [without EXCEPT !.deadline = "none", !.status = status]
  BY DEF Down, Without, Server
<1> HIDE DEF without
<1>3. status \in Statuses
  BY <1>1 DEF Server, Statuses
<1>4. status = IF s.status = "stopping" THEN "stopped" ELSE s.status
  BY <1>1
<1> HIDE DEF status
<1> QED BY <1>1, <1>2, <1>3, <1>4 DEF Server

LEMMA SeenIs ==
    ASSUME ServerControlAssumption, Typed, NEW r \in Reports, reports[r].pc = "apply"
    PROVE  LET seen == Seen(reports[r].event)
           IN  /\ seen \in Server
               /\ seen.status = server.status /\ seen.lease = server.lease
               /\ seen.machine = server.machine /\ seen.snapshot = server.snapshot
               /\ seen.deadline = server.deadline /\ seen.task = server.task
<1> DEFINE ev == reports[r].event
           seen == Seen(ev)
<1>1. reports[r] \in Reporting /\ ev.seq \in 0 .. MaxSeq /\ server \in Server
  BY SameTypes, SameRest, IdleIs DEF Reporting, ServerControlAssumption
<1>2. seen = [server EXCEPT !.workerSeq = ev.seq] \/ seen = server
  BY DEF Seen
<1> HIDE DEF seen
<1>3. /\ seen \in Server
      /\ seen.status = server.status /\ seen.lease = server.lease
      /\ seen.machine = server.machine /\ seen.snapshot = server.snapshot
      /\ seen.deadline = server.deadline /\ seen.task = server.task
  BY <1>1, <1>2 DEF Server
<1> QED BY <1>3 DEF seen

(* What an event of the worker makes of the server.                        *)
LEMMA ApplyIs ==
    ASSUME ServerControlAssumption, Typed, NEW r \in Reports, Apply(r)
    PROVE  /\ \/ /\ server.status \in {"starting", "restoring"} /\ server'.status = "running"
                 /\ server'.lease = server.lease
                 /\ server'.snapshot = Aged(server.snapshot) /\ server'.deadline = server.deadline
                 /\ tasks' = CurrentSucceeded
              \/ /\ server.status \in Stoppable
                 /\ server'.status = IF server.status = "stopping" THEN "stopped" ELSE server.status
                 /\ server'.lease = None /\ server'.snapshot = server.snapshot
                 /\ tasks' = CurrentSucceeded
              \/ /\ server'.status = server.status /\ server'.lease = server.lease
                 /\ server'.snapshot = server.snapshot /\ server'.deadline = server.deadline
                 /\ UNCHANGED tasks
           /\ server'.machine = server.machine /\ server'.task = server.task
           /\ UNCHANGED <<vultr, execs, creates>>
<1> DEFINE ev == reports[r].event
           seen == Seen(ev)
<1>1. /\ seen \in Server
      /\ seen.status = server.status /\ seen.lease = server.lease
      /\ seen.machine = server.machine /\ seen.snapshot = server.snapshot
      /\ seen.deadline = server.deadline /\ seen.task = server.task
  BY SeenIs DEF Apply
<1>2. UNCHANGED <<vultr, execs, creates>>
  BY DEF Apply, outside
<1> HIDE DEF seen
<1>3. CASE /\ server.status \in {"starting", "restoring"}
           /\ server' = [seen EXCEPT !.status = "running", !.snapshot = Aged(@)]
           /\ tasks' = CurrentSucceeded
  <2> DEFINE aged == Aged(seen.snapshot)
  <2>1. server' = [seen EXCEPT !.status = "running", !.snapshot = aged]
    BY <1>1, <1>3 DEF Server
  <2>2. aged = Aged(server.snapshot)
    BY <1>1
  <2> HIDE DEF aged
  <2> QED BY <1>1, <1>2, <1>3, <2>1, <2>2 DEF Server
<1>4. CASE /\ server.status \in Stoppable /\ server' = Down(seen) /\ tasks' = CurrentSucceeded
  BY <1>1, <1>2, <1>4, DownIs
<1>5. CASE (server' = seen \/ server' = server) /\ UNCHANGED tasks
  BY <1>1, <1>2, <1>5
<1>6. \/ /\ server.status \in {"starting", "restoring"}
         /\ server' = [seen EXCEPT !.status = "running", !.snapshot = Aged(@)]
         /\ tasks' = CurrentSucceeded
      \/ server.status \in Stoppable /\ server' = Down(seen) /\ tasks' = CurrentSucceeded
      \/ (server' = seen \/ server' = server) /\ UNCHANGED tasks
  BY DEF Apply, HealthyMatters, StoppedMatters, aggregate, seen
<1> QED
  BY <1>3, <1>4, <1>5, <1>6

(* What a stop for an empty balance, an administrator and the sweep make   *)
(* of the server.                                                          *)
LEMMA StopIs ==
    ASSUME ServerControlAssumption, Typed,
           \/ \E b \in Settlements : RequireStop(b) \/ RuntimeStopped(b)
           \/ \E a \in Admins : Administer(a)
           \/ \E s \in Sweeps : SweepEnds(s)
    PROVE  /\ server'.machine = server.machine /\ server'.snapshot = server.snapshot
           /\ UNCHANGED <<vultr, execs, creates>>
           /\ \/ /\ server'.status = server.status /\ server'.lease = server.lease
                 /\ server'.deadline = server.deadline /\ server'.task = server.task
                 /\ UNCHANGED tasks
              \/ /\ \/ server.status = "running" /\ server'.status = "billing_blocked"
                    \/ Suspendable /\ server'.status = "suspended" /\ Admins # {}
                 /\ server'.lease = server.lease /\ server'.deadline = "set"
                 /\ \E t \in TaskIds \ Keys :
                       tasks' = [tasks EXCEPT ![t] = Task("forced_stop", "running")]
              \/ /\ Restorable /\ server'.status = "stopped" /\ server'.lease = server.lease
                 /\ \E a \in Admins : AdminAction[a] = "restore"
                 /\ UNCHANGED tasks
              \/ /\ server.status = "billing_blocked" /\ server'.status = "stopped"
                 /\ server'.lease = None /\ tasks' = CurrentSucceeded
              \/ /\ Forceable /\ server'.lease = None
                 /\ server'.status = IF server.status = "stopping" THEN "stopped" ELSE server.status
                 /\ \E s \in Sweeps : /\ sweeps[s] # Idle
                                      /\ tasks' = Ended(sweeps[s].task, "succeeded")
<1>1. server \in Server /\ \A t \in Settlements \cup Admins : t \in TaskIds \ Keys
  BY SameTypes DEF TaskIds, ServerControlAssumption
<1>2. UNCHANGED <<vultr, execs, creates>>
  BY DEF RequireStop, RuntimeStopped, Administer, SweepEnds, outside, running
<1>3. ASSUME NEW b \in Settlements, RequireStop(b)
      PROVE  /\ server'.machine = server.machine /\ server'.snapshot = server.snapshot
             /\ server'.lease = server.lease
             /\ \/ /\ server'.status = server.status
                   /\ server'.deadline = server.deadline /\ server'.task = server.task
                   /\ UNCHANGED tasks
                \/ /\ server.status = "running" /\ server'.status = "billing_blocked"
                   /\ server'.deadline = "set"
                   /\ tasks' = [tasks EXCEPT ![b] = Task("forced_stop", "running")]
  <2>1. \/ UNCHANGED <<tasks, server>>
        \/ /\ server.status = "running"
           /\ tasks' = [tasks EXCEPT ![b] = Task("forced_stop", "running")]
           /\ server' = [server EXCEPT !.status = "billing_blocked", !.task = b, !.deadline = "set"]
    BY <1>3 DEF RequireStop
  <2> QED BY <1>1, <2>1 DEF Server
<1>4. ASSUME NEW b \in Settlements, RuntimeStopped(b)
      PROVE  /\ server'.machine = server.machine /\ server'.snapshot = server.snapshot
             /\ \/ /\ server'.status = server.status /\ server'.lease = server.lease
                   /\ server'.deadline = server.deadline /\ server'.task = server.task
                   /\ UNCHANGED tasks
                \/ /\ server.status = "billing_blocked" /\ server'.status = "stopped"
                   /\ server'.lease = None /\ tasks' = CurrentSucceeded
  <2>1. \/ UNCHANGED <<tasks, server>>
        \/ /\ server.status = "billing_blocked" /\ tasks' = CurrentSucceeded
           /\ server' = [Without(server) EXCEPT !.deadline = "none", !.status = "stopped"]
    BY <1>4 DEF RuntimeStopped, aggregate
  <2> QED BY <1>1, <2>1 DEF Server, Without
<1>5. ASSUME NEW a \in Admins, Administer(a)
      PROVE  /\ server'.machine = server.machine /\ server'.snapshot = server.snapshot
             /\ server'.lease = server.lease
             /\ \/ /\ server'.status = server.status
                   /\ server'.deadline = server.deadline /\ server'.task = server.task
                   /\ UNCHANGED tasks
                \/ /\ Suspendable /\ server'.status = "suspended"
                   /\ server'.deadline = "set"
                   /\ tasks' = [tasks EXCEPT ![a] = Task("forced_stop", "running")]
                \/ /\ Restorable /\ AdminAction[a] = "restore" /\ server'.status = "stopped"
                   /\ UNCHANGED tasks
  <2> DEFINE result == AdminResult(a)
             seen == IF result \in {"applied", "ignored"}
                     THEN [server EXCEPT !.adminSeq = a] ELSE server
  <2>1. /\ seen \in Server
        /\ seen.status = server.status /\ seen.lease = server.lease
        /\ seen.machine = server.machine /\ seen.snapshot = server.snapshot
        /\ seen.deadline = server.deadline /\ seen.task = server.task
    <3>1. a \in {0} \cup Admins
      OBVIOUS
    <3>2. seen = [server EXCEPT !.adminSeq = a] \/ seen = server
      OBVIOUS
    <3> HIDE DEF seen
    <3> QED BY <1>1, <3>1, <3>2 DEF Server
  <2>2. \/ /\ result = "applied" /\ AdminAction[a] = "suspend"
           /\ tasks' = [tasks EXCEPT ![a] = Task("forced_stop", "running")]
           /\ server' = [seen EXCEPT !.status = "suspended", !.task = a, !.deadline = "set"]
        \/ /\ result = "applied" /\ AdminAction[a] = "restore"
           /\ server' = [seen EXCEPT !.status = "stopped", !.task = None]
           /\ UNCHANGED tasks
        \/ server' = seen /\ UNCHANGED tasks
    BY <1>5 DEF Administer
  <2>3. result = "applied" => \/ AdminAction[a] = "suspend" /\ Suspendable
                              \/ AdminAction[a] = "restore" /\ Restorable
    BY DEF AdminResult
  <2> HIDE DEF seen, result
  <2> QED BY <2>1, <2>2, <2>3 DEF Server
<1>6. ASSUME NEW s \in Sweeps, SweepEnds(s)
      PROVE  /\ server'.machine = server.machine /\ server'.snapshot = server.snapshot
             /\ \/ /\ server'.status = server.status /\ server'.lease = server.lease
                   /\ server'.deadline = server.deadline /\ server'.task = server.task
                   /\ UNCHANGED tasks
                \/ /\ Forceable /\ server'.lease = None
                   /\ server'.status = IF server.status = "stopping" THEN "stopped" ELSE server.status
                   /\ sweeps[s] # Idle /\ tasks' = Ended(sweeps[s].task, "succeeded")
  <2>1. sweeps[s] # Idle
    BY <1>6, IdleIs DEF SweepEnds
  <2>2. \/ UNCHANGED <<tasks, server>>
        \/ /\ Forceable /\ tasks' = Ended(sweeps[s].task, "succeeded")
           /\ \/ server' = [Down(server) EXCEPT !.task = sweeps[s].task]
              \/ server' = Down(server)
    BY <1>6 DEF SweepEnds, aggregate
  <2> DEFINE down == Down(server)
  <2>3. /\ down.lease = None /\ down.machine = server.machine /\ down.snapshot = server.snapshot
        /\ down.status = IF server.status = "stopping" THEN "stopped" ELSE server.status
        /\ down \in Server
    BY <1>1, DownIs
  <2> HIDE DEF down
  <2>4. server' = [down EXCEPT !.task = sweeps[s].task] \/ server' = down \/ UNCHANGED server
    BY <2>2 DEF down
  <2>5. CASE UNCHANGED <<tasks, server>>
    BY <2>5
  <2>6. CASE ~UNCHANGED <<tasks, server>>
    <3>1. /\ Forceable /\ tasks' = Ended(sweeps[s].task, "succeeded")
          /\ \/ server' = [down EXCEPT !.task = sweeps[s].task]
             \/ server' = down
      BY <2>2, <2>6 DEF down
    <3> QED BY <2>1, <2>3, <3>1 DEF Server
  <2> QED BY <2>5, <2>6
<1>7. CASE \E b \in Settlements : RequireStop(b)
  BY <1>1, <1>2, <1>3, <1>7
<1>8. CASE \E b \in Settlements : RuntimeStopped(b)
  BY <1>1, <1>2, <1>4, <1>8
<1>9. CASE \E a \in Admins : Administer(a)
  <2>1. Admins # {}
    BY <1>9
  <2> QED BY <1>1, <1>2, <1>5, <1>9, <2>1
<1>10. CASE \E s \in Sweeps : SweepEnds(s)
  BY <1>1, <1>2, <1>6, <1>10
<1> QED
  BY <1>7, <1>8, <1>9, <1>10

(* What the rest makes of it: no machine goes.                             *)
LEMMA RestIs ==
    ASSUME ServerControlAssumption, Typed,
           \/ \E type \in {"healthy", "stopped"} : Send(type)
           \/ \E r \in Reports : (\E ev \in mail : Receive(r, ev)) \/ Ask(r)
           \/ \E m \in Machines : HaltAfter(m)
           \/ \E a \in Admins : Complete(a) \/ AdminDies(a)
           \/ DeadlinePasses
           \/ \E s \in Sweeps : (\E t \in TaskIds : Sweep(s, t)) \/ SweepHalts(s)
           \/ UNCHANGED vars
    PROVE  /\ server'.status = server.status /\ server'.lease = server.lease
           /\ server'.machine = server.machine /\ server'.snapshot = server.snapshot
           /\ server'.task = server.task
           /\ \/ server'.deadline = server.deadline
              \/ server.deadline = "set" /\ server'.deadline = "passed"
           /\ UNCHANGED <<tasks, execs, creates>>
           /\ \A m \in Machines : Exists(m) => vultr'[m] # "none"
<1>1. UNCHANGED <<tasks, execs, creates>>
  BY DEF Send, Receive, Ask, HaltAfter, Complete, AdminDies, DeadlinePasses, Sweep, SweepHalts,
         aggregate, outside, events, running, vars
<1>2. \/ server' = server
      \/ server.deadline = "set" /\ server' = [server EXCEPT !.deadline = "passed"]
  BY DEF Send, Receive, Ask, HaltAfter, Complete, AdminDies, DeadlinePasses, Sweep, SweepHalts,
         aggregate, outside, events, running, vars
<1>3. vultr' = vultr \/ \E m : vultr' = [vultr EXCEPT ![m] = "off"]
  <2>1. ASSUME NEW r \in Reports, Ask(r)
        PROVE  vultr' = vultr \/ \E m : vultr' = [vultr EXCEPT ![m] = "off"]
    BY <2>1 DEF Ask
  <2>2. ASSUME NEW s \in Sweeps, SweepHalts(s)
        PROVE  vultr' = vultr \/ \E m : vultr' = [vultr EXCEPT ![m] = "off"]
    BY <2>2 DEF SweepHalts
  <2>3. ASSUME NEW m \in Machines, HaltAfter(m)
        PROVE  vultr' = vultr \/ \E n : vultr' = [vultr EXCEPT ![n] = "off"]
    BY <2>3 DEF HaltAfter
  <2>4. CASE \/ \E type \in {"healthy", "stopped"} : Send(type)
             \/ \E r \in Reports, ev \in mail : Receive(r, ev)
             \/ \E a \in Admins : Complete(a) \/ AdminDies(a)
             \/ DeadlinePasses
             \/ \E s \in Sweeps, t \in TaskIds : Sweep(s, t)
             \/ UNCHANGED vars
    <3>1. vultr' = vultr
      BY <2>4 DEF Send, Receive, Complete, AdminDies, DeadlinePasses, Sweep,
           aggregate, outside, events, running, vars
    <3> QED BY <3>1
  <2> QED BY <2>1, <2>2, <2>3, <2>4
<1>4. \A m \in Machines : Exists(m) => vultr'[m] # "none"
  BY <1>3, SameTypes DEF Exists
<1> QED
  BY <1>1, <1>2, <1>4, SameTypes DEF Server

LEMMA NextRuns ==
    ASSUME ServerControlAssumption, RunsOnly, Typed, Plans, Runs, [Next]_vars
    PROVE  Runs'
<1>1. First \in Machines
  BY DEF Machines
<1>2. CASE \/ \E type \in {"healthy", "stopped"} : Send(type)
           \/ \E r \in Reports : (\E ev \in mail : Receive(r, ev)) \/ Ask(r)
           \/ \E m \in Machines : HaltAfter(m)
           \/ \E a \in Admins : Complete(a) \/ AdminDies(a)
           \/ DeadlinePasses
           \/ \E s \in Sweeps : (\E t \in TaskIds : Sweep(s, t)) \/ SweepHalts(s)
           \/ UNCHANGED vars
  BY <1>1, <1>2, RestIs DEF Runs, Exists
<1>3. CASE \/ \E b \in Settlements : RequireStop(b) \/ RuntimeStopped(b)
           \/ \E a \in Admins : Administer(a)
           \/ \E s \in Sweeps : SweepEnds(s)
  BY <1>3, StopIs DEF Runs, Restorable, Forceable
<1>4. ASSUME NEW r \in Reports, Apply(r)
      PROVE  Runs'
  BY <1>4, ApplyIs DEF Runs, Stoppable
<1> QED
  BY <1>2, <1>3, <1>4, RunsExecutor, RunsOwner DEF Next

-----------------------------------------------------------------------------
(* A server that is stopped, archived and restored, without faults.        *)

ArchivesOnly == Created /\ ~Faults /\ Admins = {} /\ Ops \subseteq {"stop", "archive", "restore"}

(* One executor at a time took a task from the queue.                      *)
Alone ==
    \A e, f \in Executors :
        /\ execs[e] # Idle /\ execs[e].inside /\ execs[f] # Idle /\ execs[f].inside
        /\ execs[e].task = execs[f].task
        => e = f

Live(t) == tasks[t] # NoTask /\ tasks[t].status \in {"queued", "running"}

Shelving(e) == execs[e].pc \in {"read", "call", "remove", "archived"} /\ Op(e) = "archive"

(* An archive that is at work has the server to itself.                    *)
OneArchive ==
    /\ server.status \in {"stopped", "archiving", "archived", "restoring", "running", "stopping",
                          "billing_blocked"}
    /\ server.status \in {"stopped", "archiving", "archived"} => server.lease = None
    /\ \A t \in TaskIds : Live(t) /\ tasks[t].op = "archive" =>
          server.status = "archiving" /\ server.task = t
    /\ \A e \in Executors : Shelving(e) => tasks[execs[e].task].status = "running"
    /\ \A e \in Executors : execs[e].pc = "failed" => Op(e) # "restore"

(* The world is in a snapshot or on a machine, which nobody else removes.  *)
OneWorld ==
    /\ server.machine # None \/ server.snapshot = "fresh"
    /\ server.machine # None =>
          Exists(server.machine) \/ \E e \in Executors : execs[e].pc = "archived"
    /\ server.machine \in Keys =>
          /\ tasks[server.machine] # NoTask /\ tasks[server.machine].status # "queued"
          /\ \A e \in Executors : execs[e] # Idle /\ execs[e].inside =>
                execs[e].task # server.machine
    /\ \A e \in Executors : Shelving(e) /\ execs[e].pc \in {"call", "remove"} =>
          Machine(e) = server.machine
    /\ \A e \in Executors : execs[e].pc = "save" => Exists(execs[e].task)

LEMMA NextAlone ==
    ASSUME ServerControlAssumption, Typed, Plans, Alone, [Next]_vars
    PROVE  Alone'
<1>1. CASE UNCHANGED execs
  BY <1>1 DEF Alone
<1>2. ASSUME NEW e \in Executors, NEW r, execs' = [execs EXCEPT ![e] = r], GoesOn(e, r)
      PROVE  Alone'
  <2>1. execs'[e] = r /\ \A f \in Executors \ {e} : execs'[f] = execs[f]
    BY <1>2 DEF Typed, AtWork
  <2>2. CASE r = Idle
    BY <2>1, <2>2 DEF Alone
  <2>3. CASE r # Idle /\ execs[e] # Idle
    <3>1. r.task = execs[e].task /\ r.inside = execs[e].inside
      BY <1>2, <2>3 DEF GoesOn
    <3> QED BY <2>1, <2>3, <3>1 DEF Alone
  <2>4. CASE r # Idle /\ execs[e] = Idle
    <3>1. r.inside => tasks[r.task].status = "queued"
      BY <1>2, <2>4 DEF GoesOn, Before
    <3>2. \A f \in Executors : execs[f] # Idle => tasks[execs[f].task].status # "queued"
      BY DEF Plans
    <3> QED BY <2>1, <2>4, <3>1, <3>2 DEF Alone
  <2> QED BY <2>2, <2>3, <2>4
<1> QED
  BY <1>1, <1>2, ExecsStep

(* A step that leaves the executors alone, and where no machine goes.      *)
LEMMA ArchivalKept ==
    ASSUME Typed, Plans, OneArchive, OneWorld, UNCHANGED execs,
           server'.machine = server.machine,
           server'.snapshot = server.snapshot \/ (server'.snapshot = "old" /\ server.machine # None),
           \A m \in Machines : Exists(m) => vultr'[m] # "none",
           server'.status \in {"stopped", "archiving", "archived", "restoring", "running", "stopping",
                               "billing_blocked"},
           server'.status \in {"stopped", "archiving", "archived"} => server'.lease = None,
           \/ server'.status = "archiving" /\ server'.task = server.task
           \/ server.status # "archiving",
           \A t \in TaskIds : tasks[t] # NoTask =>
              /\ tasks'[t] # NoTask /\ tasks'[t].op = tasks[t].op
              /\ \/ tasks'[t].status = tasks[t].status
                 \/ server.status # "archiving" /\ tasks'[t].status \notin {"queued", "running"}
                 \/ tasks[t].op # "archive" /\ tasks'[t].status # "queued",
           \A t \in TaskIds : tasks[t] = NoTask /\ tasks'[t] # NoTask /\ tasks'[t].op = "archive" =>
              server'.status = "archiving" /\ server'.task = t
    PROVE  OneArchive' /\ OneWorld'
<1>1. server.machine \in Machines \cup {None}
  BY SameTypes DEF Server
<1>2. \A e \in Executors : execs[e].pc # "idle" =>
         execs[e].task \in TaskIds /\ tasks[execs[e].task] # NoTask
  BY ExecIs
<1>3. \A e \in Executors : execs[e].pc # "idle" => Op(e)' = Op(e)
  BY <1>2 DEF Op
<1>4. \A e \in Executors : Shelving(e)' => Shelving(e)
  BY <1>3 DEF Shelving
<1>5. \A e \in Executors : Shelving(e) =>
         Live(execs[e].task) /\ tasks[execs[e].task].op = "archive" /\ execs[e].task \in TaskIds
  BY <1>2 DEF OneArchive, Shelving, Live, Op
<1>6. \A e \in Executors : Shelving(e)' => tasks'[execs'[e].task].status = "running"
  <2>1. ASSUME NEW e \in Executors, Shelving(e)
        PROVE  tasks'[execs[e].task].status = "running"
    <3>1. /\ execs[e].task \in TaskIds /\ tasks[execs[e].task] # NoTask
          /\ tasks[execs[e].task].op = "archive" /\ tasks[execs[e].task].status = "running"
          /\ server.status = "archiving"
      BY <1>5, <2>1 DEF OneArchive, Live
    <3> QED BY <3>1
  <2> QED BY <1>4, <2>1
<1>7. \A t \in TaskIds : Live(t)' /\ tasks'[t].op = "archive" =>
         server'.status = "archiving" /\ server'.task = t
  <2>1. ASSUME NEW t \in TaskIds, Live(t)', tasks'[t].op = "archive", tasks[t] # NoTask
        PROVE  server'.status = "archiving" /\ server'.task = t
    <3>1. tasks[t].op = "archive" /\ tasks'[t].status \in {"queued", "running"}
      BY <2>1 DEF Live
    <3>2. tasks'[t].status = tasks[t].status
      BY <2>1, <3>1
    <3>3. Live(t)
      BY <2>1, <3>1, <3>2 DEF Live
    <3> QED BY <3>1, <3>3 DEF OneArchive
  <2> QED BY <2>1 DEF Live
<1>8. OneArchive'
  BY <1>3, <1>6, <1>7 DEF OneArchive
<1>9. \A e \in Executors : execs[e].pc = "save" => execs[e].task \in Machines
  <2>1. ASSUME NEW e \in Executors, execs[e].pc = "save"
        PROVE  execs[e].task \in Machines
    <3>1. execs[e].task \in TaskIds /\ tasks[execs[e].task] # NoTask /\ execs[e] # Idle
      BY <2>1, ExecIs, IdleIs
    <3>2. tasks[execs[e].task].op \in {"create", "restore"}
      BY <2>1, <3>1 DEF Plans, Plan, Op
    <3> QED BY <3>1, <3>2 DEF Typed, KnownTasks, Machines
  <2> QED BY <2>1
<1>10. server'.machine # None \/ server'.snapshot = "fresh"
  BY DEF OneWorld
<1>11. server'.machine # None => Exists(server.machine)' \/ \E e \in Executors : execs'[e].pc = "archived"
  BY <1>1 DEF OneWorld, Exists
<1>12. server'.machine \in Keys =>
          /\ tasks'[server'.machine] # NoTask /\ tasks'[server'.machine].status # "queued"
          /\ \A e \in Executors : execs'[e] # Idle /\ execs'[e].inside =>
                execs'[e].task # server'.machine
  <2>1. ASSUME server.machine \in Keys
        PROVE  tasks'[server.machine] # NoTask /\ tasks'[server.machine].status # "queued"
    <3>1. server.machine \in TaskIds
      BY <2>1 DEF TaskIds
    <3>2. tasks[server.machine] # NoTask /\ tasks[server.machine].status # "queued"
      BY <2>1 DEF OneWorld
    <3> QED BY <3>1, <3>2
  <2> QED BY <2>1 DEF OneWorld
<1>13. \A e \in Executors : Shelving(e)' /\ execs'[e].pc \in {"call", "remove"} =>
          Machine(e)' = server'.machine
  BY <1>4 DEF OneWorld, Machine
<1>14. \A e \in Executors : execs'[e].pc = "save" => Exists(execs[e].task)'
  BY <1>9 DEF OneWorld, Exists
<1>15. OneWorld'
  BY <1>10, <1>11, <1>12, <1>13, <1>14 DEF OneWorld, Exists
<1> QED
  BY <1>8, <1>15

LEMMA ArchivalOwner ==
    ASSUME ServerControlAssumption, ArchivesOnly, Typed, Plans, OneArchive, OneWorld, Owner
    PROVE  OneArchive' /\ OneWorld'
<1>1. UNCHANGED <<vultr, execs>> /\ \A m \in Machines : Exists(m) => vultr'[m] # "none"
  BY DEF Owner, Authorize, Commit, Stop, Archive, Delete, outside, running, Exists
<1>2. server \in Server /\ \A k \in Keys : k \in TaskIds
  BY SameTypes DEF TaskIds
<1>3. ASSUME UNCHANGED <<server, tasks>>
      PROVE  OneArchive' /\ OneWorld'
  BY <1>1, <1>3, ArchivalKept DEF OneArchive
<1>4. ASSUME NEW c \in Calls, NEW k \in Keys, NEW op \in Ops, Authorize(c, k, op)
      PROVE  OneArchive' /\ OneWorld'
  BY <1>3, <1>4 DEF Authorize
<1>5. ASSUME NEW c \in Calls, Commit(c), ~UNCHANGED aggregate
      PROVE  OneArchive' /\ OneWorld'
  <2> DEFINE k == calls[c].key
             op == calls[c].op
  <2>1. op = "restore" /\ k \in Keys
    BY <1>5 DEF Commit, Typed, AtWork, Asking, ArchivesOnly
  <2>2. /\ tasks[k] = NoTask /\ MayBegin(op)
        /\ tasks'[k] = [op |-> op, status |-> "queued"]
        /\ \A t \in TaskIds \ {k} : tasks'[t] = tasks[t]
        /\ server'.machine = server.machine /\ server'.snapshot = server.snapshot
        /\ server'.status = "restoring"
    BY <1>5, <2>1, CommitIs
  <2>3. tasks'[k] # NoTask /\ tasks'[k].op = "restore" /\ server.status = "archived"
    BY <2>1, <2>2 DEF NoTask, MayBegin
  <2> HIDE DEF k, op
  <2> QED BY <1>1, <1>2, <2>1, <2>2, <2>3, ArchivalKept
<1>6. ASSUME NEW k \in Keys, NEW op \in {"stop", "archive"}, NEW status \in {"queued", "running"},
             op \in Ops, tasks[k] = NoTask, tasks' = [tasks EXCEPT ![k] = Task(op, status)]
      PROVE  /\ tasks'[k] = [op |-> op, status |-> status] /\ tasks'[k] # NoTask
             /\ \A u \in TaskIds \ {k} : tasks'[u] = tasks[u]
  <2>1. k \in TaskIds /\ op \in Ops \cup {"forced_stop"} /\ (op # "forced_stop" <=> k \in Keys)
    BY <1>2, <1>6
  <2>2. /\ tasks'[k] = [op |-> op, status |-> status]
        /\ \A u \in TaskIds \ {k} : tasks'[u] = tasks[u]
    BY <1>6, <2>1, TaskAdded
  <2> QED BY <2>2 DEF NoTask
<1>7. ASSUME NEW k \in Keys, Stop(k)
      PROVE  OneArchive' /\ OneWorld'
  <2>1. "stop" \in Ops /\ tasks[k] = NoTask /\ tasks' = [tasks EXCEPT ![k] = Task("stop", "running")]
    BY <1>7 DEF Stop, New, Replays
  <2>2. /\ tasks'[k] = [op |-> "stop", status |-> "running"] /\ tasks'[k] # NoTask
        /\ \A u \in TaskIds \ {k} : tasks'[u] = tasks[u]
    BY <1>6, <2>1
  <2>3. /\ server.status \in {"running", "starting"} /\ server'.status = "stopping"
        /\ server'.machine = server.machine /\ server'.snapshot = server.snapshot
    BY <1>2, <1>7 DEF Stop, Server
  <2> QED BY <1>1, <1>2, <2>1, <2>2, <2>3, ArchivalKept
<1>8. ASSUME NEW k \in Keys, Archive(k)
      PROVE  OneArchive' /\ OneWorld'
  <2>1. "archive" \in Ops /\ tasks[k] = NoTask
        /\ tasks' = [tasks EXCEPT ![k] = Task("archive", "queued")]
    BY <1>8 DEF Archive, New, Replays
  <2>2. /\ tasks'[k] = [op |-> "archive", status |-> "queued"] /\ tasks'[k] # NoTask
        /\ \A u \in TaskIds \ {k} : tasks'[u] = tasks[u]
    BY <1>6, <2>1
  <2>3. /\ server.status = "stopped" /\ server'.status = "archiving" /\ server'.task = k
        /\ server'.lease = server.lease
        /\ server'.machine = server.machine /\ server'.snapshot = server.snapshot
    BY <1>2, <1>8 DEF Archive, Server
  <2>4. server'.lease = None
    BY <2>3 DEF OneArchive
  <2> QED BY <1>1, <1>2, <2>1, <2>2, <2>3, <2>4, ArchivalKept
<1>9. ASSUME NEW k \in Keys, Delete(k)
      PROVE  FALSE
  BY <1>9 DEF Delete, New, ArchivesOnly
<1> QED
  BY <1>3, <1>4, <1>5, <1>7, <1>8, <1>9 DEF Owner, aggregate

LEMMA ArchivalRest ==
    ASSUME ServerControlAssumption, ArchivesOnly, Typed, Plans, OneArchive, OneWorld,
           \/ \E type \in {"healthy", "stopped"} : Send(type)
           \/ \E r \in Reports : (\E ev \in mail : Receive(r, ev)) \/ Ask(r)
           \/ \E m \in Machines : HaltAfter(m)
           \/ \E a \in Admins : Complete(a) \/ AdminDies(a)
           \/ DeadlinePasses
           \/ \E s \in Sweeps : (\E t \in TaskIds : Sweep(s, t)) \/ SweepHalts(s)
           \/ UNCHANGED vars
    PROVE  OneArchive' /\ OneWorld'
<1>1. /\ server'.status = server.status /\ server'.lease = server.lease
      /\ server'.machine = server.machine /\ server'.snapshot = server.snapshot
      /\ server'.task = server.task
      /\ UNCHANGED <<tasks, execs>>
      /\ \A m \in Machines : Exists(m) => vultr'[m] # "none"
  BY RestIs
<1> QED
  BY <1>1, ArchivalKept DEF OneArchive

LEMMA ArchivalEvents ==
    ASSUME ServerControlAssumption, ArchivesOnly, Typed, Plans, OneArchive, OneWorld,
           \/ \E r \in Reports : Apply(r)
           \/ \E b \in Settlements : RequireStop(b) \/ RuntimeStopped(b)
           \/ \E a \in Admins : Administer(a)
           \/ \E s \in Sweeps : SweepEnds(s)
    PROVE  OneArchive' /\ OneWorld'
<1>1. ASSUME server.status # "archiving", tasks' = CurrentSucceeded
      PROVE  \A t \in TaskIds :
                /\ tasks[t] # NoTask =>
                     /\ tasks'[t] # NoTask /\ tasks'[t].op = tasks[t].op
                     /\ \/ tasks'[t].status = tasks[t].status
                        \/ server.status # "archiving" /\ tasks'[t].status \notin {"queued", "running"}
                        \/ tasks[t].op # "archive" /\ tasks'[t].status # "queued"
                /\ tasks[t] = NoTask => tasks'[t] = NoTask
  BY <1>1, Current
<1>2. ASSUME NEW r \in Reports, Apply(r)
      PROVE  OneArchive' /\ OneWorld'
  <2>1. /\ server'.machine = server.machine /\ server'.task = server.task
        /\ UNCHANGED <<vultr, execs>>
        /\ \A m \in Machines : Exists(m) => vultr'[m] # "none"
    BY <1>2, ApplyIs DEF Exists
  <2>2. CASE /\ server.status \in {"starting", "restoring"} /\ server'.status = "running"
             /\ server'.snapshot = Aged(server.snapshot)
             /\ tasks' = CurrentSucceeded
    <3>1. server'.snapshot = server.snapshot \/ (server'.snapshot = "old" /\ server.machine # None)
      BY <2>2 DEF Aged
    <3> QED BY <1>1, <2>1, <2>2, <3>1, ArchivalKept
  <2>3. CASE /\ server.status \in Stoppable
             /\ server'.status = IF server.status = "stopping" THEN "stopped" ELSE server.status
             /\ server'.lease = None /\ server'.snapshot = server.snapshot
             /\ tasks' = CurrentSucceeded
    BY <1>1, <2>1, <2>3, ArchivalKept DEF Stoppable, OneArchive
  <2>4. CASE /\ server'.status = server.status /\ server'.lease = server.lease
             /\ server'.snapshot = server.snapshot
             /\ UNCHANGED tasks
    BY <2>1, <2>4, ArchivalKept DEF OneArchive
  <2> QED BY <1>2, <2>2, <2>3, <2>4, ApplyIs
<1>3. CASE \/ \E b \in Settlements : RequireStop(b) \/ RuntimeStopped(b)
           \/ \E a \in Admins : Administer(a)
           \/ \E s \in Sweeps : SweepEnds(s)
  <2>1. /\ server'.machine = server.machine /\ server'.snapshot = server.snapshot
        /\ UNCHANGED <<vultr, execs>>
        /\ \A m \in Machines : Exists(m) => vultr'[m] # "none"
    BY <1>3, StopIs DEF Exists
  <2>2. CASE /\ server'.status = server.status /\ server'.lease = server.lease
             /\ server'.task = server.task /\ UNCHANGED tasks
    BY <2>1, <2>2, ArchivalKept DEF OneArchive
  <2>3. CASE /\ server.status = "running" /\ server'.status = "billing_blocked"
             /\ \E t \in TaskIds \ Keys :
                   tasks' = [tasks EXCEPT ![t] = Task("forced_stop", "running")]
    <3>1. PICK t \in TaskIds \ Keys : tasks' = [tasks EXCEPT ![t] = Task("forced_stop", "running")]
      BY <2>3
    <3>2. "forced_stop" \in Ops \cup {"forced_stop"}
      OBVIOUS
    <3>3. /\ tasks'[t] = [op |-> "forced_stop", status |-> "running"]
          /\ \A u \in TaskIds \ {t} : tasks'[u] = tasks[u]
      BY <3>1, <3>2, TaskAdded
    <3>4. tasks'[t] # NoTask /\ (tasks[t] # NoTask => tasks[t].op = "forced_stop")
      BY <3>3 DEF NoTask, Typed, KnownTasks
    <3> QED BY <2>1, <2>3, <3>3, <3>4, ArchivalKept
  <2>4. CASE /\ server.status = "billing_blocked" /\ server'.status = "stopped"
             /\ server'.lease = None /\ tasks' = CurrentSucceeded
    BY <1>1, <2>1, <2>4, ArchivalKept
  <2>5. CASE /\ Forceable /\ server'.lease = None
             /\ server'.status = IF server.status = "stopping" THEN "stopped" ELSE server.status
             /\ \E s \in Sweeps : /\ sweeps[s] # Idle
                                  /\ tasks' = Ended(sweeps[s].task, "succeeded")
    <3>1. PICK s \in Sweeps : sweeps[s] # Idle /\ tasks' = Ended(sweeps[s].task, "succeeded")
      BY <2>5
    <3> DEFINE t == sweeps[s].task
    <3>2. t \in TaskIds /\ tasks[t] # NoTask
      BY <3>1, SameRest
    <3>3. /\ tasks'[t] = [op |-> tasks[t].op, status |-> "succeeded"]
          /\ \A u \in TaskIds \ {t} : tasks'[u] = tasks[u]
      BY <3>1, <3>2, TasksKept DEF Typed
    <3>4. tasks'[t] # NoTask
      BY <3>3 DEF NoTask
    <3> HIDE DEF t
    <3> QED BY <2>1, <2>5, <3>2, <3>3, <3>4, ArchivalKept DEF Forceable, OneArchive
  <2>6. Admins = {}
    BY DEF ArchivesOnly
  <2> QED BY <1>3, <2>2, <2>3, <2>4, <2>5, <2>6, StopIs
<1> QED
  BY <1>2, <1>3

(* A step of executor e that leaves the server and the tasks alone, and    *)
(* where no machine goes.                                                  *)
LEMMA ArchivalAt ==
    ASSUME Typed, Plans, OneArchive, OneWorld, NEW e \in Executors, NEW r,
           execs' = [execs EXCEPT ![e] = r], UNCHANGED <<server, tasks>>,
           \A m \in Machines : Exists(m) => vultr'[m] # "none",
           execs[e].pc # "archived", r.pc # "archived",
           \/ r = Idle
           \/ /\ r.pc \in {"read", "call", "remove"} /\ tasks[r.task].op = "archive" =>
                   Shelving(e) /\ r.task = execs[e].task
              /\ r.pc \in {"call", "remove"} /\ tasks[r.task].op = "archive" =>
                   r.machine = server.machine
              /\ r.pc = "save" => r.task \in Machines /\ vultr'[r.task] # "none"
              /\ r.pc = "failed" => tasks[r.task].op # "restore"
              /\ r.inside => execs[e] # Idle /\ execs[e].inside /\ r.task = execs[e].task
    PROVE  OneArchive' /\ OneWorld'
<1>1. execs'[e] = r /\ \A f \in Executors \ {e} : execs'[f] = execs[f]
  BY DEF Typed, AtWork
<1>2. Idle.pc = "idle"
  BY IdleIs
<1>3. \A f \in Executors : Shelving(f)' => Shelving(f) /\ execs'[f].task = execs[f].task
  <2>1. Shelving(e)' => Shelving(e) /\ execs'[e].task = execs[e].task
    BY <1>1, <1>2 DEF Shelving, Op
  <2> QED BY <1>1, <2>1 DEF Shelving, Op
<1>4. \A f \in Executors : execs'[f].pc = "failed" => Op(f)' # "restore"
  BY <1>1, <1>2 DEF OneArchive, Op
<1>5. OneArchive'
  BY <1>3, <1>4 DEF OneArchive, Live
<1>6. server.machine \in Machines \cup {None}
  BY SameTypes DEF Server
<1>7. server.machine # None => Exists(server.machine)' \/ \E f \in Executors : execs'[f].pc = "archived"
  BY <1>1, <1>6 DEF OneWorld, Exists
<1>8. server.machine \in Keys =>
         \A f \in Executors : execs'[f] # Idle /\ execs'[f].inside => execs'[f].task # server.machine
  BY <1>1 DEF OneWorld
<1>9. \A f \in Executors : Shelving(f)' /\ execs'[f].pc \in {"call", "remove"} =>
         Machine(f)' = server.machine
  <2>1. ASSUME Shelving(e)', r.pc \in {"call", "remove"}
        PROVE  r.machine = server.machine
    BY <1>1, <1>2, <2>1 DEF Shelving, Op
  <2> QED BY <1>1, <1>3, <2>1 DEF OneWorld, Machine
<1>10. \A f \in Executors : execs'[f].pc = "save" => vultr'[execs'[f].task] # "none"
  <2>1. ASSUME NEW f \in Executors, execs[f].pc = "save"
        PROVE  vultr'[execs[f].task] # "none"
    <3>1. execs[f].task \in TaskIds /\ tasks[execs[f].task] # NoTask /\ execs[f] # Idle
      BY <2>1, ExecIs, IdleIs
    <3>2. tasks[execs[f].task].op \in {"create", "restore"}
      BY <2>1, <3>1 DEF Plans, Plan, Op
    <3>3. execs[f].task \in Machines
      BY <3>1, <3>2 DEF Typed, KnownTasks, Machines
    <3> QED BY <2>1, <3>3 DEF OneWorld, Exists
  <2> QED BY <1>1, <1>2, <2>1 DEF Exists
<1> QED
  BY <1>5, <1>7, <1>8, <1>9, <1>10 DEF OneWorld, Exists

LEMMA ArchivalExecutor ==
    ASSUME ServerControlAssumption, ArchivesOnly, Typed, Plans, Alone, OneArchive, OneWorld,
           NEW e \in Executors, Executor(e) \/ ExecutorDies(e)
    PROVE  OneArchive' /\ OneWorld'
<1> DEFINE t == execs[e].task
<1>1. execs[e].pc # "idle" =>
         /\ Op(e) \in {"stop", "archive", "restore", "forced_stop"} /\ Plan(execs[e], Op(e))
         /\ execs[e] \in Executing /\ t \in TaskIds /\ tasks[t] # NoTask /\ execs[e] # Idle
         /\ (Op(e) # "forced_stop" => t \in Keys)
  BY ExecIs, IdleIs DEF TaskRecord, Op, ArchivesOnly, Plans, Typed, KnownTasks
<1>2. /\ server \in Server /\ vultr \in [Machines -> {"none", "on", "off"}]
      /\ Keys \subseteq Machines /\ None \notin Machines
  BY SameTypes DEF Machines, ServerControlAssumption
<1>3. Idle.pc = "idle" /\ ~Faults
  BY IdleIs DEF ArchivesOnly
<1>4. CASE Halt(e) \/ Gone(e) \/ ReleaseCreate(e) \/ ExecutorDies(e)
  BY <1>1, <1>3, <1>4 DEF Halt, Gone, ReleaseCreate, ExecutorDies, Plan
<1>5. ASSUME UNCHANGED <<server, tasks, vultr>>, execs[e].pc # "archived", Ends(e)
      PROVE  OneArchive' /\ OneWorld'
  <2>1. execs' = [execs EXCEPT ![e] = Idle] /\ \A m \in Machines : Exists(m) => vultr'[m] # "none"
    BY <1>5 DEF Ends, Exists
  <2> QED BY <1>3, <1>5, <2>1, ArchivalAt
<1>6. CASE ReadServer(e)
  <2> DEFINE pc == CASE Op(e) \in {"create", "restore"} -> "call"
                     [] Op(e) = "delete" /\ server.machine = None -> "gone"
                     [] Op(e) \notin {"create", "restore", "delete"} /\ server.machine = None -> "failed"
                     [] OTHER -> "call"
             r == [execs[e] EXCEPT !.machine = server.machine, !.pc = pc]
  <2>1. execs[e].pc = "read" /\ UNCHANGED <<server, tasks, vultr>>
    BY <1>6 DEF ReadServer, aggregate
  <2>2. execs' = [execs EXCEPT ![e] = r]
    <3>1. execs' = [execs EXCEPT ![e].machine = server.machine, ![e].pc = pc]
      BY <1>6 DEF ReadServer
    <3> HIDE DEF pc
    <3> QED BY <3>1 DEF Typed, AtWork
  <2>3. pc = "call" \/ (pc = "failed" /\ Op(e) # "restore")
    <3>1. Op(e) \in {"stop", "archive", "restore", "forced_stop"}
      BY <1>1, <2>1
    <3>2. CASE Op(e) = "restore"
      BY <3>2
    <3>3. CASE Op(e) \in {"stop", "archive", "forced_stop"} /\ server.machine = None
      BY <3>3
    <3>4. CASE Op(e) \in {"stop", "archive", "forced_stop"} /\ server.machine # None
      BY <3>4
    <3> QED BY <3>1, <3>2, <3>3, <3>4
  <2> HIDE DEF pc
  <2>4. r.pc = pc /\ r.task = t /\ r.inside = execs[e].inside /\ r.machine = server.machine
    BY <1>1, <2>1 DEF Executing
  <2> HIDE DEF r
  <2>5. \A m \in Machines : Exists(m) => vultr'[m] # "none"
    BY <2>1 DEF Exists
  <2> QED BY <1>1, <2>1, <2>2, <2>3, <2>4, <2>5, ArchivalAt DEF Shelving, Op
<1>7. CASE Create(e)
  <2> DEFINE r == [execs[e] EXCEPT !.pc = "save", !.machine = t]
  <2>1. /\ execs[e].pc = "call" /\ Op(e) = "restore" /\ t \in Keys
        /\ vultr' = [vultr EXCEPT ![t] = "on"] /\ UNCHANGED <<server, tasks>>
    BY <1>1, <1>3, <1>7 DEF Create, aggregate
  <2>2. execs' = [execs EXCEPT ![e] = r]
    BY <1>3, <1>7 DEF Create, Typed, AtWork
  <2>3. r.pc = "save" /\ r.task = t /\ r.inside = execs[e].inside
    BY <1>1, <2>1 DEF Executing
  <2> HIDE DEF r
  <2>4. vultr'[t] # "none" /\ \A m \in Machines : Exists(m) => vultr'[m] # "none"
    BY <1>2, <2>1 DEF Exists
  <2> QED BY <1>1, <1>2, <2>1, <2>2, <2>3, <2>4, ArchivalAt
<1>8. CASE Call(e)
  <2>1. execs[e].pc = "call" /\ execs[e].inside
    BY <1>1, <1>8 DEF Call, Plan
  <2>2. /\ Op(e) = "archive" /\ UNCHANGED <<server, tasks>>
        /\ Provider(e, Exists(Machine(e)), vultr[Machine(e)], "remove")
    BY <1>1, <1>8, <2>1 DEF Call, aggregate
  <2>3. Machine(e) = server.machine /\ Shelving(e)
    BY <2>1, <2>2 DEF OneWorld, Shelving
  <2>4. /\ vultr' = vultr \/ vultr' = [vultr EXCEPT ![Machine(e)] = vultr[Machine(e)]]
        /\ Goto(e, "remove") \/ Goto(e, "failed")
    BY <1>3, <2>1, <2>2 DEF Provider
  <2>5. \A m \in Machines : Exists(m) => vultr'[m] # "none"
    BY <1>2, <2>4 DEF Exists
  <2>6. ASSUME NEW pc \in {"remove", "failed"}, Goto(e, pc)
        PROVE  OneArchive' /\ OneWorld'
    <3> DEFINE r == [execs[e] EXCEPT !.pc = pc]
    <3>1. execs' = [execs EXCEPT ![e] = r]
      BY <2>6 DEF Goto
    <3>2. r.pc = pc /\ r.task = t /\ r.inside = execs[e].inside /\ r.machine = execs[e].machine
      BY <1>1, <2>1 DEF Executing
    <3> HIDE DEF r
    <3> QED BY <1>1, <2>1, <2>2, <2>3, <2>5, <3>1, <3>2, ArchivalAt DEF Op, Machine
  <2> QED BY <2>4, <2>6
<1>9. CASE Reconcile(e)
  <2>1. execs[e].pc = "reconcile" /\ UNCHANGED <<tasks, vultr>>
    BY <1>9 DEF Reconcile
  <2>2. tasks[t].op # "create"
    BY <1>1, <2>1 DEF Op
  <2>3. UNCHANGED server
    BY <1>9, <2>2 DEF Reconcile
  <2>4. CASE Ends(e)
    BY <1>5, <2>1, <2>3, <2>4
  <2>5. CASE ~Ends(e)
    <3>1. PICK m : execs' = [execs EXCEPT ![e].pc = "look", ![e].machine = m]
      BY <1>9, <2>5 DEF Reconcile
    <3> DEFINE r == [execs[e] EXCEPT !.pc = "look", !.machine = m]
    <3>2. execs' = [execs EXCEPT ![e] = r]
      BY <3>1 DEF Typed, AtWork
    <3>3. r.pc = "look" /\ r.task = t /\ r.inside = execs[e].inside
      BY <1>1, <2>1 DEF Executing
    <3> HIDE DEF r
    <3>4. \A n \in Machines : Exists(n) => vultr'[n] # "none"
      BY <2>1 DEF Exists
    <3> QED BY <1>1, <2>1, <2>3, <3>2, <3>3, <3>4, ArchivalAt
  <2> QED BY <2>4, <2>5
<1>10. CASE Look(e)
  <2>1. execs[e].pc = "look" /\ UNCHANGED <<server, tasks>> /\ Op(e) # "create"
    BY <1>1, <1>10 DEF Look, aggregate
  <2>2. PICK power : /\ vultr' = [vultr EXCEPT ![Machine(e)] = vultr[Machine(e)]]
                     /\ execs' = [execs EXCEPT ![e].pc = "decide", ![e].seen = power]
    BY <1>3, <1>10, <2>1 DEF Look
  <2> DEFINE r == [execs[e] EXCEPT !.pc = "decide", !.seen = power]
  <2>3. execs' = [execs EXCEPT ![e] = r]
    BY <2>2 DEF Typed, AtWork
  <2>4. r.pc = "decide" /\ r.task = t /\ r.inside = execs[e].inside
    BY <1>1, <2>1 DEF Executing
  <2> HIDE DEF r
  <2>5. \A n \in Machines : Exists(n) => vultr'[n] # "none"
    BY <1>2, <2>2 DEF Exists
  <2> QED BY <1>1, <2>1, <2>3, <2>4, <2>5, ArchivalAt
<1>11. CASE Decide(e)
  <2>1. ~Confirms(e)
    BY <1>1, <1>11 DEF Decide, Confirms
  <2>2. UNCHANGED <<server, tasks, vultr>> /\ Ends(e) /\ execs[e].pc # "archived"
    BY <1>1, <1>11, <2>1 DEF Decide
  <2> QED BY <1>5, <2>2
<1>12. ASSUME NEW u \in TaskIds, Execute(e, u)
       PROVE  OneArchive' /\ OneWorld'
  <2> DEFINE r(pc, inside) == [pc |-> pc, task |-> u, machine |-> None, inside |-> inside,
                               seen |-> "none"]
  <2>1. execs[e] = Idle /\ tasks[u] # NoTask /\ UNCHANGED <<server, vultr>>
    BY <1>12 DEF Execute
  <2>2. CASE ~Queued(u) /\ UNCHANGED tasks /\ execs' = [execs EXCEPT ![e] = r("reconcile", FALSE)]
    <3>1. \A m \in Machines : Exists(m) => vultr'[m] # "none"
      BY <2>1 DEF Exists
    <3> DEFINE q == r("reconcile", FALSE)
    <3>2. q.pc = "reconcile" /\ ~q.inside
      OBVIOUS
    <3>3. execs' = [execs EXCEPT ![e] = q]
      BY <2>2
    <3> HIDE DEF q
    <3> QED BY <1>3, <2>1, <2>2, <3>1, <3>2, <3>3, ArchivalAt
  <2>3. CASE /\ Queued(u) /\ tasks' = Ended(u, "running")
             /\ execs' = [execs EXCEPT ![e] = r("read", TRUE)]
    <3>1. /\ tasks'[u] = [op |-> tasks[u].op, status |-> "running"]
          /\ \A w \in TaskIds \ {u} : tasks'[w] = tasks[w]
      BY <2>1, <2>3, TasksKept DEF Typed
    <3>2. tasks'[u] # NoTask /\ tasks'[u].op = tasks[u].op /\ tasks'[u].status = "running"
      BY <3>1 DEF NoTask
    <3>3. execs'[e] = r("read", TRUE) /\ \A f \in Executors \ {e} : execs'[f] = execs[f]
      BY <2>3 DEF Typed, AtWork
    <3>4. \A f \in Executors : execs[f].pc # "idle" => execs[f].task # u /\ execs[f].task \in TaskIds
      BY <2>3, ExecIs, IdleIs DEF Plans, Queued
    <3>5. \A f \in Executors \ {e} : /\ Shelving(f)' => Shelving(f)
                                     /\ execs[f].pc # "idle" => Op(f)' = Op(f)
                                     /\ Shelving(f) => tasks'[execs[f].task] = tasks[execs[f].task]
      BY <3>1, <3>3, <3>4 DEF Shelving, Op
    <3>6. \A w \in TaskIds : Live(w)' /\ tasks'[w].op = "archive" => Live(w) /\ tasks[w].op = "archive"
      BY <2>1, <2>3, <3>1, <3>2 DEF Live, Queued
    <3>7. \A f \in Executors : Shelving(f)' => tasks'[execs'[f].task].status = "running"
      BY <3>2, <3>3, <3>5 DEF OneArchive
    <3>8. \A f \in Executors : execs'[f].pc = "failed" => Op(f)' # "restore"
      BY <3>3, <3>5 DEF OneArchive
    <3>9. OneArchive'
      BY <2>1, <3>6, <3>7, <3>8 DEF OneArchive
    <3>10. server.machine \in Keys =>
              /\ tasks'[server.machine] # NoTask /\ tasks'[server.machine].status # "queued"
              /\ \A f \in Executors : execs'[f] # Idle /\ execs'[f].inside =>
                    execs'[f].task # server.machine
      <4>1. server.machine \in Keys => server.machine # u /\ server.machine \in TaskIds
        BY <2>3 DEF OneWorld, Queued, TaskIds
      <4> QED BY <3>1, <3>3, <4>1 DEF OneWorld
    <3>11. \A f \in Executors : Shelving(f)' /\ execs'[f].pc \in {"call", "remove"} =>
              Machine(f)' = server.machine
      BY <3>3, <3>5 DEF OneWorld, Machine
    <3>12. \A f \in Executors : execs'[f].pc = "save" => vultr'[execs'[f].task] # "none"
      BY <2>1, <3>3 DEF OneWorld, Exists
    <3>13. server.machine # None => Exists(server.machine)' \/ \E f \in Executors : execs'[f].pc = "archived"
      BY <1>3, <2>1, <3>3 DEF OneWorld, Exists
    <3>14. OneWorld'
      BY <2>1, <3>10, <3>11, <3>12, <3>13 DEF OneWorld, Exists
    <3> QED BY <3>9, <3>14
  <2> QED BY <1>12, <2>2, <2>3 DEF Execute
<1>13. ASSUME execs[e].pc # "idle"
       PROVE  \A f \in Executors \ {e} :
                 execs[f] # Idle /\ execs[f].inside /\ execs[e].inside => execs[f].task # t
  BY <1>1, <1>13 DEF Alone
(* What the other executors were, they are.                                *)
<1>14. ASSUME NEW r, execs' = [execs EXCEPT ![e] = r]
       PROVE  execs'[e] = r /\ \A f \in Executors \ {e} : execs'[f] = execs[f]
  BY <1>14 DEF Typed, AtWork
<1>15. \A f \in Executors : execs[f].pc = "save" =>
          execs[f] # Idle /\ execs[f].inside /\ execs[f].task \in Keys
  <2>1. ASSUME NEW f \in Executors, execs[f].pc = "save"
        PROVE  execs[f] # Idle /\ execs[f].inside /\ execs[f].task \in Keys
    <3>1. execs[f].task \in TaskIds /\ tasks[execs[f].task] # NoTask /\ execs[f] # Idle
      BY <2>1, ExecIs, IdleIs
    <3>2. tasks[execs[f].task].op \in {"create", "restore"} /\ execs[f].inside
      BY <2>1, <3>1 DEF Plans, Plan, Op
    <3> QED BY <3>1, <3>2 DEF Typed, KnownTasks
  <2> QED BY <2>1
<1>16. \A f \in Executors : Shelving(f) =>
          /\ execs[f] # Idle /\ execs[f].inside /\ execs[f].task \in TaskIds
          /\ tasks[execs[f].task] # NoTask
          /\ server.status = "archiving" /\ server.task = execs[f].task
          /\ tasks[execs[f].task].op = "archive" /\ tasks[execs[f].task].status = "running"
  <2>1. ASSUME NEW f \in Executors, Shelving(f)
        PROVE  /\ execs[f] # Idle /\ execs[f].inside /\ execs[f].task \in TaskIds
               /\ tasks[execs[f].task] # NoTask
               /\ server.status = "archiving" /\ server.task = execs[f].task
               /\ tasks[execs[f].task].op = "archive" /\ tasks[execs[f].task].status = "running"
    <3>1. execs[f].task \in TaskIds /\ tasks[execs[f].task] # NoTask /\ execs[f] # Idle
      BY <2>1, ExecIs, IdleIs DEF Shelving
    <3>2. execs[f].inside
      BY <2>1, <3>1 DEF Plans, Plan, Shelving
    <3>3. tasks[execs[f].task].op = "archive" /\ tasks[execs[f].task].status = "running"
      BY <2>1 DEF Shelving, Op, OneArchive
    <3> QED BY <3>1, <3>2, <3>3 DEF OneArchive, Live
  <2> QED BY <2>1
<1>17. CASE Remove(e)
  <2>1. execs[e].pc = "remove" /\ Op(e) = "archive" /\ UNCHANGED <<server, tasks>> /\ Shelving(e)
    BY <1>1, <1>17 DEF Remove, Plan, aggregate, Shelving
  <2>2. Machine(e) = server.machine
    BY <2>1 DEF OneWorld
  <2>3. vultr' = [vultr EXCEPT ![server.machine] = "none"] /\ Goto(e, "archived")
    BY <1>3, <1>17, <2>2 DEF Remove, Provider
  <2> DEFINE r == [execs[e] EXCEPT !.pc = "archived"]
  <2>4. execs' = [execs EXCEPT ![e] = r]
    BY <2>3 DEF Goto
  <2>5. r.pc = "archived" /\ r.task = t /\ r.inside = execs[e].inside /\ r # Idle
    BY <1>1, <1>3, <2>1 DEF Executing
  <2> HIDE DEF r
  <2>6. execs'[e] = r /\ \A f \in Executors \ {e} : execs'[f] = execs[f]
    BY <1>14, <2>4
  <2>7. \A f \in Executors : /\ Shelving(f)' => Shelving(f) /\ execs'[f].task = execs[f].task
                             /\ execs'[f].pc = "failed" => Op(f)' # "restore"
    BY <2>1, <2>5, <2>6 DEF Shelving, Op, OneArchive
  <2>8. OneArchive'
    BY <2>1, <2>7 DEF OneArchive, Live
  <2>9. \A f \in Executors : execs'[f].pc = "save" => vultr'[execs'[f].task] # "none"
    <3>1. ASSUME NEW f \in Executors \ {e}, execs[f].pc = "save"
          PROVE  vultr'[execs[f].task] # "none"
      <4>1. execs[f] # Idle /\ execs[f].inside /\ execs[f].task \in Keys /\ Exists(execs[f].task)
        BY <1>15, <3>1 DEF OneWorld
      <4>2. execs[f].task # server.machine
        BY <4>1 DEF OneWorld
      <4> QED BY <1>2, <2>3, <4>1, <4>2 DEF Exists
    <3> QED BY <2>5, <2>6, <3>1 DEF Exists
  <2>10. server.machine \in Keys =>
            \A f \in Executors : execs'[f] # Idle /\ execs'[f].inside => execs'[f].task # server.machine
    BY <1>1, <2>1, <2>5, <2>6 DEF OneWorld
  <2>11. \A f \in Executors : Shelving(f)' /\ execs'[f].pc \in {"call", "remove"} =>
            Machine(f)' = server.machine
    BY <2>5, <2>6, <2>7 DEF OneWorld, Machine
  <2> QED BY <2>1, <2>5, <2>6, <2>8, <2>9, <2>10, <2>11 DEF OneWorld, Exists
<1>18. CASE Archived(e)
  <2>1. execs[e].pc = "archived" /\ Shelving(e) /\ Ends(e) /\ UNCHANGED vultr
    BY <1>1, <1>18 DEF Archived, Plan, Shelving
  <2>2. /\ server.status = "archiving" /\ server.task = t /\ tasks[t].op = "archive"
        /\ tasks[t].status = "running" /\ execs[e].inside /\ tasks[t] # NoTask /\ t \in TaskIds
    BY <1>16, <2>1
  <2>3. /\ server' = [server EXCEPT !.status = "archived", !.machine = None, !.snapshot = "fresh", !.task = t]
        /\ tasks' = Ended(t, "succeeded")
    BY <1>18, <2>2 DEF Archived, Shelved
  <2>4. /\ server'.status = "archived" /\ server'.machine = None /\ server'.snapshot = "fresh"
        /\ server'.lease = server.lease
    BY <1>2, <2>3 DEF Server
  <2>5. /\ tasks'[t] = [op |-> tasks[t].op, status |-> "succeeded"]
        /\ \A u \in TaskIds \ {t} : tasks'[u] = tasks[u]
    BY <2>2, <2>3, TasksKept DEF Typed
  <2>6. execs'[e] = Idle /\ \A f \in Executors \ {e} : execs'[f] = execs[f]
    BY <1>14, <2>1 DEF Ends
  <2>7. \A f \in Executors : ~Shelving(f)'
    <3>1. ASSUME NEW f \in Executors \ {e}, Shelving(f)'
          PROVE  FALSE
      <4>1. execs[f].pc \in {"read", "call", "remove", "archived"} /\ tasks'[execs[f].task].op = "archive"
        BY <2>6, <3>1 DEF Shelving, Op
      <4>2. tasks[execs[f].task].op = "archive"
        <5>1. execs[f].task \in TaskIds
          BY <4>1, ExecIs
        <5> QED BY <2>2, <2>5, <4>1, <5>1
      <4>3. Shelving(f)
        BY <4>1, <4>2 DEF Shelving, Op
      <4>4. execs[f].task = t /\ execs[f] # Idle /\ execs[f].inside
        BY <1>16, <2>2, <4>3
      <4> QED BY <1>13, <2>1, <2>2, <4>4
    <3> QED BY <1>3, <2>6, <3>1 DEF Shelving
  <2>8. \A u \in TaskIds : ~(Live(u)' /\ tasks'[u].op = "archive")
    BY <2>2, <2>5 DEF Live, OneArchive
  <2>9. \A f \in Executors : execs'[f].pc = "failed" => Op(f)' # "restore"
    <3>1. ASSUME NEW f \in Executors \ {e}, execs[f].pc = "failed"
          PROVE  tasks'[execs[f].task].op # "restore"
      <4>1. execs[f].task \in TaskIds /\ tasks[execs[f].task].op # "restore"
        BY <3>1, ExecIs DEF OneArchive, Op
      <4> QED BY <2>2, <2>5, <4>1
    <3> QED BY <1>3, <2>6, <3>1 DEF Op
  <2>10. OneArchive'
    <3>1. server'.lease = None
      BY <2>2, <2>4 DEF OneArchive
    <3> QED BY <2>4, <2>7, <2>8, <2>9, <3>1 DEF OneArchive
  <2>11. \A f \in Executors : execs'[f].pc = "save" => vultr'[execs'[f].task] # "none"
    BY <1>3, <2>1, <2>6 DEF OneWorld, Exists
  <2> QED BY <1>2, <2>4, <2>7, <2>10, <2>11 DEF OneWorld, Exists
<1>19. CASE Save(e)
  <2>1. execs[e].pc = "save" /\ UNCHANGED <<tasks, vultr>>
    BY <1>19 DEF Save
  <2>2. /\ Op(e) = "restore" /\ Machine(e) = t /\ t \in Keys /\ execs[e].inside
        /\ tasks[t].status # "queued" /\ tasks[t] # NoTask
    BY <1>1, <2>1 DEF Plan, Machine, Plans
  <2>3. Ends(e)
    BY <1>19, <2>2 DEF Save
  <2>4. CASE server.status # "restoring"
    <3>1. UNCHANGED server
      BY <1>19, <2>2, <2>4 DEF Save
    <3> QED BY <1>5, <2>1, <2>3, <3>1
  <2>5. CASE server.status = "restoring"
    <3>1. server' = [server EXCEPT !.machine = t]
      BY <1>19, <2>2, <2>5 DEF Save
    <3>2. /\ server'.machine = t /\ server'.status = "restoring" /\ server'.snapshot = server.snapshot
          /\ server'.lease = server.lease
      BY <1>2, <2>5, <3>1 DEF Server
    <3>3. execs'[e] = Idle /\ \A f \in Executors \ {e} : execs'[f] = execs[f]
      BY <1>14, <2>3 DEF Ends
    <3>4. \A f \in Executors : ~Shelving(f)'
      BY <1>3, <1>16, <2>1, <2>5, <3>3 DEF Shelving, Op
    <3>5. \A u \in TaskIds : ~(Live(u)' /\ tasks'[u].op = "archive")
      BY <2>1, <2>5 DEF Live, OneArchive
    <3>6. \A f \in Executors : execs'[f].pc = "failed" => Op(f)' # "restore"
      BY <1>3, <2>1, <3>3 DEF OneArchive, Op
    <3>7. OneArchive'
      BY <3>2, <3>4, <3>5, <3>6 DEF OneArchive
    <3>8. vultr'[t] # "none"
      BY <2>1 DEF OneWorld, Exists
    <3>9. t # None
      BY <1>2, <2>2
    <3>10. \A f \in Executors : execs'[f].pc = "save" => vultr'[execs'[f].task] # "none"
      BY <1>3, <2>1, <3>3 DEF OneWorld, Exists
    <3>11. \A f \in Executors : execs'[f] # Idle /\ execs'[f].inside => execs'[f].task # t
      BY <1>13, <2>1, <2>2, <3>3
    <3> QED BY <2>1, <2>2, <3>2, <3>4, <3>7, <3>8, <3>9, <3>10, <3>11 DEF OneWorld, Exists
  <2> QED BY <2>4, <2>5
<1>20. CASE Fail(e)
  <2>1. /\ execs[e].pc = "failed" /\ tasks' = Ended(t, "failed") /\ Ends(e) /\ UNCHANGED vultr
    BY <1>20 DEF Fail
  <2>2. Op(e) \in {"stop", "archive", "forced_stop"}
    BY <1>1, <2>1 DEF OneArchive
  <2>3. UNCHANGED server
    BY <1>20, <2>2 DEF Fail
  <2>4. t \in TaskIds /\ tasks[t] # NoTask /\ tasks[t].op # "restore" /\ execs[e].inside
    BY <1>1, <2>1, <2>2 DEF Op, Plan
  <2>5. /\ tasks'[t] = [op |-> tasks[t].op, status |-> "failed"]
        /\ \A u \in TaskIds \ {t} : tasks'[u] = tasks[u]
    BY <2>1, <2>4, TasksKept DEF Typed
  <2>6. execs'[e] = Idle /\ \A f \in Executors \ {e} : execs'[f] = execs[f]
    BY <1>14, <2>1 DEF Ends
  <2>7. \A f \in Executors : Shelving(f)' =>
           /\ Shelving(f) /\ execs[f].task # t /\ f # e /\ execs'[f] = execs[f]
           /\ tasks'[execs'[f].task] = tasks[execs[f].task]
    <3>1. ASSUME NEW f \in Executors \ {e}, Shelving(f)'
          PROVE  Shelving(f) /\ execs[f].task # t /\ execs[f].task \in TaskIds
      <4>1. execs[f].pc \in {"read", "call", "remove", "archived"} /\ execs[f].task \in TaskIds
        BY <2>6, <3>1, ExecIs DEF Shelving
      <4>2. tasks'[execs[f].task].op = "archive"
        BY <2>6, <3>1 DEF Shelving, Op
      <4>3. tasks[execs[f].task].op = "archive"
        BY <2>4, <2>5, <4>1, <4>2
      <4>4. Shelving(f)
        BY <4>1, <4>3 DEF Shelving, Op
      <4>5. execs[f] # Idle /\ execs[f].inside
        BY <1>16, <4>4
      <4> QED BY <1>13, <2>1, <2>4, <4>1, <4>4, <4>5
    <3>2. ~Shelving(e)'
      BY <1>3, <2>6 DEF Shelving
    <3> QED BY <2>5, <2>6, <3>1, <3>2
  <2>8. \A u \in TaskIds : Live(u)' /\ tasks'[u].op = "archive" => Live(u) /\ tasks[u].op = "archive"
    BY <2>5 DEF Live
  <2>9. \A f \in Executors : execs'[f].pc = "failed" => Op(f)' # "restore"
    <3>1. ASSUME NEW f \in Executors \ {e}, execs[f].pc = "failed"
          PROVE  tasks'[execs[f].task].op # "restore"
      <4>1. execs[f].task \in TaskIds /\ tasks[execs[f].task].op # "restore"
        BY <3>1, ExecIs DEF OneArchive, Op
      <4> QED BY <2>4, <2>5, <4>1
    <3> QED BY <1>3, <2>6, <3>1 DEF Op
  <2>10. OneArchive'
    BY <2>3, <2>7, <2>8, <2>9 DEF OneArchive
  <2>11. \A f \in Executors : Shelving(f)' /\ execs'[f].pc \in {"call", "remove"} =>
            Machine(f)' = server.machine
    BY <2>7 DEF OneWorld, Machine
  <2>12. server.machine \in Keys =>
            /\ tasks'[server.machine] # NoTask /\ tasks'[server.machine].status # "queued"
            /\ \A f \in Executors : execs'[f] # Idle /\ execs'[f].inside => execs'[f].task # server.machine
    <3>1. server.machine \in Keys =>
             tasks'[server.machine] # NoTask /\ tasks'[server.machine].status # "queued"
      <4>1. tasks'[t] # NoTask /\ tasks'[t].status # "queued"
        BY <2>5 DEF NoTask
      <4>2. server.machine \in Keys => server.machine \in TaskIds
        BY DEF TaskIds
      <4> QED BY <2>5, <4>1, <4>2 DEF OneWorld
    <3> QED BY <2>6, <3>1 DEF OneWorld
  <2>13. \A f \in Executors : execs'[f].pc = "save" => vultr'[execs'[f].task] # "none"
    BY <1>3, <2>1, <2>6 DEF OneWorld, Exists
  <2>14. server.machine # None => Exists(server.machine)' \/ \E f \in Executors : execs'[f].pc = "archived"
    BY <2>1, <2>3, <2>6 DEF OneWorld, Exists
  <2> QED BY <2>3, <2>10, <2>11, <2>12, <2>13, <2>14 DEF OneWorld, Exists
<1> QED
  BY <1>4, <1>6, <1>7, <1>8, <1>9, <1>10, <1>11, <1>12, <1>17, <1>18, <1>19, <1>20 DEF Executor

LEMMA NextArchival ==
    ASSUME ServerControlAssumption, ArchivesOnly, Typed, Plans, Alone, OneArchive, OneWorld,
           [Next]_vars
    PROVE  OneArchive' /\ OneWorld'
<1>1. CASE Owner
  BY <1>1, ArchivalOwner
<1>2. CASE \E e \in Executors : Executor(e) \/ ExecutorDies(e)
  BY <1>2, ArchivalExecutor
<1>3. CASE \/ \E type \in {"healthy", "stopped"} : Send(type)
           \/ \E r \in Reports : (\E ev \in mail : Receive(r, ev)) \/ Ask(r)
           \/ \E m \in Machines : HaltAfter(m)
           \/ \E a \in Admins : Complete(a) \/ AdminDies(a)
           \/ DeadlinePasses
           \/ \E s \in Sweeps : (\E t \in TaskIds : Sweep(s, t)) \/ SweepHalts(s)
           \/ UNCHANGED vars
  BY <1>3, ArchivalRest
<1>4. CASE \/ \E r \in Reports : Apply(r)
           \/ \E b \in Settlements : RequireStop(b) \/ RuntimeStopped(b)
           \/ \E a \in Admins : Administer(a)
           \/ \E s \in Sweeps : SweepEnds(s)
  BY <1>4, ArchivalEvents
<1> QED
  BY <1>1, <1>2, <1>3, <1>4 DEF Next

-----------------------------------------------------------------------------
(* The invariant.                                                          *)

(* What holds of every server.                                             *)
Served == Typed /\ Plans /\ Once /\ LeaseHasTask

(* No owner asks for what ends without a look at the lease.                *)
Unshelved == Ops \cap {"create", "archive"} = {}

(* What holds of the lease, the machine and the snapshot, of the servers   *)
(* whose owners ask for either kind of operations.                         *)
LeasesKept ==
    /\ Served /\ CloseOpen
    /\ RunsOnly => Runs
    /\ ArchivesOnly => Alone /\ OneArchive /\ OneWorld

LEMMA InitServed == ASSUME ServerControlAssumption, Init PROVE Served /\ CloseOpen /\ Alone
<1>1. Typed
  BY InitTyped
<1>2. /\ \A t \in TaskIds : tasks[t] = NoTask
      /\ \A k \in Keys : leases[k] = "none" /\ auths[k] = "none" /\ creates[k] = 0
      /\ \A c \in Calls : calls[c] = Idle
      /\ \A e \in Executors : execs[e] = Idle
      /\ Keys \subseteq TaskIds
  BY DEF Init, TaskIds
<1>3. server.lease = None
  BY DEF Init, NoServer
<1>4. Plans /\ Alone
  BY <1>2 DEF Plans, Alone
<1>5. Once
  <2>1. \A e \in Executors : execs[e].pc \notin Before
    BY <1>2, IdleIs DEF Before
  <2>2. CreatedOnce
    <3>1. ASSUME NEW k \in Keys
          PROVE  creates[k] <= 1
      <4>1. creates[k] = 0
        BY <1>2
      <4> QED BY <4>1
    <3> QED BY <3>1 DEF CreatedOnce
  <2> QED BY <1>2, <2>1, <2>2 DEF Once
<1>6. LeaseHasTask
  BY <1>2, <1>3 DEF LeaseHasTask
<1>7. CloseOpen
  <2>1. OneLease /\ OpenLeaseIsPaid
    BY <1>2 DEF OneLease, OpenLeaseIsPaid, Open
  <2> QED BY <1>2, <1>3, <2>1 DEF CloseOpen
<1> QED
  BY <1>1, <1>4, <1>5, <1>6, <1>7 DEF Served

LEMMA NextServed ==
    ASSUME ServerControlAssumption, Served, [Next]_vars
    PROVE  /\ Served'
           /\ \A l \in Keys : leases[l] = "released" => leases'[l] = "released"
<1> USE DEF Served
<1>1. Typed'
  BY NextTyped
<1>2. Plans'
  BY NextPlans
<1>3. Once'
  BY NextOnce
<1> QED
  BY <1>1, <1>2, <1>3, NextLeaseHasTask

LEMMA InitLeasesKept == ASSUME ServerControlAssumption, Init PROVE LeasesKept
<1>1. Served /\ CloseOpen /\ Alone
  BY InitServed
<1>2. /\ \A t \in TaskIds : tasks[t] = NoTask
      /\ \A e \in Executors : execs[e] = Idle
  BY DEF Init
<1>3. ASSUME Created
      PROVE  /\ server.status = "stopped" /\ server.machine = First /\ server.lease = None
             /\ vultr[First] = "off"
  <2>1. server = [NoServer EXCEPT !.status = "stopped", !.machine = First]
    BY <1>3 DEF Init
  <2>2. vultr[First] = "off"
    BY <1>3 DEF Init, Machines
  <2> QED BY <2>1, <2>2 DEF NoServer
<1>4. RunsOnly => Runs
  BY <1>3 DEF RunsOnly, Runs
<1>5. ASSUME ArchivesOnly
      PROVE  OneArchive /\ OneWorld
  <2>1. Created
    BY <1>5 DEF ArchivesOnly
  <2>2. \A e \in Executors : ~Shelving(e) /\ execs[e].pc = "idle"
    BY <1>2, IdleIs DEF Shelving
  <2>3. OneArchive
    BY <1>2, <1>3, <2>1, <2>2 DEF OneArchive, Live
  <2>4. First # None /\ First \notin Keys
    BY DEF ServerControlAssumption, Machines
  <2> QED BY <1>3, <2>1, <2>2, <2>3, <2>4 DEF OneWorld, Exists
<1> QED
  BY <1>1, <1>4, <1>5 DEF LeasesKept

LEMMA EndsWithoutLease ==
    ASSUME ServerControlAssumption, Unshelved \/ ArchivesOnly, LeasesKept
    PROVE  EndsWithout
<1>1. SUFFICES ASSUME NEW e \in Executors, Ending(e)
               PROVE  server.lease = None
  BY DEF EndsWithout
<1> USE DEF LeasesKept, Served
<1>2. execs[e].pc \in {"archived", "decide"} /\ tasks[execs[e].task].status = "running"
  BY <1>1 DEF Ending
<1>3. /\ execs[e].task \in TaskIds /\ tasks[execs[e].task] # NoTask /\ execs[e] # Idle
      /\ Op(e) \in Ops \cup {"forced_stop"} /\ Plan(execs[e], Op(e))
  BY <1>2, ExecIs, IdleIs DEF TaskRecord, Op, Plans, Typed, KnownTasks
<1>4. Op(e) \in {"create", "archive"} /\ (Op(e) = "archive" => execs[e].pc = "archived")
  BY <1>1, <1>3 DEF Ending, Plan
<1>5. Op(e) \in Ops
  BY <1>3, <1>4
<1>6. CASE Unshelved
  BY <1>4, <1>5, <1>6 DEF Unshelved
<1>7. CASE ArchivesOnly
  <2>1. Op(e) = "archive" /\ Shelving(e)
    BY <1>4, <1>5, <1>7 DEF ArchivesOnly, Shelving
  <2>2. Live(execs[e].task) /\ tasks[execs[e].task].op = "archive"
    BY <1>2, <1>3, <2>1 DEF Live, Op
  <2> QED BY <1>3, <1>7, <2>2 DEF OneArchive
<1> QED
  BY <1>6, <1>7

LEMMA NextLeasesKept ==
    ASSUME ServerControlAssumption, Unshelved \/ ArchivesOnly, LeasesKept, [Next]_vars
    PROVE  LeasesKept'
<1> USE DEF LeasesKept, Served
<1>1. Served'
  BY NextServed
<1>2. CloseOpen'
  BY NextCloseOpen, EndsWithoutLease
<1>3. RunsOnly => Runs'
  BY NextRuns
<1>4. ArchivesOnly => Alone' /\ OneArchive' /\ OneWorld'
  BY NextAlone, NextArchival
<1> QED
  BY <1>1, <1>2, <1>3, <1>4

(* What the invariant says of the lease, of a server that is down and of   *)
(* the world.                                                              *)
LEMMA LeasesShow ==
    ASSUME ServerControlAssumption, LeasesKept
    PROVE  /\ TypeOK /\ CreatedOnce /\ OneLease /\ OpenLeaseIsPaid
           /\ RunsOnly \/ ArchivesOnly => DownHasNoLease /\ WorldIsKept
<1> USE DEF LeasesKept, Served
<1>1. TypeOK /\ CreatedOnce /\ OneLease /\ OpenLeaseIsPaid
  BY DEF Typed, Once, CloseOpen
<1>2. ASSUME RunsOnly
      PROVE  DownHasNoLease /\ WorldIsKept
  <2>1. First # None
    BY DEF ServerControlAssumption, Machines
  <2> QED BY <1>2, <2>1 DEF Runs, DownHasNoLease, WorldIsKept, Exists
<1>3. ASSUME ArchivesOnly
      PROVE  DownHasNoLease /\ WorldIsKept
  BY <1>3 DEF OneArchive, OneWorld, DownHasNoLease, WorldIsKept
<1> QED
  BY <1>1, <1>2, <1>3

-----------------------------------------------------------------------------
(* What requests, executors, events of the worker, Billing, administrators *)
(* and sweeps do together, for every number of them and for faults of the  *)
(* provider (ServerControlService).                                        *)

(* The aggregate of a server, and what every call keeps in its variables   *)
(* between two transactions, stay well-formed (serverRepository.ts).       *)
THEOREM ServerTypes == ASSUME ServerControlAssumption PROVE Spec => []TypeOK
<1>1. Init => Served
  BY InitServed
<1>2. Served /\ [Next]_vars => Served'
  BY NextServed
<1>3. Served => TypeOK
  BY DEF Served, Typed
<1> QED
  BY <1>1, <1>2, <1>3, PTL DEF Spec

(* However often a task is executed, looked for or given up, one machine   *)
(* is asked for (executeTask, reconcileTask).                              *)
THEOREM OneMachinePerTask == ASSUME ServerControlAssumption PROVE Spec => []CreatedOnce
<1>1. Init => Served
  BY InitServed
<1>2. Served /\ [Next]_vars => Served'
  BY NextServed
<1>3. Served => CreatedOnce
  BY DEF Served, Once
<1> QED
  BY <1>1, <1>2, <1>3, PTL DEF Spec

(* A lease that ended is not opened again by a request that is repeated,   *)
(* or by an event, a failure or a sweep that comes late (closeLease).      *)
THEOREM LeasesEndOnce == ASSUME ServerControlAssumption PROVE Spec => EndedLeaseStays
<1>1. Init => Served
  BY InitServed
<1>2. Served /\ [Next]_vars => Served'
  BY NextServed
<1>3. Served /\ [Next]_vars =>
         [\A l \in Keys : leases[l] = "released" => leases'[l] = "released"]_vars
  BY NextServed
<1> QED
  BY <1>1, <1>2, <1>3, PTL DEF Spec, EndedLeaseStays

(* A server has no open lease but the one it names, and that one is paid   *)
(* for: where no task ends without a look at the lease, or no call fails   *)
(* while worlds are archived.                                              *)
THEOREM LeasesAreNamedAndPaid ==
    ASSUME ServerControlAssumption, Unshelved \/ ArchivesOnly
    PROVE  Spec => [](OneLease /\ OpenLeaseIsPaid)
<1>1. Init => LeasesKept
  BY InitLeasesKept
<1>2. LeasesKept /\ [Next]_vars => LeasesKept'
  BY NextLeasesKept
<1>3. LeasesKept => OneLease /\ OpenLeaseIsPaid
  BY LeasesShow
<1> QED
  BY <1>1, <1>2, <1>3, PTL DEF Spec

(* A server that is down has no lease, and its world is on a machine or in *)
(* a snapshot that it knows.                                               *)
THEOREM DownIsFreeAndKept ==
    ASSUME ServerControlAssumption, RunsOnly \/ ArchivesOnly
    PROVE  Spec => [](DownHasNoLease /\ WorldIsKept)
<1>1. RunsOnly => Unshelved
  BY DEF RunsOnly, Unshelved
<1>2. Init => LeasesKept
  BY InitLeasesKept
<1>3. LeasesKept /\ [Next]_vars => LeasesKept'
  BY <1>1, NextLeasesKept
<1>4. LeasesKept => DownHasNoLease /\ WorldIsKept
  BY LeasesShow
<1> QED
  BY <1>2, <1>3, <1>4, PTL DEF Spec
=============================================================================
