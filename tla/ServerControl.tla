---------------------------- MODULE ServerControl ----------------------------
(***************************************************************************)
(* `ServerControlService` (src/src/serverControl.ts): the life of one      *)
(* hosted server.  Requests of its owner, executors of tasks, events of    *)
(* the worker on its machine, stops for an empty balance, operations of    *)
(* administrators and the sweep of expired stops all change one aggregate, *)
(* each in transactions that are atomic (RevisionedRepository), with calls *)
(* to the cloud provider in between.                                       *)
(*                                                                         *)
(* A task has the name of the request or event that made it, and a lease,  *)
(* an authorization and a machine the name of their task.  The desired     *)
(* status is a function of the status where the code reads it, so it is    *)
(* left out, and so are reasons, addresses and versions.  A snapshot is    *)
(* "old" once a machine of the server has run after it; the code knows     *)
(* only one id.                                                            *)
(***************************************************************************)
EXTENDS Integers, TLC

CONSTANTS Keys,           \* idempotency keys of the owner's requests
          Calls, Executors, Reports, Sweeps,   \* the calls in progress
          Settlements,    \* Billing's "stop required"
          AdminAction,    \* the operations of administrators, oldest first
          First,          \* the machine of a server that is created at the start
          None,
          Ops,            \* the operations that owners ask
          Created,        \* has the server been created at the start?
          Faults,         \* does the provider fail, do calls die?
          MaxSeq          \* bound: events of the worker

Admins == DOMAIN AdminAction
TaskIds == Keys \cup Settlements \cup Admins
Machines == Keys \cup {First}

ServerControlAssumption ==
    /\ None \notin TaskIds \cup Machines
    /\ First \notin Keys
    /\ Keys \cap (Settlements \cup Admins) = {} /\ Settlements \cap Admins = {}
    /\ Ops \subseteq {"create", "start", "restart", "stop", "archive",
                      "restore", "delete"}
    /\ Created \in BOOLEAN /\ Faults \in BOOLEAN /\ MaxSeq \in Nat

VARIABLES server, tasks, leases,  \* the aggregate
          auths,       \* Billing: the authorizations
          vultr,       \* the provider: the machines
          creates,     \* history: how often a machine was asked for
          worker,      \* the worker: its last sequence, and is it to stop?
          mail,        \* its events
          consumed,    \* consumedEvents of the worker
          settlements, \* consumedEvents of Billing: the lease
          admin,       \* consumedEvents and completions of administrators
          calls, execs, reports, sweeps, halts

aggregate == <<server, tasks, leases, auths>>
outside == <<vultr, creates, worker, mail>>
events == <<consumed, settlements, admin>>
running == <<calls, execs, reports, sweeps, halts>>
vars == <<aggregate, outside, events, running>>

Idle == [pc |-> "idle"]
NoTask == [status |-> "none"]
NoServer == [status |-> "none", task |-> None, lease |-> None, machine |-> None,
             snapshot |-> "none", deadline |-> "none", workerSeq |-> 0, adminSeq |-> 0]

Statuses == {"none", "creating", "stopped", "starting", "running", "stopping",
             "archiving", "archived", "restoring", "suspended",
             "billing_blocked", "failed", "deleting", "deleted"}

TypeOK ==
    /\ server \in [status : Statuses, task : TaskIds \cup {None},
                   lease : Keys \cup {None}, machine : Machines \cup {None},
                   snapshot : {"none", "fresh", "old"}, deadline : {"none", "set", "passed"},
                   workerSeq : 0 .. MaxSeq, adminSeq : {0} \cup Admins]
    /\ tasks \in [TaskIds -> {NoTask} \cup
                    [op : Ops \cup {"forced_stop"},
                     status : {"queued", "running", "succeeded", "failed"}]]
    /\ leases \in [Keys -> {"none", "reserved", "active", "released"}]
    /\ auths \in [Keys -> {"none", "held", "released"}]
    /\ vultr \in [Machines -> {"none", "on", "off"}]
    /\ creates \in [Keys -> Nat]
    /\ worker \in [seq : 0 .. MaxSeq, asked : BOOLEAN]
    /\ mail \subseteq [type : {"healthy", "stopped"}, seq : 1 .. MaxSeq]
    /\ consumed \subseteq mail
    /\ settlements \in [Settlements -> [lease : Keys \cup {None}, stopped : BOOLEAN]]
    /\ admin \in [Admins -> [consumed : BOOLEAN, result : {"none", "applied",
                     "ignored", "out_of_order", "duplicate"},
                     done : {"none", "succeeded", "rejected"}]]
    /\ halts \subseteq Machines

Init ==
    /\ server = IF Created THEN [NoServer EXCEPT !.status = "stopped", !.machine = First]
                ELSE NoServer
    /\ tasks = [t \in TaskIds |-> NoTask]
    /\ leases = [k \in Keys |-> "none"] /\ auths = [k \in Keys |-> "none"]
    /\ vultr = [m \in Machines |-> IF m = First /\ Created THEN "off" ELSE "none"]
    /\ creates = [k \in Keys |-> 0]
    /\ worker = [seq |-> 0, asked |-> FALSE]
    /\ mail = {} /\ consumed = {}
    /\ settlements = [b \in Settlements |-> [lease |-> None, stopped |-> FALSE]]
    /\ admin = [a \in Admins |-> [consumed |-> FALSE, result |-> "none", done |-> "none"]]
    /\ calls = [c \in Calls |-> Idle] /\ execs = [e \in Executors |-> Idle]
    /\ reports = [r \in Reports |-> Idle] /\ sweeps = [s \in Sweeps |-> Idle]
    /\ halts = {}

-----------------------------------------------------------------------------
(* Leases and tasks.                                                       *)

Open == {"reserved", "active"}

(* closeLease: the lease ends; `Without` is the server without it.         *)
Closed_Active(l) == IF l # None /\ leases[l] = "active"
                    THEN [leases EXCEPT ![l] = "released"] ELSE leases
Closed(l) == IF l # None /\ leases[l] \in Open THEN [leases EXCEPT ![l] = "released"]
             ELSE leases
Without_Kept(s) == s
Without_Marked(s) == [s EXCEPT !.lease = "released"]
Without(s) == [s EXCEPT !.lease = None]

(* releaseLeases and the releases of creates are not part of the           *)
(* transaction: they may fail, and nothing asks again.                     *)
Release(l) ==
    \/ auths' = IF l = None THEN auths ELSE [auths EXCEPT ![l] = "released"]
    \/ Faults /\ UNCHANGED auths

Task(op, status) == [op |-> op, status |-> status]
Ended(t, status) == [tasks EXCEPT ![t].status = status]

(* succeedCurrentTask                                                      *)
CurrentSucceeded ==
    IF server.task # None /\ tasks[server.task].status = "running"
    THEN Ended(server.task, "succeeded") ELSE tasks

(* requestGracefulStop: the worker hears it, or is unreachable.            *)
AskToStop == \/ worker' = [worker EXCEPT !.asked = TRUE]
             \/ UNCHANGED worker

-----------------------------------------------------------------------------
(* The owner.                                                              *)

MayBegin(op) ==
    \/ op = "create" /\ server.status = "none"
    \/ op = "start" /\ server.status = "stopped"
    \/ op = "restart" /\ server.status = "running"
    \/ op = "restore" /\ server.status = "archived" /\ server.snapshot # "none"

(* The first half of create, start, restart and restore: the request is    *)
(* new, the server would allow it, and Billing authorizes it.  The same    *)
(* key gets the same authorization, unless it was released.                *)
Authorize(c, k, op) ==
    /\ calls[c] = Idle
    /\ op \in Ops /\ MayBegin(op)
    /\ tasks[k] = NoTask /\ auths[k] # "released"
    /\ \A d \in Calls : calls[d] # Idle /\ calls[d].key = k => calls[d].op = op
    /\ auths' = [auths EXCEPT ![k] = "held"]
    /\ calls' = [calls EXCEPT ![c] = [pc |-> "authorized", key |-> k, op |-> op]]
    /\ UNCHANGED <<server, tasks, leases, outside, events, execs, reports, sweeps, halts>>

Replays_Never(k) == FALSE
Replays(k) == tasks[k] # NoTask

Began(k, op) ==
    CASE op = "create" -> [NoServer EXCEPT !.status = "creating", !.task = k]
      [] op \in {"start", "restart"} ->
           [server EXCEPT !.status = "starting", !.task = k, !.lease = k]
      [] op = "restore" ->
           [server EXCEPT !.status = "restoring", !.task = k, !.lease = k]

Leased_Kept(k, op) ==
    IF op = "create" THEN leases ELSE [leases EXCEPT ![k] = "reserved"]
Leased(k, op) ==
    LET kept == IF op = "restart" THEN Closed(server.lease) ELSE leases
    IN  IF op = "create" THEN leases ELSE [kept EXCEPT ![k] = "reserved"]

(* The second half: one transaction, which asks everything again.          *)
Commit(c) ==
    /\ calls[c] # Idle
    /\ LET k == calls[c].key
           op == calls[c].op
       IN  \/ /\ ~Replays(k) /\ MayBegin(op)
              /\ tasks' = [tasks EXCEPT ![k] = Task(op, "queued")]
              /\ server' = Began(k, op)
              /\ leases' = Leased(k, op)
              /\ Release(IF op = "restart" THEN server.lease ELSE None)
           \/ /\ Replays(k) \/ ~MayBegin(op)
              /\ UNCHANGED aggregate
    /\ calls' = [calls EXCEPT ![c] = Idle]
    /\ UNCHANGED <<outside, events, execs, reports, sweeps, halts>>

New(k, op) == op \in Ops /\ ~Replays(k) /\ \A c \in Calls : calls[c] # Idle => calls[c].key # k

Stop(k) ==
    /\ New(k, "stop") /\ server.status \in {"running", "starting"}
    /\ tasks' = [tasks EXCEPT ![k] = Task("stop", "running")]
    /\ server' = [server EXCEPT !.status = "stopping", !.task = k, !.deadline = "set"]
    /\ AskToStop
    /\ UNCHANGED <<leases, auths, vultr, creates, mail, events, running>>

Archive(k) ==
    /\ New(k, "archive") /\ server.status = "stopped" /\ server.machine # None
    /\ tasks' = [tasks EXCEPT ![k] = Task("archive", "queued")]
    /\ server' = [server EXCEPT !.status = "archiving", !.task = k]
    /\ UNCHANGED <<leases, auths, outside, events, running>>

(* The backup service is asked first, and agrees.                          *)
Delete(k) ==
    /\ New(k, "delete") /\ server.status \notin {"none", "deleting", "deleted"}
    /\ tasks' = [tasks EXCEPT ![k] = Task("delete", "queued")]
    /\ server' = [Without(server) EXCEPT !.status = "deleting", !.task = k]
    /\ leases' = Closed(server.lease) /\ Release(server.lease)
    /\ UNCHANGED <<outside, events, running>>

-----------------------------------------------------------------------------
(* executeTask.  An executor holds its task, the machine it read from the  *)
(* aggregate, and whether an error of the provider is handled (`inside`)   *)
(* or goes to the caller, as it does when a task is only reconciled.       *)

Goto(e, pc) == execs' = [execs EXCEPT ![e].pc = pc]
Ends(e) == execs' = [execs EXCEPT ![e] = Idle]
Op(e) == tasks[execs[e].task].op
Machine(e) == execs[e].machine

StillHere == UNCHANGED <<worker, mail, events, calls, reports, sweeps, halts>>

Queued_Again(t) == tasks[t].status \in {"queued", "running"}
Queued(t) == tasks[t].status = "queued"

Execute(e, t) ==
    /\ execs[e] = Idle /\ tasks[t] # NoTask
    /\ \/ /\ Queued(t)
          /\ tasks' = Ended(t, "running")
          /\ execs' = [execs EXCEPT ![e] = [pc |-> "read", task |-> t, machine |-> None,
                                            inside |-> TRUE, seen |-> "none"]]
       \/ /\ ~Queued(t) /\ tasks[t].status = "running"
          /\ execs' = [execs EXCEPT ![e] = [pc |-> "reconcile", task |-> t, machine |-> None,
                                            inside |-> FALSE, seen |-> "none"]]
          /\ UNCHANGED tasks
    /\ UNCHANGED <<server, leases, auths, vultr, creates>> /\ StillHere

ReadServer(e) ==
    /\ execs[e].pc = "read"
    /\ LET missing == server.machine = None IN
       execs' = [execs EXCEPT ![e].machine = server.machine,
           ![e].pc = CASE Op(e) \in {"create", "restore"} -> "call"
                       [] Op(e) = "delete" /\ missing -> "gone"
                       [] Op(e) \notin {"create", "restore", "delete"} /\ missing -> "failed"
                       [] OTHER -> "call"]
    /\ UNCHANGED <<aggregate, vultr, creates>> /\ StillHere

Exists(m) == vultr[m] # "none"

(* A call to the provider: it does as it is told; or the outcome is        *)
(* unknown, which only leaves a note that it must be reconciled; or it is  *)
(* refused, as it is for a machine that does not exist.                    *)
Provider(e, possible, power, next) ==
    LET done == [vultr EXCEPT ![Machine(e)] = power] IN
    \/ possible /\ vultr' = done /\ Goto(e, next)
    \/ Faults /\ vultr' \in (IF possible THEN {done, vultr} ELSE {vultr}) /\ Ends(e)
    \/ /\ Faults \/ ~possible
       /\ UNCHANGED vultr
       /\ IF execs[e].inside THEN Goto(e, "failed") ELSE Ends(e)

(* createInstance of a create or a restore: the machine boots at once.     *)
Create(e) ==
    /\ execs[e].pc = "call" /\ Op(e) \in {"create", "restore"}
    /\ LET t == execs[e].task IN
       /\ creates' = [creates EXCEPT ![t] = @ + 1]
       /\ \/ /\ vultr' = [vultr EXCEPT ![t] = "on"]
             /\ execs' = [execs EXCEPT ![e].pc = "save", ![e].machine = t]
          \/ /\ Faults
             /\ vultr' \in {vultr, [vultr EXCEPT ![t] = "on"]}
             /\ Ends(e)
          \/ Faults /\ UNCHANGED vultr /\ Goto(e, "failed")
    /\ UNCHANGED aggregate /\ StillHere

Save(e) ==
    /\ execs[e].pc = "save"
    /\ server' = IF \/ Op(e) = "create" /\ server.machine = None
                    \/ Op(e) = "restore" /\ server.status = "restoring"
                 THEN [server EXCEPT !.machine = Machine(e)] ELSE server
    /\ IF Op(e) = "create" THEN Goto(e, "halt") ELSE Ends(e)
    /\ UNCHANGED <<tasks, leases, auths, vultr, creates>> /\ StillHere

Call(e) ==
    /\ execs[e].pc = "call"
    /\ \/ /\ Op(e) \in {"start", "restart"}
          /\ Provider(e, Exists(Machine(e)), "on", "reconcile")
       \/ Op(e) = "delete" /\ Provider(e, TRUE, "none", "reconcile")
       \/ /\ Op(e) = "archive"  \* createSnapshot
          /\ Provider(e, Exists(Machine(e)), vultr[Machine(e)], "remove")
    /\ UNCHANGED <<aggregate, creates>> /\ StillHere

Halt(e) ==
    /\ execs[e].pc = "halt"
    /\ Provider(e, Exists(Machine(e)), "off", "reconcile")
    /\ UNCHANGED <<aggregate, creates>> /\ StillHere

(* The second half of an archive: the machine goes, then the aggregate     *)
(* learns of the snapshot.                                                 *)
Remove(e) ==
    /\ execs[e].pc = "remove"
    /\ Provider(e, TRUE, "none", "archived")
    /\ UNCHANGED <<aggregate, creates>> /\ StillHere

Shelved_Once(t) == [server EXCEPT !.status = "archived", !.machine = None,
    !.snapshot = IF @ = "none" THEN "fresh" ELSE @, !.task = t]
Shelved(t) == [server EXCEPT !.status = "archived", !.machine = None,
                             !.snapshot = "fresh", !.task = t]

Archived(e) ==
    /\ execs[e].pc = "archived"
    /\ IF tasks[execs[e].task].status = "running"
       THEN /\ server' = Shelved(execs[e].task)
            /\ tasks' = Ended(execs[e].task, "succeeded")
       ELSE UNCHANGED <<server, tasks>>
    /\ Ends(e)
    /\ UNCHANGED <<leases, auths, vultr, creates>> /\ StillHere

(* A server that never got a machine needs no call to be deleted.          *)
Gone(e) ==
    /\ execs[e].pc = "gone"
    /\ server' = [server EXCEPT !.status = "deleted", !.task = execs[e].task]
    /\ tasks' = Ended(execs[e].task, "succeeded")
    /\ Ends(e)
    /\ UNCHANGED <<leases, auths, vultr, creates>> /\ StillHere

(* reconcileTask: reads the aggregate; a create whose machine is not known *)
(* looks for it by its label.                                              *)
Reconcile(e) ==
    /\ execs[e].pc = "reconcile"
    /\ LET t == execs[e].task
           found == tasks[t].op = "create" /\ server.machine = None /\ Exists(t)
       IN  IF tasks[t].status = "running" /\ (found \/ server.machine # None)
           THEN /\ server' = IF found THEN [server EXCEPT !.machine = t] ELSE server
                /\ execs' = [execs EXCEPT ![e].pc = "look",
                                ![e].machine = IF found THEN t ELSE server.machine]
           ELSE UNCHANGED server /\ Ends(e)
    /\ UNCHANGED <<tasks, leases, auths, vultr, creates>> /\ StillHere

(* getInstance, after a halt if it is the machine of a create and on.      *)
Look(e) ==
    /\ execs[e].pc = "look"
    /\ \/ LET m == Machine(e)
              power == IF Op(e) = "create" /\ vultr[m] = "on" THEN "off" ELSE vultr[m]
          IN  /\ vultr' = [vultr EXCEPT ![m] = power]
              /\ execs' = [execs EXCEPT ![e].pc = "decide", ![e].seen = power]
       \/ Faults /\ UNCHANGED vultr /\ Ends(e)
       \/ Faults /\ UNCHANGED vultr /\ execs[e].inside /\ Goto(e, "failed")
    /\ UNCHANGED <<aggregate, creates>> /\ StillHere

Confirms(e) ==
    /\ tasks[execs[e].task].status = "running"
    /\ \/ Op(e) = "delete" /\ execs[e].seen = "none"
       \/ Op(e) = "create" /\ execs[e].seen = "off"

Decide(e) ==
    /\ execs[e].pc = "decide"
    /\ LET t == execs[e].task IN
       /\ IF Confirms(e)
          THEN /\ server' = [server EXCEPT !.task = t,
                                !.status = IF Op(e) = "delete" THEN "deleted" ELSE "stopped"]
               /\ tasks' = Ended(t, "succeeded")
          ELSE UNCHANGED <<server, tasks>>
       /\ IF Op(e) = "create" /\ tasks'[t].status = "succeeded"
          THEN Goto(e, "release") ELSE Ends(e)
    /\ UNCHANGED <<leases, auths, vultr, creates>> /\ StillHere

(* A create holds its authorization no longer.  An error of this release   *)
(* is an error of the task, although it succeeded.                         *)
ReleaseCreate(e) ==
    /\ execs[e].pc = "release"
    /\ \/ auths' = [auths EXCEPT ![execs[e].task] = "released"] /\ Ends(e)
       \/ /\ Faults /\ UNCHANGED auths
          /\ IF execs[e].inside THEN Goto(e, "failed") ELSE Ends(e)
    /\ UNCHANGED <<server, tasks, leases, vultr, creates>> /\ StillHere

(* handleProviderFailure, for an error that is final.                      *)
Fail(e) ==
    /\ execs[e].pc = "failed"
    /\ LET t == execs[e].task
           starts == Op(e) \in {"start", "restart", "restore"}
       IN  /\ tasks' = Ended(t, "failed")
           /\ server' = CASE Op(e) = "create" -> [server EXCEPT !.status = "failed", !.task = t]
                          [] starts -> [Without(server) EXCEPT !.task = t,
                               !.status = IF Op(e) = "restore" THEN "archived" ELSE "stopped"]
                          [] OTHER -> server
           /\ leases' = IF starts THEN Closed(server.lease) ELSE leases
           /\ Release(CASE Op(e) = "create" -> t [] starts -> server.lease [] OTHER -> None)
    /\ Ends(e)
    /\ UNCHANGED <<vultr, creates>> /\ StillHere

ExecutorDies(e) ==
    /\ Faults /\ execs[e] # Idle
    /\ Ends(e)
    /\ UNCHANGED <<aggregate, vultr, creates>> /\ StillHere

-----------------------------------------------------------------------------
(* The worker and its events.                                              *)

Up == server.machine # None /\ vultr[server.machine] = "on"

Send(type) ==
    /\ Up /\ worker.seq < MaxSeq
    /\ type = "stopped" => worker.asked
    /\ worker' = [seq |-> worker.seq + 1, asked |-> worker.asked /\ type # "stopped"]
    /\ mail' = mail \cup {[type |-> type, seq |-> worker.seq + 1]}
    /\ UNCHANGED <<aggregate, vultr, creates, events, running>>

(* handleWorkerEvent: the provider is asked first: for a healthy worker    *)
(* where its machine is, for one that stopped to halt its machine.         *)
Receive(r, ev) ==
    /\ reports[r] = Idle /\ ev \in mail
    /\ reports' = [reports EXCEPT ![r] = [pc |-> "ask", event |-> ev, machine |-> server.machine]]
    /\ UNCHANGED <<aggregate, outside, events, calls, execs, sweeps, halts>>

Ask(r) ==
    /\ reports[r].pc = "ask"
    /\ LET m == reports[r].machine
           stopped == reports[r].event.type = "stopped"
           answers == IF m = None THEN stopped ELSE Exists(m)
       IN  \/ /\ answers
              /\ vultr' = IF stopped /\ m # None THEN [vultr EXCEPT ![m] = "off"] ELSE vultr
              /\ reports' = [reports EXCEPT ![r].pc = "apply"]
           \/ /\ ~answers \/ Faults
              /\ UNCHANGED vultr
              /\ reports' = [reports EXCEPT ![r] = Idle]
    /\ UNCHANGED <<aggregate, creates, worker, mail, events, calls, execs, sweeps, halts>>

InOrder(ev) == ev.seq > server.workerSeq

Stoppable == {"stopping", "suspended", "billing_blocked", "deleting"}

HealthyMatters(ev) ==
    /\ InOrder(ev) /\ ev.type = "healthy"
    /\ server.status \in {"starting", "restoring"}

StoppedMatters(ev) ==
    InOrder(ev) /\ ev.type = "stopped" /\ server.status \in Stoppable

(* The end of a stop, by the worker or by the sweep.                       *)
Down(s) == [Without(s) EXCEPT !.deadline = "none",
               !.status = IF @ = "stopping" THEN "stopped" ELSE @]

Seen(ev) == IF InOrder(ev) THEN [server EXCEPT !.workerSeq = ev.seq] ELSE server

(* The world goes on, on a machine of the server, if it has one.           *)
Aged(snapshot) ==
    IF snapshot = "fresh" /\ server.machine # None THEN "old" ELSE snapshot

ReservedLease == server.lease # None /\ leases[server.lease] = "reserved"

Apply(r) ==
    /\ reports[r].pc = "apply"
    /\ LET ev == reports[r].event IN
       \/ /\ ev \notin consumed /\ HealthyMatters(ev) /\ ReservedLease
          /\ leases' = [leases EXCEPT ![server.lease] = "active"]
          /\ server' = [Seen(ev) EXCEPT !.status = "running", !.snapshot = Aged(@)]
          /\ tasks' = CurrentSucceeded
          /\ consumed' = consumed \cup {ev}
          /\ UNCHANGED auths
       \/ /\ ev \notin consumed /\ StoppedMatters(ev)
          /\ leases' = Closed(server.lease) /\ Release(server.lease)
          /\ server' = Down(Seen(ev))
          /\ tasks' = CurrentSucceeded
          /\ consumed' = consumed \cup {ev}
       \/ /\ ev \notin consumed /\ ~HealthyMatters(ev) /\ ~StoppedMatters(ev)
          /\ server' = Seen(ev)
          /\ consumed' = consumed \cup {ev}
          /\ UNCHANGED <<tasks, leases, auths>>
       \/ /\ ev \in consumed \/ (HealthyMatters(ev) /\ ~ReservedLease)
          /\ UNCHANGED <<aggregate, consumed>>
    /\ reports' = [reports EXCEPT ![r] = Idle]
    /\ UNCHANGED <<outside, settlements, admin, calls, execs, sweeps, halts>>

-----------------------------------------------------------------------------
(* Stops for an empty balance.                                             *)

(* recordBalanceStopRequired, of a lease that ran.                         *)
RequireStop(b) ==
    /\ settlements[b].lease = None
    /\ \E l \in Keys :
         /\ leases[l] # "none" /\ server.lease = l
         /\ settlements' = [settlements EXCEPT ![b].lease = l]
    /\ IF server.status = "running"
       THEN /\ tasks' = [tasks EXCEPT ![b] = Task("forced_stop", "running")]
            /\ server' = [server EXCEPT !.status = "billing_blocked", !.task = b,
                                        !.deadline = "set"]
            /\ AskToStop
       ELSE UNCHANGED <<tasks, server, worker>>
    /\ UNCHANGED <<leases, auths, vultr, creates, mail, consumed, admin, running>>

(* handleRuntimeStopped halts the machine after its transaction.           *)
RuntimeStopped(b) ==
    /\ settlements[b].lease # None /\ ~settlements[b].stopped
    /\ server.lease = settlements[b].lease
    /\ settlements' = [settlements EXCEPT ![b].stopped = TRUE]
    /\ IF server.status = "billing_blocked"
       THEN /\ leases' = Closed(server.lease) /\ Release(server.lease)
            /\ server' = [Without(server) EXCEPT !.deadline = "none", !.status = "stopped"]
            /\ tasks' = CurrentSucceeded
            /\ halts' = halts \cup ({server.machine} \ {None})
       ELSE UNCHANGED <<aggregate, halts>>
    /\ UNCHANGED <<outside, consumed, admin, calls, execs, reports, sweeps>>

HaltAfter(m) ==
    /\ m \in halts
    /\ \/ Exists(m) /\ vultr' = [vultr EXCEPT ![m] = "off"]
       \/ (Faults \/ ~Exists(m)) /\ UNCHANGED vultr
    /\ halts' = halts \ {m}
    /\ UNCHANGED <<aggregate, creates, worker, mail, events, calls, execs, reports, sweeps>>

-----------------------------------------------------------------------------
(* Administrators.                                                         *)

Suspendable == server.status \notin {"none", "deleted", "deleting", "stopped"}

Restorable_Any == server.status \in {"suspended", "billing_blocked"}
Restorable ==
    /\ server.status \in {"suspended", "billing_blocked"}
    /\ server.deadline = "none"
    /\ server.lease = None \/ leases[server.lease] \notin Open

AdminResult(a) ==
    CASE admin[a].consumed -> "duplicate"
      [] ~admin[a].consumed /\ a <= server.adminSeq -> "out_of_order"
      [] OTHER -> IF \/ AdminAction[a] = "suspend" /\ Suspendable
                     \/ AdminAction[a] = "restore" /\ Restorable
                  THEN "applied" ELSE "ignored"

(* handleControlEvent, called by handleAdminOperation until there is a     *)
(* completion.                                                             *)
Administer(a) ==
    /\ server.status # "none"
    /\ admin[a].done = "none" /\ admin[a].result = "none"
    /\ LET result == AdminResult(a)
           seen == IF result \in {"applied", "ignored"}
                   THEN [server EXCEPT !.adminSeq = a] ELSE server
       IN  /\ admin' = [admin EXCEPT ![a].consumed = TRUE, ![a].result = result]
           /\ CASE result = "applied" /\ AdminAction[a] = "suspend" ->
                     /\ tasks' = [tasks EXCEPT ![a] = Task("forced_stop", "running")]
                     /\ server' = [seen EXCEPT !.status = "suspended", !.task = a,
                                               !.deadline = "set"]
                     /\ AskToStop
                [] result = "applied" /\ AdminAction[a] = "restore" ->
                     /\ server' = [seen EXCEPT !.status = "stopped", !.task = None]
                     /\ UNCHANGED <<tasks, worker>>
                [] OTHER -> server' = seen /\ UNCHANGED <<tasks, worker>>
    /\ UNCHANGED <<leases, auths, vultr, creates, mail, consumed, settlements, running>>

(* The completion is another transaction, which may never come.            *)
Complete(a) ==
    /\ admin[a].result # "none"
    /\ admin' = [admin EXCEPT ![a].result = "none",
           ![a].done = IF admin[a].result = "ignored" THEN "rejected" ELSE "succeeded"]
    /\ UNCHANGED <<aggregate, outside, consumed, settlements, running>>

AdminDies(a) ==
    /\ Faults /\ admin[a].result # "none"
    /\ admin' = [admin EXCEPT ![a].result = "none"]
    /\ UNCHANGED <<aggregate, outside, consumed, settlements, running>>

-----------------------------------------------------------------------------
(* The sweep of expired stops: forceStopAfterTimeout.                      *)

DeadlinePasses ==
    /\ server.deadline = "set"
    /\ server' = [server EXCEPT !.deadline = "passed"]
    /\ UNCHANGED <<tasks, leases, auths, outside, events, running>>

Stops == {t \in TaskIds : tasks[t] # NoTask /\ tasks[t].op \in {"stop", "forced_stop"}
                          /\ tasks[t].status = "running"}

Sweep(s, t) ==
    /\ sweeps[s] = Idle /\ t \in Stops /\ server.deadline = "passed"
    /\ sweeps' = [sweeps EXCEPT ![s] = [pc |-> "halt", task |-> t, machine |-> server.machine]]
    /\ UNCHANGED <<aggregate, outside, events, calls, execs, reports, halts>>

SweepHalts(s) ==
    /\ sweeps[s].pc = "halt"
    /\ LET m == sweeps[s].machine IN
       \/ /\ m # None => Exists(m)
          /\ vultr' = IF m = None THEN vultr ELSE [vultr EXCEPT ![m] = "off"]
          /\ sweeps' = [sweeps EXCEPT ![s].pc = "end"]
       \/ /\ Faults \/ ~(m # None => Exists(m))
          /\ UNCHANGED vultr
          /\ sweeps' = [sweeps EXCEPT ![s] = Idle]
    /\ UNCHANGED <<aggregate, creates, worker, mail, events, calls, execs, reports, halts>>

Forceable_Asked == server.status = "stopping"
Forceable == server.status \in {"stopping", "suspended", "billing_blocked"}

SweepEnds(s) ==
    /\ sweeps[s].pc = "end"
    /\ IF Forceable
       THEN /\ leases' = Closed(server.lease) /\ Release(server.lease)
            /\ server' = IF server.status = "stopping"
                         THEN [Down(server) EXCEPT !.task = sweeps[s].task] ELSE Down(server)
            /\ tasks' = Ended(sweeps[s].task, "succeeded")
       ELSE UNCHANGED aggregate
    /\ sweeps' = [sweeps EXCEPT ![s] = Idle]
    /\ UNCHANGED <<outside, events, calls, execs, reports, halts>>

-----------------------------------------------------------------------------

Owner ==
    \/ \E c \in Calls, k \in Keys, op \in Ops : Authorize(c, k, op)
    \/ \E c \in Calls : Commit(c)
    \/ \E k \in Keys : Stop(k) \/ Archive(k) \/ Delete(k)

Executor(e) ==
    \/ \E t \in TaskIds : Execute(e, t)
    \/ ReadServer(e) \/ Create(e) \/ Save(e) \/ Call(e) \/ Halt(e) \/ Remove(e)
    \/ Archived(e) \/ Gone(e) \/ Reconcile(e) \/ Look(e) \/ Decide(e) \/ ReleaseCreate(e)
    \/ Fail(e)

Next ==
    \/ Owner
    \/ \E e \in Executors : Executor(e) \/ ExecutorDies(e)
    \/ \E type \in {"healthy", "stopped"} : Send(type)
    \/ \E r \in Reports : (\E ev \in mail : Receive(r, ev)) \/ Ask(r) \/ Apply(r)
    \/ \E b \in Settlements : RequireStop(b) \/ RuntimeStopped(b)
    \/ \E m \in Machines : HaltAfter(m)
    \/ \E a \in Admins : Administer(a) \/ Complete(a) \/ AdminDies(a)
    \/ DeadlinePasses
    \/ \E s \in Sweeps : (\E t \in TaskIds : Sweep(s, t)) \/ SweepHalts(s) \/ SweepEnds(s)

Spec == Init /\ [][Next]_vars

-----------------------------------------------------------------------------

(* A server has at most one open lease, and it is the lease it names:      *)
(* whatever the order of starts, restarts, stops and failures, no lease is *)
(* charged that nothing will close.                                        *)
OneLease == \A l \in Keys : leases[l] \in Open => server.lease = l

(* A server that is down holds no lease.                                   *)
DownHasNoLease ==
    server.status \in {"creating", "stopped", "archiving", "archived", "deleting", "deleted"}
        => server.lease = None

(* Billing's authorization is not released while the lease it pays for is  *)
(* open.                                                                   *)
OpenLeaseIsPaid == \A l \in Keys : leases[l] \in Open => auths[l] = "held"

(* "provider unknown outcome ... does not blindly create twice": one       *)
(* machine is asked for by a task, however often it is executed.           *)
CreatedOnce == \A k \in Keys : creates[k] <= 1

(* A lease that ended stays ended, though its request is repeated, and an  *)
(* event of the worker, a failure or a sweep comes late.                   *)
EndedLeaseStays ==
    [][\A l \in Keys : leases[l] = "released" => leases'[l] = "released"]_vars

(* Until it is deleted, the world of a server is on a machine it knows or  *)
(* in a snapshot it knows that was taken after it last ran: "`restore`     *)
(* provisions a new instance from that snapshot".                          *)
WorldIsKept ==
    server.status \notin {"none", "creating", "failed", "deleting", "deleted"} =>
        \/ server.snapshot = "fresh"
        \/ server.machine # None /\ Exists(server.machine)
        \/ \E e \in Executors : execs[e].pc = "archived"

(* What a server has: a lease that is its own, paid for, and none while it *)
(* is down; and its world.                                                 *)
LeaseIsKept == OneLease /\ OpenLeaseIsPaid /\ DownHasNoLease /\ WorldIsKept

(* "event fixtures deduplicate, reject conflicting IDs, and ignore stale   *)
(* ordering": an event that was consumed or overtaken does nothing.        *)
StaleEventsIgnored ==
    [][\A r \in Reports :
         /\ reports[r].pc = "ask"
         /\ reports[r].event \in consumed \/ reports[r].event.seq <= server.workerSeq
         /\ reports'[r].pc = "apply"
         => vultr' = vultr]_vars

(* An administrator is told that a suspension succeeded only if it did.    *)
SucceededMeansDone ==
    \A a \in Admins : admin[a].done = "succeeded" /\ AdminAction[a] = "suspend"
                       => tasks[a] # NoTask

(* A stop ends: the lease of a server that is stopping, blocked or         *)
(* suspended is closed, by the worker or, after its deadline, by the sweep.*)
StopEnds == (server.status \in {"stopping", "billing_blocked", "suspended"}
             /\ server.lease # None) ~> server.lease = None

(* The sweep runs, and its calls return; owners and workers owe nothing.   *)
Fairness ==
    /\ WF_vars(DeadlinePasses)
    /\ \A s \in Sweeps : /\ WF_vars(SweepHalts(s)) /\ WF_vars(SweepEnds(s))
                          /\ WF_vars(\E t \in TaskIds : Sweep(s, t))

FairSpec == Spec /\ Fairness
=============================================================================
