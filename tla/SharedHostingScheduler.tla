------------------------ MODULE SharedHostingScheduler ------------------------
(***************************************************************************)
(* Placement of shared-hosting services on nodes: `SharedHostingScheduler` *)
(* (src/src/sharedHostingScheduler.ts).  Every operation changes the       *)
(* scheduler's state in one transaction and dispatches the commands it     *)
(* made afterwards, from the memory of its isolate.  Nodes work off the    *)
(* commands they got in order and report back.                             *)
(*                                                                         *)
(* The three resources of a plan are one number.  A transaction is atomic; *)
(* RevisionedRepository is about how it comes to be.  Billing is reduced   *)
(* to `paid`; SharedRuntime is about the charges.                          *)
(***************************************************************************)
EXTENDS Integers, Sequences, FiniteSets, FiniteSetsExt

CONSTANTS Nodes, Services,
          Capacity,          \* what a node has to give
          Size,              \* what the plan of a service takes
          None,
          Uploaded,          \* the services somebody has a world for
          Overtaking,        \* calls for one service overlap at the dispatch
          Lossy,             \* commands are lost before they are dispatched
          MaxAssignments     \* bound: assignments of all services

ASSUME SchedulerAssumption ==
    /\ IsFiniteSet(Services)
    /\ Capacity \in [Nodes -> Nat \ {0}] /\ Size \in [Services -> Nat \ {0}]
    /\ None \notin Nodes /\ MaxAssignments \in Nat \ {0}
    /\ Overtaking \in BOOLEAN /\ Lossy \in BOOLEAN
    /\ Uploaded \subseteq Services

VARIABLES
    node, service,          \* the scheduler's state
    paid,                   \* the subscriptions that are active
    starting,               \* calls of `start` that have passed its checks
    rescan, scheduling,     \* calls of `scheduleQueued`, before and in its loop
    undispatched,           \* commands committed and not yet dispatched
    inbox,                  \* the commands a node has to work off
    container,              \* what runs on a node
    played                  \* whatever ran on some node

calls == <<starting, rescan, scheduling>>
vars == <<node, service, paid, calls, undispatched, inbox, container,
          played>>

agents == <<inbox, container, played>>

Active == {"starting", "running", "stopping"}

Command == [kind : {"restore_and_start", "stop_and_sync"}, service : Services,
            node : Nodes, assignment : Nat, revision : Nat, seed : BOOLEAN]

(* assignment: the number of the service's last assignment.                *)
Service == [status : {"ready", "queued"} \cup Active, node : Nodes \cup {None},
            assignment : Nat, revision : Nat, hasStarted : BOOLEAN,
            seed : {"none", "selected", "sent"}]

Played == [service : Services, assignment : Nat, revision : Nat]

TypeOK ==
    /\ node \in [Nodes -> [status : {"absent", "ready", "draining", "offline"},
                           fresh : BOOLEAN]]
    /\ service \in [Services -> Service]
    /\ \A s \in Services :
          service[s].status \in Active <=> service[s].node # None
    /\ paid \subseteq Services /\ starting \subseteq Services
    /\ rescan \in BOOLEAN /\ scheduling \subseteq Services
    /\ undispatched \subseteq Command
    /\ inbox \in [Nodes -> Seq(Command)]
    /\ played \subseteq Played
    /\ container \in [Nodes -> SUBSET played]

Init ==
    /\ node = [n \in Nodes |-> [status |-> "absent", fresh |-> FALSE]]
    /\ service = [s \in Services |->
         [status |-> "ready", node |-> None, assignment |-> 0, revision |-> 0,
          hasStarted |-> FALSE, seed |-> "none"]]
    /\ paid = Services
    /\ starting = {} /\ rescan = FALSE /\ scheduling = {}
    /\ undispatched = {}
    /\ inbox = [n \in Nodes |-> <<>>]
    /\ container = [n \in Nodes |-> {}]
    /\ played = {}
-----------------------------------------------------------------------------

(* Fault for a mutation run: a service that stops has left its node.       *)
OnNode_Running(n) ==
    {s \in Services : service[s].node = n
                      /\ service[s].status \in {"starting", "running"}}

(* activeOnNode.                                                           *)
OnNode(n) ==
    {s \in Services : service[s].node = n /\ service[s].status \in Active}

(* What the plans of services take, unit by unit.                          *)
Units(S) == UNION {{s} \X (1..Size[s]) : s \in S}

(* nodeUsage, and what it leaves of the node.                              *)
Usage(n) == Cardinality(Units(OnNode(n)))
Room(n) == Capacity[n] - Usage(n)

(* Fault for a mutation run: one unit too many.                            *)
Fitting_OffByOne(s) ==
    {n \in Nodes : node[n].status = "ready" /\ Room(n) + 1 >= Size[s]}

Fitting(s) ==
    {n \in Nodes : node[n].status = "ready" /\ Room(n) >= Size[s]}

(* selectNode: the tightest fit; equals are told apart by their names.     *)
SelectNode(s) ==
    {n \in Fitting(s) : \A m \in Fitting(s) : Room(n) <= Room(m)}

CommandFor(record, s, kind) ==
    [kind |-> kind, service |-> s, node |-> record.node,
     assignment |-> record.assignment, revision |-> record.revision,
     seed |-> record.seed = "selected"]

(* Without overtaking no start or stop of a service commits before the     *)
(* command of the one before it was dispatched.                            *)
Send(commands) ==
    /\ Overtaking \/ \A c \in commands, d \in undispatched :
                       c.service # d.service
    /\ undispatched' = undispatched \cup commands

(* assignOrQueue.                                                          *)
AssignOrQueue(s) ==
    \/ /\ Fitting(s) = {}
       /\ service' = [service EXCEPT ![s].status = "queued",
                                     ![s].hasStarted = TRUE]
       /\ UNCHANGED undispatched
    \/ \E n \in SelectNode(s) :
        /\ service' = [service EXCEPT ![s].status = "starting",
                                      ![s].node = n,
                                      ![s].assignment = @ + 1,
                                      ![s].hasStarted = TRUE]
        /\ Send({CommandFor(service'[s], s, "restore_and_start")})

Queued == {s \in Services : service[s].status = "queued"}

(* `start` up to its transaction: the service exists and is paid.          *)
StartCheck(s) ==
    /\ s \in paid /\ s \notin starting
    /\ MapThenSumSet(LAMBDA t : service[t].assignment, Services)
         + Cardinality(starting \cup Queued) < MaxAssignments
    /\ starting' = starting \cup {s}
    /\ UNCHANGED <<node, service, paid, rescan, scheduling, undispatched,
                   agents>>

(* Fault for a mutation run: a service that has not stopped yet is started. *)
Startable_Stopping == {"ready", "queued", "stopping"}

Startable == {"ready", "queued"}

(* The transaction of `start`.                                             *)
Start(s) ==
    /\ s \in starting
    /\ starting' = starting \ {s}
    /\ IF service[s].status \in Startable
       THEN AssignOrQueue(s)
       ELSE UNCHANGED <<service, undispatched>>
    /\ UNCHANGED <<node, paid, rescan, scheduling, agents>>

(* Fault for a mutation run: the node of a service that starts is not told *)
(* to stop it.                                                             *)
StopAll_RunningOnly(S) ==
    LET stopped == {s \in S : service[s].status \in {"starting", "running"}} IN
    /\ service' = [s \in Services |->
         IF s \in stopped THEN [service[s] EXCEPT !.status = "stopping"]
         ELSE service[s]]
    /\ Send({CommandFor(service'[s], s, "stop_and_sync") :
               s \in {t \in stopped : service[t].status = "running"}})

(* The services of S that start or run are told to stop.                   *)
StopAll(S) ==
    LET stopped == {s \in S : service[s].status \in {"starting", "running"}} IN
    /\ service' = [s \in Services |->
         IF s \in stopped THEN [service[s] EXCEPT !.status = "stopping"]
         ELSE service[s]]
    /\ Send({CommandFor(service'[s], s, "stop_and_sync") : s \in stopped})

Stop(s) ==
    /\ service[s].status \in {"starting", "running"}
    /\ StopAll({s})
    /\ UNCHANGED <<node, paid, calls, agents>>

(* A renewal or an hour is not paid.                                       *)
PaymentFails(s) ==
    /\ s \in paid /\ paid' = paid \ {s}
    /\ UNCHANGED <<node, service, calls, undispatched, agents>>

EnforcePaymentDue(s) ==
    /\ s \notin paid
    /\ service[s].status \in {"starting", "running"}
    /\ StopAll({s})
    /\ UNCHANGED <<node, paid, calls, agents>>

(* First start only.                                                       *)
SelectInitialWorld(s) ==
    /\ s \in Uploaded /\ s \in paid /\ service[s].status = "ready"
    /\ ~service[s].hasStarted /\ service[s].revision = 0
    /\ service' = [service EXCEPT ![s].seed = "selected"]
    /\ UNCHANGED <<node, paid, calls, undispatched, agents>>

Assigned(n, c, status) ==
    /\ service[c.service].node = n
    /\ service[c.service].assignment = c.assignment
    /\ service[c.service].status = status

(* reportStarted: from now on the seed is not sent again.                  *)
ReportStarted(n) ==
    \E c \in container[n] :
        LET s == c.service IN
        /\ Assigned(n, c, "starting")
        /\ service' = [service EXCEPT
             ![s].status = IF s \in paid THEN "running" ELSE "stopping",
             ![s].seed = IF @ = "selected" THEN "sent" ELSE @]
        /\ Send(IF s \in paid THEN {}
                ELSE {CommandFor(service'[s], s, "stop_and_sync")})
        /\ UNCHANGED <<node, paid, calls, agents>>

(* The node has stopped and synced what the command at the head of its     *)
(* inbox names.                                                            *)
Synced(n) ==
    /\ inbox[n] # <<>> /\ Head(inbox[n]).kind = "stop_and_sync"
    /\ \A c \in container[n] : c.assignment = Head(inbox[n]).assignment
          => c.service # Head(inbox[n]).service

(* Fault for a mutation run: nobody looks who could have the room now.     *)
ReportStopped_NoRescan(n) ==
    /\ Synced(n) /\ Assigned(n, Head(inbox[n]), "stopping")
    /\ service' = [service EXCEPT
         ![Head(inbox[n]).service].status = "ready",
         ![Head(inbox[n]).service].node = None,
         ![Head(inbox[n]).service].revision = Head(inbox[n]).revision + 1]
    /\ inbox' = [inbox EXCEPT ![n] = Tail(@)]
    /\ UNCHANGED <<node, paid, calls, undispatched, container, played>>

(* Fault for a mutation run: a service that has stopped keeps its node.    *)
ReportStopped_KeepsNode(n) ==
    /\ Synced(n) /\ Assigned(n, Head(inbox[n]), "stopping")
    /\ service' = [service EXCEPT ![Head(inbox[n]).service].status = "ready"]
    /\ rescan' = TRUE
    /\ inbox' = [inbox EXCEPT ![n] = Tail(@)]
    /\ UNCHANGED <<node, paid, starting, scheduling, undispatched, container,
                   played>>

(* Fault for a mutation run: the revision that was synced is not kept.     *)
ReportStopped_OldRevision(n) ==
    /\ Synced(n) /\ Assigned(n, Head(inbox[n]), "stopping")
    /\ service' = [service EXCEPT ![Head(inbox[n]).service].status = "ready",
                                  ![Head(inbox[n]).service].node = None]
    /\ rescan' = TRUE
    /\ inbox' = [inbox EXCEPT ![n] = Tail(@)]
    /\ UNCHANGED <<node, paid, starting, scheduling, undispatched, container,
                   played>>

(* reportStoppedAndSynced.  When its reply is lost the command stays.      *)
ReportStopped(n) ==
    LET c == Head(inbox[n]) IN
    /\ Synced(n) /\ Assigned(n, c, "stopping")
    /\ c.revision + 1 >= service[c.service].revision
    /\ service' = [service EXCEPT ![c.service].status = "ready",
                                  ![c.service].node = None,
                                  ![c.service].revision = c.revision + 1]
    /\ rescan' = TRUE
    /\ inbox' \in {inbox, [inbox EXCEPT ![n] = Tail(@)]}
    /\ UNCHANGED <<node, paid, starting, scheduling, undispatched, container,
                   played>>

(* scheduleQueued reads who is queued ...                                  *)
Rescan ==
    /\ rescan /\ rescan' = FALSE
    /\ scheduling' = scheduling \cup Queued
    /\ UNCHANGED <<node, service, paid, starting, undispatched, agents>>

(* ... and takes them one by one, each in a transaction of its own.        *)
ScheduleQueued(s) ==
    /\ s \in scheduling
    /\ scheduling' = scheduling \ {s}
    /\ IF s \in paid /\ service[s].status = "queued"
       THEN AssignOrQueue(s)
       ELSE UNCHANGED <<service, undispatched>>
    /\ UNCHANGED <<node, paid, starting, rescan, agents>>
-----------------------------------------------------------------------------

Register(n) ==
    /\ node' = [node EXCEPT ![n] = [status |-> "ready", fresh |-> TRUE]]
    /\ rescan' = TRUE
    /\ UNCHANGED <<service, paid, starting, scheduling, undispatched, agents>>

Drained(n) == IF node[n].status = "offline" THEN "offline" ELSE "draining"

(* heartbeatNode; `markNodeDraining` changes the status the same way.      *)
Heartbeat(n, reported) ==
    /\ node[n].status # "absent"
    /\ node' = [node EXCEPT
         ![n] = [status |-> IF reported = "draining" THEN Drained(n)
                            ELSE node[n].status,
                 fresh |-> TRUE]]
    /\ UNCHANGED <<service, paid, calls, undispatched, agents>>

(* nodeHeartbeatTimeoutMs pass without a heartbeat.                        *)
Silence(n) ==
    /\ node[n].fresh
    /\ node' = [node EXCEPT ![n].fresh = FALSE]
    /\ UNCHANGED <<service, paid, calls, undispatched, agents>>

SweepStaleNodes ==
    /\ node' = [n \in Nodes |->
         IF node[n].status = "ready" /\ ~node[n].fresh
         THEN [node[n] EXCEPT !.status = "offline"] ELSE node[n]]
    /\ UNCHANGED <<service, paid, calls, undispatched, agents>>

DrainNode(n) ==
    /\ node[n].status # "absent"
    /\ node' = [node EXCEPT ![n].status = Drained(n)]
    /\ StopAll(OnNode(n))
    /\ UNCHANGED <<paid, calls, agents>>

RemoveNode(n) ==
    /\ node[n].status # "absent" /\ OnNode(n) = {}
    /\ node' = [node EXCEPT ![n] = [status |-> "absent", fresh |-> FALSE]]
    /\ UNCHANGED <<service, paid, calls, undispatched, agents>>
-----------------------------------------------------------------------------

Dispatch(c) ==
    /\ c \in undispatched
    /\ undispatched' = undispatched \ {c}
    /\ inbox' = [inbox EXCEPT ![c.node] = Append(@, c)]
    /\ UNCHANGED <<node, service, paid, calls, container, played>>

(* A command that is never dispatched: the isolate dies, the ingress has   *)
(* no port, an earlier command of the same call could not be dispatched,   *)
(* or the transaction lost a reply and, run again, found itself a replay.  *)
Lose(c) ==
    /\ Lossy /\ c \in undispatched
    /\ undispatched' = undispatched \ {c}
    /\ UNCHANGED <<node, service, paid, calls, agents>>

(* The node agent: restores and starts, or stops and syncs, what the next  *)
(* command names.  It keeps a stop until it could report it, and gives it  *)
(* up when the report is refused.                                          *)
AgentRestore(n) ==
    LET c == Head(inbox[n])
        new == [service |-> c.service, assignment |-> c.assignment,
                revision |-> c.revision] IN
    /\ inbox[n] # <<>> /\ c.kind = "restore_and_start"
    /\ container' = [container EXCEPT ![n] = @ \cup {new}]
    /\ played' = played \cup {new}
    /\ inbox' = [inbox EXCEPT ![n] = Tail(@)]
    /\ UNCHANGED <<node, service, paid, calls, undispatched>>

AgentStop(n) ==
    /\ inbox[n] # <<>> /\ Head(inbox[n]).kind = "stop_and_sync" /\ ~Synced(n)
    /\ container' = [container EXCEPT ![n] =
         {c \in @ : c.service # Head(inbox[n]).service
                    \/ c.assignment # Head(inbox[n]).assignment}]
    /\ UNCHANGED <<node, service, paid, calls, undispatched, inbox, played>>

AgentGivesUp(n) ==
    /\ Synced(n) /\ ~Assigned(n, Head(inbox[n]), "stopping")
    /\ inbox' = [inbox EXCEPT ![n] = Tail(@)]
    /\ UNCHANGED <<node, service, paid, calls, undispatched, container, played>>

Next ==
    \/ \E s \in Services :
        \/ StartCheck(s) \/ Start(s) \/ Stop(s)
        \/ PaymentFails(s) \/ EnforcePaymentDue(s)
        \/ SelectInitialWorld(s) \/ ScheduleQueued(s)
    \/ \E n \in Nodes :
        \/ ReportStarted(n) \/ ReportStopped(n)
        \/ Register(n) \/ Silence(n) \/ DrainNode(n) \/ RemoveNode(n)
        \/ \E reported \in {"ready", "draining"} : Heartbeat(n, reported)
        \/ AgentRestore(n) \/ AgentStop(n) \/ AgentGivesUp(n)
    \/ Rescan
    \/ SweepStaleNodes
    \/ \E c \in undispatched : Dispatch(c) \/ Lose(c)

Spec == Init /\ [][Next]_vars

(* Calls run to their end, and the agents work off their commands.         *)
Fairness ==
    /\ WF_vars(Rescan)
    /\ \A s \in Services : WF_vars(ScheduleQueued(s))
    /\ WF_vars(\E c \in undispatched : Dispatch(c))
    /\ \A n \in Nodes : WF_vars(ReportStarted(n)) /\ WF_vars(ReportStopped(n))
                         /\ WF_vars(AgentRestore(n)) /\ WF_vars(AgentStop(n))
                         /\ WF_vars(AgentGivesUp(n))

FairSpec == Spec /\ Fairness
-----------------------------------------------------------------------------

(* "Revision CAS ensures node capacity is never oversubscribed by          *)
(* concurrent API requests" (sharedHostingScheduler.ts:404).  The          *)
(* scheduler's own account of a node never exceeds the node ...            *)
SlotsFit == \A n \in Nodes : Usage(n) <= Capacity[n]

(* ... and what runs on the node fits it, through stops, drains, removals, *)
(* sweeps and refused payments.                                            *)
ContainersFit ==
    \A n \in Nodes :
        Cardinality(UNION {{c} \X (1..Size[c.service]) : c \in container[n]})
            <= Capacity[n]

(* A world has one home: whatever runs is an assignment the scheduler      *)
(* knows as active on that node, so no two nodes run the same service and  *)
(* nothing runs that no stop would reach.                                  *)
ContainerIsAssigned ==
    \A n \in Nodes : \A c \in container[n] :
        /\ service[c.service].node = n
        /\ service[c.service].assignment = c.assignment
        /\ service[c.service].status \in Active

(* No revision of a world is played on twice: each assignment that ran     *)
(* starts from what the one before it synced, and nothing is lost.         *)
NoWorldForked ==
    \A c, d \in played :
        c.service = d.service /\ c.assignment < d.assignment
        => c.revision < d.revision

(* Placement: neither the scheduler's account of a node nor what runs on   *)
(* it exceeds the node, what runs is assigned there, and no revision of a  *)
(* world is played on twice.                                               *)
PlacementInv ==
    /\ TypeOK
    /\ SlotsFit
    /\ ContainersFit
    /\ ContainerIsAssigned
    /\ NoWorldForked

(* "Set once its first-start command has carried the seed; never resend    *)
(* it" (sharedHostingScheduler.ts:116): no service that has synced a world *)
(* is restored with the seed.                                              *)
SeedNeverResent ==
    \A c \in undispatched \cup UNION {{inbox[n][i] : i \in DOMAIN inbox[n]} :
                                      n \in Nodes} :
        c.kind = "restore_and_start" /\ c.seed => c.revision = 0

(* A queued service gets the room another one gives up, or a node that     *)
(* registers: with nothing lost, no paid service waits beside a node that  *)
(* fits it.                                                                *)
QueuedServed ==
    \A s \in Services :
        service[s].status = "queued" /\ s \in paid /\ Fitting(s) # {}
        ~> service[s].status # "queued" \/ s \notin paid \/ Fitting(s) = {}

(* A stop ends, whatever the service was doing: its room is given back.    *)
StopEnds ==
    \A s \in Services :
        service[s].status = "stopping" ~> service[s].status # "stopping"

(* "Dispatch is at-least-once" (sharedHostingScheduler.ts:1035): the node  *)
(* of a service that is starting gets to restore it.                       *)
DispatchAtLeastOnce ==
    \A s \in Services :
        service[s].status = "starting"
        ~> \/ service[s].status # "starting"
           \/ \E c \in played : /\ c.service = s
                                /\ c.assignment = service[s].assignment
=============================================================================
