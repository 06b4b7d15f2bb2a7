---------------------------- MODULE WorkspaceSync ----------------------------
(***************************************************************************)
(* How the world of a shared service gets from its node back to the object *)
(* storage, and how the service has a port meanwhile:                      *)
(* `DurableSharedNodeCommandGateway`, the ingress and the manifest         *)
(* repositories, the workspace grants and `stoppedAndSynced` of            *)
(* `SharedNodeTransportService` (src/src/sharedNodeTransport.ts).          *)
(*                                                                         *)
(* There is one node, and its commands come in order (NodeCommandOutbox).  *)
(* The scheduler is reduced to the life of an assignment                   *)
(* (SharedHostingScheduler).  A manifest is told from another by its hash. *)
(***************************************************************************)
EXTENDS Naturals, Sequences, FiniteSets

CONSTANTS Services, Ports, None,
          Crashes,          \* isolates die in the middle of a call
          Rebuilds,         \* the agent may make another manifest of a world
          MaxRevision,      \* bound: assignments of a service
          MaxReports        \* bound: reports of the node on their way

SyncAssumption ==
    /\ None \notin Ports
    /\ Crashes \in BOOLEAN /\ Rebuilds \in BOOLEAN
    /\ MaxRevision \in Nat \ {0} /\ MaxReports \in Nat \ {0}

VARIABLES service,      \* what the scheduler knows
          port,         \* shared_node_ingress_reservations
          dispatching,  \* calls of the gateway's dispatch
          inbox,        \* the commands of the node
          container, snapshot,  \* the agent: what runs, what it will sync
          manifest,     \* shared_workspace_manifests
          putGrants,    \* signed URLs for manifest objects, and ...
          object,       \* ... what was put there
          reports       \* calls of stoppedAndSynced

agent == <<container, snapshot>>
storage == <<manifest, putGrants, object>>
vars == <<service, port, dispatching, inbox, agent, storage, reports>>

Revisions == 1 .. MaxRevision
Hash == Nat

(* Assignments are numbered from 1; the assignment that starts from        *)
(* revision r syncs revision r + 1.                                        *)
Assignment == [service : Services, assignment : Nat]
Command == [kind : {"restore_and_start", "stop_and_sync"}, service : Services,
            assignment : Nat, revision : Nat]
NoPort == [service |-> None, assignment |-> 0]
NoManifest == [status |-> "none", assignment |-> 0, hash |-> 0]

TypeOK ==
    /\ service \in [Services ->
         [status : {"ready", "starting", "running", "stopping"},
          assignment : Nat, revision : 0 .. MaxRevision, hash : Hash]]
    /\ \A p \in Ports : port[p] \in Assignment \cup {NoPort}
    /\ dispatching \subseteq [command : Command, pc : {"find", "reserve"}]
    /\ inbox \in Seq([command : Command, port : Ports])
    /\ container \subseteq [command : Command, port : Ports, hash : Hash]
    /\ snapshot \in [Services -> Hash]
    /\ manifest \in [Services -> [Revisions ->
         [status : {"none", "draft", "published"}, assignment : Nat,
          hash : Hash]]]
    /\ putGrants \subseteq [service : Services, revision : Revisions,
                            hash : Hash]
    /\ object \in [Services -> [Revisions -> Hash]]
    /\ reports \subseteq [command : Command, hash : Hash,
                          pc : {"publish", "report", "release"}]

Init ==
    /\ service = [s \in Services |->
         [status |-> "ready", assignment |-> 0, revision |-> 0, hash |-> 0]]
    /\ port = [p \in Ports |-> NoPort]
    /\ dispatching = {} /\ inbox = <<>> /\ container = {}
    /\ snapshot = [s \in Services |-> 0]
    /\ manifest = [s \in Services |-> [r \in Revisions |-> NoManifest]]
    /\ putGrants = {} /\ reports = {}
    /\ object = [s \in Services |-> [r \in Revisions |-> 0]]
-----------------------------------------------------------------------------

CommandFor(s, kind, assignment) ==
    [kind |-> kind, service |-> s, assignment |-> assignment,
     revision |-> service[s].revision]

(* A command leaves the scheduler when the one before it was dispatched.   *)
Dispatched(s) == \A d \in dispatching : d.command.service # s

Start(s) ==
    /\ service[s].status = "ready" /\ Dispatched(s)
    /\ service[s].assignment < MaxRevision
    /\ service' = [service EXCEPT ![s].status = "starting",
                                  ![s].assignment = @ + 1]
    /\ dispatching' = dispatching \cup
         {[command |-> CommandFor(s, "restore_and_start",
                                  service[s].assignment + 1),
           pc |-> "find"]}
    /\ UNCHANGED <<port, inbox, agent, storage, reports>>

Stop(s) ==
    /\ service[s].status \in {"starting", "running"} /\ Dispatched(s)
    /\ service' = [service EXCEPT ![s].status = "stopping"]
    /\ dispatching' = dispatching \cup
         {[command |-> CommandFor(s, "stop_and_sync", service[s].assignment),
           pc |-> "find"]}
    /\ UNCHANGED <<port, inbox, agent, storage, reports>>

Of(x) == [service |-> x.service, assignment |-> x.assignment]

(* findByAssignment.                                                       *)
Reserved(c) == {p \in Ports : port[p] = Of(c)}

Enqueue(d, p) ==
    /\ inbox' = Append(inbox, [command |-> d.command, port |-> p])
    /\ dispatching' = dispatching \ {d}

(* Fault for a mutation run: a command is sent without a connection.       *)
FindPort_NoConnection(d) ==
    /\ d \in dispatching /\ d.pc = "find"
    /\ \/ \E p \in Reserved(d.command) : Enqueue(d, p)
       \/ Reserved(d.command) = {} /\ Enqueue(d, None)
    /\ UNCHANGED <<service, port, agent, storage, reports>>

(* reserve finds the port of the assignment, or goes on to take one ...    *)
FindPort(d) ==
    /\ d \in dispatching /\ d.pc = "find"
    /\ \/ \E p \in Reserved(d.command) : Enqueue(d, p)
       \/ /\ Reserved(d.command) = {}
          /\ dispatching' = (dispatching \ {d}) \cup {[d EXCEPT !.pc = "reserve"]}
          /\ UNCHANGED inbox
    /\ UNCHANGED <<service, port, agent, storage, reports>>

(* Fault for a mutation run: a port is taken without a look at its holder. *)
Free_Any(p) == TRUE

Free(p) == port[p] = NoPort

(* ... the first that is free, beginning anywhere.                         *)
ReservePort(d) ==
    /\ d \in dispatching /\ d.pc = "reserve"
    /\ \E p \in Ports :
        /\ Free(p)
        /\ port' = [port EXCEPT ![p] = Of(d.command)]
        /\ Enqueue(d, p)
    /\ UNCHANGED <<service, agent, storage, reports>>

(* The isolate dies, or there is no free port.                             *)
DispatchFails(d) ==
    /\ d \in dispatching
    /\ Crashes \/ (d.pc = "reserve" /\ \A p \in Ports : port[p] # NoPort)
    /\ dispatching' = dispatching \ {d}
    /\ UNCHANGED <<service, port, inbox, agent, storage, reports>>
-----------------------------------------------------------------------------

Now == Head(inbox)
Doing(kind) == inbox # <<>> /\ Now.command.kind = kind

(* workspaceRestoreGrant: nothing but a published revision is restored.    *)
RestoreGranted(c) ==
    c.revision > 0 => manifest[c.service][c.revision].status = "published"

Restore ==
    LET c == Now.command IN
    /\ Doing("restore_and_start") /\ RestoreGranted(c)
    /\ container' = container \cup
         {[command |-> c, port |-> Now.port,
           hash |-> IF c.revision = 0 THEN 0
                    ELSE object[c.service][c.revision]]}
    /\ inbox' = Tail(inbox)
    /\ UNCHANGED <<service, port, dispatching, snapshot, storage, reports>>

(* started: the endpoint must be the one that is reserved.                 *)
Started ==
    \E x \in container :
        LET s == x.command.service IN
        /\ port[x.port] = Of(x.command)
        /\ service[s].status = "starting"
        /\ service[s].assignment = x.command.assignment
        /\ service' = [service EXCEPT ![s].status = "running"]
        /\ UNCHANGED <<port, dispatching, inbox, agent, storage, reports>>

Running(c) == {x \in container : Of(x.command) = Of(c)}

(* The container stops and the agent makes a manifest of its world.  It    *)
(* keeps it, but Rebuilds lets it make another, of another hash.           *)
MakeManifest ==
    LET c == Now.command
        new == IF snapshot[c.service] \div 2 = c.assignment
               THEN 2 * c.assignment + 1 ELSE 2 * c.assignment IN
    /\ Doing("stop_and_sync")
    /\ snapshot[c.service] \div 2 # c.assignment
       \/ (Rebuilds /\ snapshot[c.service] = 2 * c.assignment)
    /\ snapshot' = [snapshot EXCEPT ![c.service] = new]
    /\ container' = container \ Running(c)
    /\ UNCHANGED <<service, port, dispatching, inbox, storage, reports>>

HasManifest(c) == snapshot[c.service] \div 2 = c.assignment

Draft(c, hash) ==
    [status |-> "draft", assignment |-> c.assignment, hash |-> hash]

(* Fault for a mutation run: a draft is replaced by a newer one.           *)
Preparable_Replace(c, hash) ==
    manifest[c.service][c.revision + 1].status # "published"

(* Fault for a mutation run: a published one is replaced, too.             *)
Preparable_Always(c, hash) == TRUE

(* prepare: the first one, or the same again.                              *)
Preparable(c, hash) ==
    manifest[c.service][c.revision + 1] \in {NoManifest, Draft(c, hash)}

(* workspaceSyncGrant, and the upload of the layers.                       *)
SyncGrant ==
    LET c == Now.command
        hash == snapshot[c.service] IN
    /\ Doing("stop_and_sync") /\ HasManifest(c) /\ Preparable(c, hash)
    /\ manifest' = [manifest EXCEPT
         ![c.service][c.revision + 1] = Draft(c, hash)]
    /\ UNCHANGED <<service, port, dispatching, inbox, agent, putGrants, object,
                   reports>>

(* workspacePublishGrant: a URL for the manifest object of the draft.      *)
PublishGrant ==
    LET c == Now.command
        hash == snapshot[c.service] IN
    /\ Doing("stop_and_sync") /\ HasManifest(c)
    /\ manifest[c.service][c.revision + 1] = Draft(c, hash)
    /\ putGrants' = putGrants \cup
         {[service |-> c.service, revision |-> c.revision + 1, hash |-> hash]}
    /\ UNCHANGED <<service, port, dispatching, inbox, agent, manifest, object,
                   reports>>

(* A granted upload arrives, sooner or later, once or again.               *)
Upload(g) ==
    /\ g \in putGrants
    /\ object' = [object EXCEPT ![g.service][g.revision] = g.hash]
    /\ UNCHANGED <<service, port, dispatching, inbox, agent, manifest,
                   putGrants, reports>>

(* The agent reports a world whose manifest it has put.                    *)
SendReport ==
    LET c == Now.command
        hash == snapshot[c.service] IN
    /\ Doing("stop_and_sync") /\ HasManifest(c)
    /\ [service |-> c.service, revision |-> c.revision + 1, hash |-> hash]
         \in putGrants
    /\ object[c.service][c.revision + 1] = hash
    /\ Cardinality(reports) < MaxReports
    /\ reports' = reports \cup {[command |-> c, hash |-> hash, pc |-> "publish"]}
    /\ UNCHANGED <<service, port, dispatching, inbox, agent, storage>>
-----------------------------------------------------------------------------

(* The filter of markPublished.                                            *)
Publishable(r) ==
    LET m == manifest[r.command.service][r.command.revision + 1] IN
    /\ m.status # "none" /\ m.assignment = r.command.assignment
    /\ m.hash = r.hash

Go(r, pc) == reports' = (reports \ {r}) \cup {[r EXCEPT !.pc = pc]}

(* stoppedAndSynced, while the command is leased: markPublished ...        *)
MarkPublished(r) ==
    /\ r \in reports /\ r.pc = "publish"
    /\ inbox # <<>> /\ Now.command = r.command
    /\ Publishable(r)
    /\ manifest' = [manifest EXCEPT
         ![r.command.service][r.command.revision + 1].status = "published"]
    /\ Go(r, "report")
    /\ UNCHANGED <<service, port, dispatching, inbox, agent, putGrants, object>>

(* Fault for a mutation run: only what still runs can be reported.         *)
Stopping_Running(c) ==
    /\ service[c.service].status = "running"
    /\ service[c.service].assignment = c.assignment

Stopping(c) ==
    /\ service[c.service].status = "stopping"
    /\ service[c.service].assignment = c.assignment

(* Fault for a mutation run: the scheduler keeps the revision it had.      *)
Report_KeepsRevision(r) ==
    LET c == r.command IN
    /\ r \in reports /\ r.pc = "report" /\ Stopping(c)
    /\ service' = [service EXCEPT ![c.service].status = "ready",
                                  ![c.service].hash = r.hash]
    /\ Go(r, "release")
    /\ UNCHANGED <<port, dispatching, inbox, agent, storage>>

(* ... then the scheduler's reportStoppedAndSynced ...                     *)
Report(r) ==
    LET c == r.command IN
    /\ r \in reports /\ r.pc = "report" /\ Stopping(c)
    /\ service' = [service EXCEPT ![c.service].status = "ready",
                                  ![c.service].revision = c.revision + 1,
                                  ![c.service].hash = r.hash]
    /\ Go(r, "release")
    /\ UNCHANGED <<port, dispatching, inbox, agent, storage>>

(* Fault for a mutation run: the port is not given back.                   *)
Release_Keep(r) ==
    /\ r \in reports /\ r.pc = "release"
    /\ reports' = reports \ {r}
    /\ UNCHANGED <<service, port, dispatching, inbox, agent, storage>>

(* ... and the port is free.                                               *)
Release(r) ==
    /\ r \in reports /\ r.pc = "release"
    /\ port' = [p \in Ports |-> IF port[p] = Of(r.command) THEN NoPort
                                ELSE port[p]]
    /\ reports' = reports \ {r}
    /\ UNCHANGED <<service, dispatching, inbox, agent, storage>>

(* A step of the call throws, or its isolate dies.  `scheduleQueued`, at   *)
(* the end of the scheduler's report, may throw for another service.       *)
ReportFails(r) ==
    /\ r \in reports
    /\ \/ Crashes
       \/ r.pc = "publish" /\ ~(inbox # <<>> /\ Now.command = r.command
                                /\ Publishable(r))
       \/ r.pc = "report" /\ ~Stopping(r.command)
    /\ reports' = reports \ {r}
    /\ UNCHANGED <<service, port, dispatching, inbox, agent, storage>>

(* The agent acknowledges a stop that is reported or not wanted any more.  *)
Acknowledge ==
    /\ Doing("stop_and_sync") /\ ~Stopping(Now.command)
    /\ inbox' = Tail(inbox)
    /\ UNCHANGED <<service, port, dispatching, agent, storage, reports>>

Next ==
    \/ \E s \in Services : Start(s) \/ Stop(s)
    \/ \E d \in dispatching : FindPort(d) \/ ReservePort(d) \/ DispatchFails(d)
    \/ Restore \/ Started
    \/ MakeManifest \/ SyncGrant \/ PublishGrant \/ SendReport
    \/ \E g \in putGrants : Upload(g)
    \/ \E r \in reports :
        MarkPublished(r) \/ Report(r) \/ Release(r) \/ ReportFails(r)
    \/ Acknowledge

Spec == Init /\ [][Next]_vars

(* The agent goes on with its commands; calls come to their ends.          *)
Fairness ==
    /\ WF_vars(Restore) /\ WF_vars(MakeManifest) /\ WF_vars(SyncGrant)
    /\ WF_vars(PublishGrant) /\ WF_vars(SendReport) /\ WF_vars(Acknowledge)
    /\ \A s \in Services, r \in Revisions, h \in 0 .. 2 * MaxRevision + 1 :
         WF_vars(Upload([service |-> s, revision |-> r, hash |-> h]))
    /\ WF_vars(\E d \in dispatching : FindPort(d) \/ ReservePort(d)
                                      \/ DispatchFails(d))
    /\ WF_vars(\E r \in reports : MarkPublished(r) \/ Report(r) \/ Release(r)
                                  \/ ReportFails(r))

FairSpec == Spec /\ Fairness
-----------------------------------------------------------------------------

(* The revision the scheduler has for a service is published, as the node  *)
(* reported it, and that is what the storage holds: not what an upload     *)
(* that was late, or a draft that was given up, would have put there.      *)
CanonicalRevision ==
    \A s \in Services :
        LET r == service[s].revision IN
        r > 0 => /\ manifest[s][r].status = "published"
                 /\ manifest[s][r].hash = service[s].hash
                 /\ object[s][r] = service[s].hash

(* "this is the authority used to constrain restore keys and to prevent a  *)
(* later command from acquiring an overwrite grant"                        *)
(* (sharedNodeTransport.ts:1139): a published manifest stays what it is.   *)
KeepsPublished ==
    \A s \in Services : \A r \in Revisions :
        manifest[s][r].status = "published"
        => manifest'[s][r] = manifest[s][r]

(* Each restore starts from what the stop before it has synced.            *)
RestoredIsSynced ==
    \A x \in container :
        service[x.command.service].assignment = x.command.assignment
        /\ service[x.command.service].status # "ready"
        => x.hash = service[x.command.service].hash

(* "Reserves the externally reachable port before an agent can receive a   *)
(* command" (sharedNodeTransport.ts:362): what runs holds the port it      *)
(* listens on, so no two containers have the same.                         *)
ContainerHoldsPort ==
    \A x \in container : port[x.port] = Of(x.command)

(* When nothing dies, the port of an assignment that ended is given back.  *)
PortGivenBack ==
    \A s \in Services :
        service[s].status = "ready" ~> \/ service[s].status # "ready"
                                       \/ \A p \in Ports : port[p].service # s

(* When nothing dies and the agent keeps its manifest, the stop of a       *)
(* service that has a port ends with its world synced.                     *)
SyncEnds ==
    \A s \in Services :
        /\ service[s].status = "stopping"
        /\ \E p \in Ports : port[p] = [service |-> s,
                                       assignment |-> service[s].assignment]
        ~> service[s].status = "ready"
=============================================================================
