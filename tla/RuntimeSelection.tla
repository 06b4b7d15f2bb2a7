--------------------------- MODULE RuntimeSelection ---------------------------
(***************************************************************************)
(* Which compiled content a shared service runs: `apply`, `advance` and    *)
(* `rollback` of SharedModdedRuntimeService (src/src/sharedModdedRuntime.ts)*)
(* around `selectRuntimeContent` and `stop` of the scheduler               *)
(* (src/src/sharedHostingScheduler.ts), and the grants a node asks for     *)
(* before it restores or syncs (src/src/sharedNodeTransport.ts).           *)
(*                                                                         *)
(* The deployments are published, each with content of its own; the        *)
(* content has the name of its deployment.  A transaction of the scheduler *)
(* is one step.  That its commands reach the node, in order, is the matter *)
(* of NodeCommandOutbox; here they are with the node when they are sent.   *)
(***************************************************************************)
EXTENDS Naturals

CONSTANTS Deployments,
          Keys,         \* idempotency keys of clients
          Calls,        \* calls of apply, advance and rollback
          None,
          Operations,   \* those that are called
          Reselects,    \* clients ask for content that is selected already
          MaxStarts,    \* bound: starts of the service
          MaxFaults     \* bound: calls that die

SelectionAssumption ==
    /\ None \notin Deployments
    /\ Operations \subseteq {"apply", "advance", "rollback"}
    /\ Reselects \in BOOLEAN
    /\ MaxStarts \in Nat /\ MaxFaults \in Nat

VARIABLES status,   \* of the deployments
          service,  \* status, and the content the next start restores
          used,     \* idempotency keys the scheduler has seen
          node,     \* the last command, its content, and what is running
          call,
          starts, faults

vars == <<status, service, used, node, call, starts, faults>>

Idle == [pc |-> "idle"]

(* What a key stands for: the deployment is its fingerprint.               *)
SelectKeys ==
    [op : {"apply", "rollback"}, key : Keys] \cup [op : {"advance"}, key : Deployments]
StopKeys == [op : {"stop"}, key : Deployments]

TypeOK ==
    /\ status \in [Deployments -> {"published", "awaiting_stop_sync", "selected"}]
    /\ service \in [status : {"ready", "starting", "running", "stopping"},
                    content : Deployments \cup {None}]
    /\ used \subseteq [id : SelectKeys \cup StopKeys, deployment : Deployments]
    /\ node \in [command : {"none", "restore", "stop"},
                 content : Deployments \cup {None},
                 container : Deployments \cup {"empty", None}]
    /\ call \in [Calls ->
         [pc : {"look", "select", "stop", "selected", "awaiting"},
          deployment : Deployments, id : SelectKeys] \cup {Idle}]
    /\ starts \in 0 .. MaxStarts /\ faults \in 0 .. MaxFaults

Init ==
    /\ status = [d \in Deployments |-> "published"]
    /\ service = [status |-> "ready", content |-> None]
    /\ used = {}
    /\ node = [command |-> "none", content |-> None, container |-> "empty"]
    /\ call = [c \in Calls |-> Idle]
    /\ starts = 0 /\ faults = 0

At(c, pc) == call[c].pc = pc
Goto(c, pc) == call' = [call EXCEPT ![c].pc = pc]
End(c) == call' = [call EXCEPT ![c] = Idle]
-----------------------------------------------------------------------------
(* The service of deployments                                              *)

(* The statuses an operation starts from.                                  *)
From(op) == CASE op = "apply"    -> {"published", "awaiting_stop_sync"}
              [] op = "advance"  -> {"awaiting_stop_sync"}
              [] op = "rollback" -> {"published", "selected"}

(* The key an operation selects with.                                      *)
IdOf_Asked(op, d, k) == [op |-> op, key |-> k]
IdOf(op, d, k) == [op |-> op, key |-> IF op = "advance" THEN d ELSE k]

Ask(c, op, d, k) ==
    /\ call[c] = Idle /\ op \in Operations
    /\ Reselects \/ service.content # d
    /\ status[d] \in From(op)
    /\ call' = [call EXCEPT ![c] =
                  [pc |-> "look", deployment |-> d, id |-> IdOf(op, d, k)]]
    /\ UNCHANGED <<status, service, used, node, starts, faults>>

(* `selectWhenSafe`: what is done depends on what the service was.         *)
Look(c) ==
    /\ At(c, "look")
    /\ CASE service.status = "ready" -> Goto(c, "select")
         [] service.status \in {"starting", "running"} -> Goto(c, "stop")
         [] OTHER -> End(c)
    /\ UNCHANGED <<status, service, used, node, starts, faults>>

Mark(c, pc, value) ==
    /\ At(c, pc)
    /\ status' = [status EXCEPT ![call[c].deployment] = value]
    /\ End(c)
    /\ UNCHANGED <<service, used, node, starts, faults>>

MarkSelected(c) == Mark(c, "selected", "selected")

MarkAwaiting(c) == Mark(c, "awaiting", "awaiting_stop_sync")

Dies(c) ==
    /\ call[c] # Idle /\ faults < MaxFaults
    /\ faults' = faults + 1
    /\ End(c)
    /\ UNCHANGED <<status, service, used, node, starts>>
-----------------------------------------------------------------------------
(* The scheduler                                                           *)

Seen(id) == \E u \in used : u.id = id
Replayed(id, d) == [id |-> id, deployment |-> d] \in used

Selectable_Any == TRUE
Selectable == service.status = "ready"

(* Only a service that is ready gets other content, also in a replay.      *)
Select(c) ==
    /\ At(c, "select")
    /\ LET d == call[c].deployment
           id == call[c].id IN
       CASE ~ Selectable \/ (Seen(id) /\ ~ Replayed(id, d)) ->
              End(c) /\ UNCHANGED <<service, used>>
         [] Selectable /\ Replayed(id, d) ->
              Goto(c, "selected") /\ UNCHANGED <<service, used>>
         [] OTHER ->
              /\ service' = [service EXCEPT !.content = d]
              /\ used' = used \cup {[id |-> id, deployment |-> d]}
              /\ Goto(c, "selected")
    /\ UNCHANGED <<status, node, starts, faults>>

(* What a command carries stays as it was when the command was made.       *)
Send(command) ==
    node' = [node EXCEPT !.command = command, !.content = service.content]

(* The key of a stop is the deployment: it stops once.                     *)
Stop(c) ==
    /\ At(c, "stop")
    /\ LET d == call[c].deployment
           id == [op |-> "stop", key |-> d] IN
       CASE Seen(id) ->
              Goto(c, "awaiting") /\ UNCHANGED <<service, used, node>>
         [] ~ Seen(id) /\ service.status \in {"starting", "running"} ->
              /\ service' = [service EXCEPT !.status = "stopping"]
              /\ used' = used \cup {[id |-> id, deployment |-> d]}
              /\ Send("stop")
              /\ Goto(c, "awaiting")
         [] OTHER -> End(c) /\ UNCHANGED <<service, used, node>>
    /\ UNCHANGED <<status, starts, faults>>

(* The owner starts and stops the service with keys of its own.            *)
OwnerStarts ==
    /\ service.status = "ready" /\ starts < MaxStarts
    /\ service' = [service EXCEPT !.status = "starting"]
    /\ Send("restore")
    /\ starts' = starts + 1
    /\ UNCHANGED <<status, used, call, faults>>

OwnerStops ==
    /\ service.status \in {"starting", "running"}
    /\ service' = [service EXCEPT !.status = "stopping"]
    /\ Send("stop")
    /\ UNCHANGED <<status, used, call, starts, faults>>
-----------------------------------------------------------------------------
(* The node, which needs a grant for what it restores and what it syncs    *)

(* `authorizeNodeRestore`, asked for the content of the command            *)
Grantable_Published == {"published"}
Grantable == {"published", "selected"}
Granted ==
    node.content # None =>
        status[node.content] \in Grantable /\ service.content = node.content

Started ==
    /\ node.command = "restore" /\ Granted
    /\ service.status = "starting"
    /\ service' = [service EXCEPT !.status = "running"]
    /\ node' = [node EXCEPT !.command = "none", !.container = node.content]
    /\ UNCHANGED <<status, used, call, starts, faults>>

Synced ==
    /\ node.command = "stop" /\ Granted
    /\ service' = [service EXCEPT !.status = "ready"]
    /\ node' = [node EXCEPT !.command = "none", !.container = "empty"]
    /\ UNCHANGED <<status, used, call, starts, faults>>
-----------------------------------------------------------------------------

CallStep(c) ==
    Look(c) \/ Select(c) \/ MarkSelected(c) \/ Stop(c) \/ MarkAwaiting(c)

Next ==
    \/ \E c \in Calls, op \in Operations, d \in Deployments, k \in Keys :
          Ask(c, op, d, k)
    \/ \E c \in Calls : CallStep(c) \/ Dies(c)
    \/ OwnerStarts \/ OwnerStops \/ Started \/ Synced

Spec == Init /\ [][Next]_vars

(* A call that does not die goes on, and a node tries until it is granted. *)
Fairness ==
    /\ \A c \in Calls : WF_vars(CallStep(c))
    /\ WF_vars(Started) /\ WF_vars(Synced)

FairSpec == Spec /\ Fairness
-----------------------------------------------------------------------------

(* "Swaps an already-published compiler content layer only while the       *)
(* service is stopped" (sharedHostingScheduler.ts:523): what runs, and     *)
(* what a command carries, is the content of the service, however calls,   *)
(* starts and stops overlap.                                               *)
RunsSelected ==
    service.status # "ready" =>
        /\ node.container \in {"empty", service.content}
        /\ node.command # "none" => node.content = service.content

(* A service that was asked to stop is stopped and synced in the end:      *)
(* nothing the owner does with deployments takes the grant from its node.  *)
StopEnds == service.status = "stopping" ~> service.status = "ready"

(* `advance` "only switches the immutable content pointer while ready"     *)
(* (sharedModdedRuntime.ts:1162): when it succeeds, it has switched it.    *)
AdvanceSwitches ==
    [][\A c \in Calls :
        At(c, "select") /\ call[c].id.op = "advance" /\ call'[c].pc = "selected"
        => service'.content = call[c].deployment]_vars

(* A deployment waits for a stop that is under way ("stops before changing *)
(* a running service", sharedModdedRuntime.test.ts:425).                   *)
AwaitsAStop ==
    [][\A c \in Calls : At(c, "stop") /\ call'[c].pc = "awaiting"
                        => service'.status = "stopping"]_vars
=============================================================================
