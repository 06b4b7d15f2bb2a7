--------------------------- MODULE CapacityRequests ---------------------------
(***************************************************************************)
(* Requests for nodes: what services that wait for a place ask for, and    *)
(* what sweeps do with it (src/src/sharedHostingScheduler.ts).             *)
(*                                                                         *)
(* A node has one place.  Services are numbered in the order they were     *)
(* created.  A request has the id of its service, so that the second       *)
(* request of a service has the id of its first.  Sweeps take the oldest   *)
(* request, ask the provisioner for a node (SharedNodeProvisioner), and    *)
(* write down how it went.  Placement is in SharedHostingScheduler.        *)
(***************************************************************************)
EXTENDS Integers, Sequences, FiniteSets, FiniteSetsExt

CONSTANTS NumServices, Sweeps, None,
          Limit,        \* requests of one sweep
          MaxRequests, MaxFaults  \* bounds

Services == 1 .. NumServices

CapacityAssumption ==
    /\ {NumServices, Limit, MaxRequests} \subseteq Nat \ {0}
    /\ MaxFaults \in Nat
    /\ None \notin Services

VARIABLES service,   \* status, and whether capacityRequestedAt is set
          requests,  \* capacityRequests
          bought,    \* the requests for which the provisioner has a node
          rescan,    \* a stop is about to look at the queue
          sweep, faults

vars == <<service, requests, bought, rescan, sweep, faults>>

Idle == [pc |-> "idle", id |-> None, count |-> 0]

TypeOK ==
    /\ service \in [Services -> [status : {"ready", "queued", "starting"},
                                 asked : BOOLEAN]]
    /\ requests \in Seq([id : Services, late : BOOLEAN,
                         status : {"queued", "processing", "completed", "failed"}])
    /\ bought \subseteq Services /\ rescan \in BOOLEAN
    /\ sweep \in [Sweeps -> [pc : {"idle", "claim", "ask", "complete", "schedule",
                                   "refused", "unknown"},
                             id : Services \cup {None}, count : 0 .. Limit]]
    /\ faults \in 0 .. MaxFaults

Init ==
    /\ service = [s \in Services |-> [status |-> "ready", asked |-> FALSE]]
    /\ requests = <<>> /\ bought = {} /\ rescan = FALSE
    /\ sweep = [w \in Sweeps |-> Idle] /\ faults = 0
-----------------------------------------------------------------------------
(* selectNode finds a node.                                                *)
Room == Cardinality(bought)
        > Cardinality({s \in Services : service[s].status = "starting"})

(* assignOrQueue.                                                          *)
AssignOrQueue(s) ==
    IF Room
    THEN /\ service' = [service EXCEPT ![s] = [status |-> "starting", asked |-> FALSE]]
         /\ UNCHANGED requests
    ELSE /\ service' = [service EXCEPT ![s] = [status |-> "queued", asked |-> TRUE]]
         /\ requests' = IF service[s].asked THEN requests
                        ELSE Append(requests, [id |-> s, status |-> "queued", late |-> FALSE])

(* start, whose transaction places the service or queues it.               *)
Start(s) ==
    /\ service[s].status \in {"ready", "queued"}
    /\ Room \/ service[s].asked \/ Len(requests) < MaxRequests
    /\ AssignOrQueue(s)
    /\ UNCHANGED <<bought, rescan, sweep, faults>>

(* stop and reportStoppedAndSynced, which looks at the queue.              *)
Stop(s) ==
    /\ service[s].status = "starting"
    /\ service' = [service EXCEPT ![s].status = "ready"]
    /\ rescan' = TRUE
    /\ UNCHANGED <<requests, bought, sweep, faults>>

Waiting == {s \in Services : service[s].status = "queued"}

(* scheduleQueued: services in the order they were created.                *)
ScheduleFirst == Waiting # {} /\ Room /\ AssignOrQueue(Min(Waiting))

Rescan ==
    /\ rescan
    /\ \/ ScheduleFirst /\ UNCHANGED rescan
       \/ ~(Waiting # {} /\ Room) /\ rescan' = FALSE /\ UNCHANGED <<service, requests>>
    /\ UNCHANGED <<bought, sweep, faults>>
-----------------------------------------------------------------------------
Goes(w, pc) == sweep' = [sweep EXCEPT ![w].pc = pc]

(* The next turn of the loop of processCapacityRequests.                   *)
Turns(w) == sweep' = [sweep EXCEPT ![w] = [pc |-> "claim", id |-> None,
                                           count |-> sweep[w].count + 1]]

(* processCapacityRequests.                                                *)
Begin(w) ==
    /\ sweep[w].pc = "idle"
    /\ Goes(w, "claim")
    /\ UNCHANGED <<service, requests, bought, rescan, faults>>

(* Fault for a mutation run: what is processed is never taken again.       *)
Due_Queued == {i \in DOMAIN requests : requests[i].status = "queued"}

Due ==
    {i \in DOMAIN requests :
        \/ requests[i].status = "queued"
        \/ requests[i].status = "processing" /\ requests[i].late}

Claim(w) ==
    /\ sweep[w].pc = "claim"
    /\ IF sweep[w].count = Limit \/ Due = {}
       THEN sweep' = [sweep EXCEPT ![w] = Idle] /\ UNCHANGED requests
       ELSE LET first == Min(Due) IN
            /\ requests' = [requests EXCEPT ![first] =
                              [id |-> @.id, status |-> "processing", late |-> FALSE]]
            /\ sweep' = [sweep EXCEPT ![w] = [pc |-> "ask", id |-> requests[first].id,
                                              count |-> @.count]]
    /\ UNCHANGED <<service, bought, rescan, faults>>

(* The provisioner returns when there is a node for the id; otherwise it   *)
(* does not know, or the provider refuses for good.                        *)
Ask(w) ==
    /\ sweep[w].pc = "ask"
    /\ \/ /\ bought' = bought \cup {sweep[w].id}
          /\ Goes(w, "complete") /\ UNCHANGED faults
       \/ /\ faults < MaxFaults /\ faults' = faults + 1
          /\ \/ Goes(w, "unknown") /\ bought' \in {bought, bought \cup {sweep[w].id}}
             \/ sweep[w].id \notin bought /\ Goes(w, "refused") /\ UNCHANGED bought
    /\ UNCHANGED <<service, requests, rescan>>

(* The request that is found is the first with the id.                     *)
Marked(id, status) ==
    LET found == {i \in DOMAIN requests : requests[i].id = id}
    IN [requests EXCEPT ![Min(found)].status = status]

Complete(w) ==
    /\ sweep[w].pc = "complete"
    /\ \/ requests' = Marked(sweep[w].id, "completed")
          /\ Goes(w, "schedule") /\ UNCHANGED faults
       \/ /\ faults < MaxFaults /\ faults' = faults + 1
          /\ Goes(w, "unknown") /\ UNCHANGED requests
    /\ UNCHANGED <<service, bought, rescan>>

(* scheduleQueued after a completion; an error of it, like one of the      *)
(* completion, counts as one of the request.                               *)
Schedule(w) ==
    /\ sweep[w].pc = "schedule"
    /\ \/ ScheduleFirst /\ UNCHANGED <<sweep, faults>>
       \/ /\ ~(Waiting # {} /\ Room)
          /\ Turns(w) /\ UNCHANGED <<service, requests, faults>>
       \/ /\ faults < MaxFaults /\ faults' = faults + 1
          /\ Goes(w, "unknown") /\ UNCHANGED <<service, requests>>
    /\ UNCHANGED <<bought, rescan>>

(* Fault for a mutation run: any error is the end of the request, which is *)
(* called completed.                                                       *)
Outcome_Any(w) == IF sweep[w].pc = "refused" THEN "failed" ELSE "completed"

Outcome(w) == IF sweep[w].pc = "refused" THEN "failed" ELSE "queued"

Fail(w) ==
    /\ sweep[w].pc \in {"refused", "unknown"}
    /\ requests' = Marked(sweep[w].id, Outcome(w))
    /\ Turns(w)
    /\ UNCHANGED <<service, bought, rescan, faults>>

Step(w) == Claim(w) \/ Ask(w) \/ Complete(w) \/ Schedule(w) \/ Fail(w)

(* The isolate ends.                                                       *)
Die(w) ==
    /\ sweep[w].pc # "idle"
    /\ faults < MaxFaults /\ faults' = faults + 1
    /\ sweep' = [sweep EXCEPT ![w] = Idle]
    /\ UNCHANGED <<service, requests, bought, rescan>>

(* capacityRequestTimeoutMs passes since a request was taken.              *)
TimeOut(i) ==
    /\ requests[i].status = "processing" /\ ~requests[i].late
    /\ requests' = [requests EXCEPT ![i].late = TRUE]
    /\ UNCHANGED <<service, bought, rescan, sweep, faults>>

Next ==
    \/ \E s \in Services : Start(s) \/ Stop(s)
    \/ \E w \in Sweeps : Begin(w) \/ Step(w) \/ Die(w)
    \/ \E i \in DOMAIN requests : TimeOut(i)
    \/ Rescan

(* The cron starts sweeps again and again.                                 *)
Fairness ==
    /\ WF_vars(\E i \in DOMAIN requests : TimeOut(i)) /\ WF_vars(Rescan)
    /\ \A w \in Sweeps : WF_vars(Begin(w)) /\ WF_vars(Step(w))

Spec == Init /\ [][Next]_vars /\ Fairness
-----------------------------------------------------------------------------
(* A request that is called completed has a node, although sweeps overlap, *)
(* die and are late, and requests of one service share an id.              *)
CompletedIsBought ==
    \A i \in DOMAIN requests :
        requests[i].status = "completed" => requests[i].id \in bought

(* While each service has asked once, every request is completed or failed *)
(* in the end, also when the sweep that took it died, or did not hear what *)
(* became of it.                                                           *)
OneEach == \A i, j \in DOMAIN requests : requests[i].id = requests[j].id => i = j

RequestsEnd ==
    \A s \in Services :
        (\E i \in DOMAIN requests : requests[i].id = s)
            ~> (\/ ~OneEach
                \/ \E i \in DOMAIN requests :
                     requests[i].id = s /\ requests[i].status \in {"completed", "failed"})
=============================================================================
