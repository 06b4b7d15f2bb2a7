------------------------ MODULE SharedNodeProvisioner ------------------------
(***************************************************************************)
(* `VultrSharedNodeProvisioner` (src/src/sharedNodeProvisioner.ts): how a  *)
(* request for capacity becomes a volume, a VM and a node of the pool, and *)
(* how the node is drained and given back.                                 *)
(*                                                                         *)
(* There is one request and its record.  Isolates work on copies of the    *)
(* record and save the whole of it (replaceOne).  The provider             *)
(* (src/src/vultr.ts) does what it is asked later than it answers, or      *)
(* never, and an isolate may not get the answer.  A name of a resource is  *)
(* a label that every create of this request uses.                         *)
(***************************************************************************)
EXTENDS Naturals, FiniteSets

CONSTANTS Isolates,
          Faults,   \* isolates die, reads fail, the provider loses requests
          Drains,   \* nodes are drained
          MaxIds    \* bound: creates of a volume, and of a VM

ASSUME ProvisionerAssumption ==
    /\ Faults \in BOOLEAN /\ Drains \in BOOLEAN
    /\ MaxIds \in Nat \ {0, 1}

VARIABLES record,    \* shared_node_provisioning
          call,      \* what the isolates are doing
          volumes, instances,  \* the provider: what exists, ...
          at,        \* ... the VM a volume is attached to, ...
          asked,     \* ... the requests it has not served yet, ...
          ids,       \* ... and how many of each were asked for
          node,      \* the scheduler: the node, ...
          active,    \* ... and whether it has active services
          forgotten  \* history: what a drain saved a record without the
                     \* attempt of, although one was written down

cloud == <<volumes, instances, at, asked, ids>>
pool == <<node, active>>
vars == <<record, call, cloud, pool, forgotten>>

Ids == 1 .. MaxIds
Kinds == {"volume", "instance"}

Requesting == {"ensureVolume", "createVolume", "volumeAnswer",
               "ensureInstance", "createInstance", "instanceAnswer",
               "ensureAttachment", "attach"}
Draining == {"drain", "saveDraining", "deleteInstance", "detach",
             "deleteVolume", "removeNode", "saveDeleted"}
(* The places where a call polls for minutes.                              *)
Waiting == {"awaitAttachment", "awaitRegistration", "awaitNoServices",
            "awaitInstanceGone", "awaitDetached", "awaitVolumeGone"}

Record == [status : {"creating", "ready", "draining", "deleted", "failed",
                     "unknown"},
           volumeStatus : {"creating", "attaching", "attached", "detaching",
                           "deleted", "unknown"},
           volume : Ids \cup {0}, instance : Ids \cup {0},
           volumeTried : BOOLEAN, instanceTried : BOOLEAN]

Fresh(status) == [status |-> status, volumeStatus |-> "creating",
                  volume |-> 0, instance |-> 0,
                  volumeTried |-> FALSE, instanceTried |-> FALSE]
NewRecord == Fresh("creating")
NoRecord == Fresh("none")
Idle == [pc |-> "idle", rec |-> NoRecord]

TypeOK ==
    /\ record \in Record \cup {NoRecord}
    /\ call \in [Isolates -> [pc : Requesting \cup Draining \cup Waiting
                                   \cup {"markUnknown"},
                              rec : Record] \cup {Idle}]
    /\ volumes \subseteq Ids /\ instances \subseteq Ids
    /\ at \in [Ids -> Ids \cup {0}]
    /\ asked \subseteq [op : {"createVolume", "createInstance", "attach",
                              "deleteInstance", "detach", "deleteVolume"},
                        id : Ids, to : Ids \cup {0}]
    /\ ids \in [Kinds -> 0 .. MaxIds] /\ forgotten \subseteq Kinds
    /\ node \in {"none", "ready", "draining", "removed"} /\ active \in BOOLEAN

Init ==
    /\ record = NoRecord /\ call = [i \in Isolates |-> Idle]
    /\ volumes = {} /\ instances = {} /\ at = [v \in Ids |-> 0] /\ asked = {}
    /\ ids = [volume |-> 0, instance |-> 0]
    /\ node = "none" /\ active = FALSE /\ forgotten = {}
-----------------------------------------------------------------------------

(* A request is taken again by another isolate when its claim is ten       *)
(* minutes old: it overlaps with requests that poll.  A drain takes no     *)
(* claim, and comes at any time.                                           *)
MayBegin(i) ==
    /\ call[i] = Idle
    /\ \A j \in Isolates : call[j].pc \notin Requesting

Rec(i) == call[i].rec
At(i, pc) == call[i].pc = pc

Goto(i, pc, rec) == call' = [call EXCEPT ![i] = [pc |-> pc, rec |-> rec]]
Save(i, pc, rec) == record' = rec /\ Goto(i, pc, rec)
Return(i) == call' = [call EXCEPT ![i] = Idle]

(* recordFailure and markUnknown.                                          *)
Fail(i, rec, status) ==
    /\ record' = [rec EXCEPT !.status = status]
    /\ Return(i)

Ask(op, id, to) == asked' = asked \cup {[op |-> op, id |-> id, to |-> to]}

(* requestCapacity.  A record that is ready, deleted or failed ends it.    *)
RequestCapacity(i) ==
    /\ MayBegin(i)
    /\ record.status \notin {"deleted", "failed"}
    /\ ~(record.status = "ready" /\ record.volumeStatus = "attached")
    /\ LET rec == IF record = NoRecord THEN NewRecord ELSE record IN
       Save(i, "ensureVolume", rec)
    /\ UNCHANGED <<cloud, pool, forgotten>>

Has(rec, v) ==
    [rec EXCEPT !.volume = v, !.status = "creating",
                !.volumeStatus = IF @ = "attached" THEN @ ELSE "creating"]

(* Fault for a mutation run: the label is not looked for.                  *)
Found_ById(known, things) == things \cap {known}

(* What the label, or the id that is known, finds.                         *)
Found(known, things) == IF known # 0 THEN things \cap {known} ELSE things

(* Fault for a mutation run: a create is tried again when nothing is found.*)
EnsureVolume_Again(i) ==
    LET rec == Rec(i)
        found == Found(rec.volume, volumes) IN
    /\ At(i, "ensureVolume")
    /\ \/ /\ Cardinality(found) = 1
          /\ \E v \in found : Save(i, "ensureInstance", Has(rec, v))
       \/ /\ found = {} /\ rec.volume = 0
          /\ Save(i, "createVolume", [rec EXCEPT !.volumeTried = TRUE])
       \/ /\ Cardinality(found) > 1 \/ Faults \/ (found = {} /\ rec.volume # 0)
          /\ Fail(i, rec, "unknown")
    /\ UNCHANGED <<cloud, pool, forgotten>>

(* ensureVolume.  A create that was tried is never tried again.            *)
EnsureVolume(i) ==
    LET rec == Rec(i)
        found == Found(rec.volume, volumes)
        tried == rec.volume # 0 \/ rec.volumeTried IN
    /\ At(i, "ensureVolume")
    /\ \/ /\ Cardinality(found) = 1
          /\ \E v \in found : Save(i, "ensureInstance", Has(rec, v))
       \/ /\ found = {} /\ ~tried
          /\ Save(i, "createVolume", [rec EXCEPT !.volumeTried = TRUE])
       \/ /\ Cardinality(found) > 1 \/ (found = {} /\ tried) \/ Faults
          /\ Fail(i, rec, "unknown")
    /\ UNCHANGED <<cloud, pool, forgotten>>

Sent(op) == \E a \in asked : a.op = op

(* createVolume of the provider: the request is sent ...                   *)
CreateVolume(i) ==
    /\ At(i, "createVolume") /\ ids.volume < MaxIds
    /\ Ask("createVolume", ids.volume + 1, 0)
    /\ ids' = [ids EXCEPT !.volume = @ + 1]
    /\ Goto(i, "volumeAnswer", Rec(i))
    /\ UNCHANGED <<record, volumes, instances, at, pool, forgotten>>

(* ... and served, refused, or the answer does not come.                   *)
VolumeAnswer(i) ==
    LET rec == Rec(i) IN
    /\ At(i, "volumeAnswer")
    /\ \/ \E v \in volumes : Save(i, "ensureInstance", Has(rec, v))
       \/ /\ volumes = {} /\ ~Sent("createVolume")
          /\ Fail(i, rec, "failed")
       \/ Fail(i, [rec EXCEPT !.volumeStatus = "unknown"], "unknown")
    /\ UNCHANGED <<cloud, pool, forgotten>>
-----------------------------------------------------------------------------

HasVm(rec, v) == [rec EXCEPT !.instance = v, !.status = "creating"]

(* Fault for a mutation run: the attempt is not written down first.        *)
EnsureInstance_NotSaved(i) ==
    LET rec == Rec(i)
        found == Found(rec.instance, instances)
        tried == rec.instance # 0 \/ rec.instanceTried IN
    /\ At(i, "ensureInstance")
    /\ \/ /\ Cardinality(found) = 1
          /\ \E v \in found : Save(i, "ensureAttachment", HasVm(rec, v))
       \/ /\ found = {} /\ ~tried
          /\ Goto(i, "createInstance", [rec EXCEPT !.instanceTried = TRUE])
          /\ UNCHANGED record
       \/ /\ Cardinality(found) > 1 \/ (found = {} /\ tried) \/ Faults
          /\ Fail(i, rec, "unknown")
    /\ UNCHANGED <<cloud, pool, forgotten>>

(* ensureInstance, and the attempt that createInstance writes down.        *)
EnsureInstance(i) ==
    LET rec == Rec(i)
        found == Found(rec.instance, instances)
        tried == rec.instance # 0 \/ rec.instanceTried IN
    /\ At(i, "ensureInstance")
    /\ \/ /\ Cardinality(found) = 1
          /\ \E v \in found : Save(i, "ensureAttachment", HasVm(rec, v))
       \/ /\ found = {} /\ ~tried
          /\ Save(i, "createInstance", [rec EXCEPT !.instanceTried = TRUE])
       \/ /\ Cardinality(found) > 1 \/ (found = {} /\ tried) \/ Faults
          /\ Fail(i, rec, "unknown")
    /\ UNCHANGED <<cloud, pool, forgotten>>

(* createInstance of the provider, sent ...                                *)
CreateInstance(i) ==
    /\ At(i, "createInstance") /\ ids.instance < MaxIds
    /\ Ask("createInstance", ids.instance + 1, 0)
    /\ ids' = [ids EXCEPT !.instance = @ + 1]
    /\ Goto(i, "instanceAnswer", Rec(i))
    /\ UNCHANGED <<record, volumes, instances, at, pool, forgotten>>

(* ... and served (or found by its label, without an answer), refused, or  *)
(* neither.                                                                *)
InstanceAnswer(i) ==
    LET rec == Rec(i) IN
    /\ At(i, "instanceAnswer")
    /\ \/ \E v \in instances : Save(i, "ensureAttachment", HasVm(rec, v))
       \/ /\ instances = {} /\ ~Sent("createInstance")
          /\ Fail(i, rec, "failed")
       \/ Fail(i, rec, "unknown")
    /\ UNCHANGED <<cloud, pool, forgotten>>
-----------------------------------------------------------------------------

Attached(rec) == rec.volume \in volumes /\ at[rec.volume] = rec.instance
Elsewhere(rec) ==
    rec.volume \in volumes /\ at[rec.volume] \notin {0, rec.instance}
With(rec, volumeStatus) == [rec EXCEPT !.volumeStatus = volumeStatus]

(* ensureAttachment.  ensureVolume has forgotten an attempt that is not    *)
(* known to have ended, so the attachment is asked for again ...           *)
EnsureAttachment(i) ==
    LET rec == Rec(i) IN
    /\ At(i, "ensureAttachment")
    /\ \/ /\ Attached(rec)
          /\ Save(i, "awaitRegistration", With(rec, "attached"))
       \/ /\ rec.volume \in volumes /\ at[rec.volume] = 0
          /\ rec.volumeStatus \notin {"attaching", "unknown"}
          /\ Save(i, "attach", With(rec, "attaching"))
       \/ /\ \/ Faults \/ rec.volume \notin volumes \/ Elsewhere(rec)
             \/ rec.volumeStatus \in {"attaching", "unknown"}
          /\ IF Elsewhere(rec) THEN Fail(i, With(rec, "unknown"), "failed")
             ELSE Fail(i, rec, "unknown")
    /\ UNCHANGED <<cloud, pool, forgotten>>

(* ... and the provider refuses what is attached already.                  *)
Attach(i) ==
    LET rec == Rec(i) IN
    /\ At(i, "attach")
    /\ \/ /\ at[rec.volume] = 0 /\ Ask("attach", rec.volume, rec.instance)
          /\ Goto(i, "awaitAttachment", rec) /\ UNCHANGED record
       \/ /\ at[rec.volume] # 0 /\ Fail(i, With(rec, "unknown"), "failed")
          /\ UNCHANGED asked
    /\ UNCHANGED <<volumes, instances, at, ids, pool, forgotten>>

(* waitForAttachment, and the answer of the provider.                      *)
AwaitAttachment(i) ==
    LET rec == Rec(i) IN
    /\ At(i, "awaitAttachment")
    /\ \/ /\ Attached(rec)
          /\ Save(i, "awaitRegistration", With(rec, "attached"))
       \/ /\ ~Attached(rec) /\ ~Sent("attach")
          /\ Fail(i, With(rec, "unknown"), "failed")
       \/ /\ ~Attached(rec) \/ Faults
          /\ \E u \in {"attaching", "unknown"} : Fail(i, With(rec, u), "unknown")
    /\ UNCHANGED <<cloud, pool, forgotten>>

Registered == node \in {"ready", "draining"}

(* Fault for a mutation run: nobody waits for the agent.                   *)
AwaitRegistration_No(i) ==
    LET rec == [Rec(i) EXCEPT !.status = "ready"] IN
    /\ At(i, "awaitRegistration") /\ record' = rec /\ Return(i)
    /\ UNCHANGED <<cloud, pool, forgotten>>

(* waitForRegistration, and the end of finishCreation.                     *)
AwaitRegistration(i) ==
    LET rec == Rec(i) IN
    /\ At(i, "awaitRegistration")
    /\ \/ /\ Registered
          /\ record' = [rec EXCEPT !.status = "ready"] /\ Return(i)
       \/ /\ ~Registered \/ Faults
          /\ Fail(i, rec, "unknown")
    /\ UNCHANGED <<cloud, pool, forgotten>>
-----------------------------------------------------------------------------

Whole(rec) ==
    /\ rec.status \in {"ready", "draining"}
    /\ rec.instance # 0 /\ rec.volume # 0 /\ rec.volumeStatus = "attached"

(* drainNode: reads the record.  What is not known to be a whole node is   *)
(* left alone, ...                                                         *)
DrainNode(i) ==
    /\ Drains /\ call[i] = Idle
    /\ record.status \notin {"none", "deleted"}
    /\ Goto(i, IF Whole(record) THEN "drain" ELSE "markUnknown", record)
    /\ UNCHANGED <<record, cloud, pool, forgotten>>

(* ... and its record saved as it was read: an attempt that was written    *)
(* down since is forgotten.                                                *)
MarkUnknown(i) ==
    /\ At(i, "markUnknown")
    /\ Fail(i, Rec(i), "unknown")
    /\ forgotten' = forgotten
         \cup {k \in {"volume"} : record.volumeTried /\ ~Rec(i).volumeTried}
         \cup {k \in {"instance"} :
                   record.instanceTried /\ ~Rec(i).instanceTried}
    /\ UNCHANGED <<cloud, pool>>

(* ... the scheduler places nothing there any more, or has no such node,   *)
Drain(i) ==
    /\ At(i, "drain")
    /\ IF Registered
       THEN node' = "draining" /\ Goto(i, "saveDraining", Rec(i))
       ELSE Return(i) /\ UNCHANGED node
    /\ UNCHANGED <<record, cloud, active, forgotten>>

SaveDraining(i) ==
    /\ At(i, "saveDraining")
    /\ Save(i, "awaitNoServices", [Rec(i) EXCEPT !.status = "draining"])
    /\ UNCHANGED <<cloud, pool, forgotten>>

(* A poll ends, or its deadline passes.                                    *)
Await(i, pc, done, goto, rec) ==
    /\ At(i, pc)
    /\ \/ done /\ Save(i, goto, rec)
       \/ ~done /\ Fail(i, Rec(i), "unknown")
    /\ UNCHANGED <<cloud, pool, forgotten>>

(* Fault for a mutation run: the deadline ends the wait like its success.  *)
AwaitNoServices_Deadline(i) ==
    Await(i, "awaitNoServices", TRUE, "deleteInstance", Rec(i))

(* ... its services sync and stop,                                         *)
AwaitNoServices(i) ==
    Await(i, "awaitNoServices", ~active, "deleteInstance", Rec(i))

(* Fault for a mutation run: the end of the VM is not waited for.          *)
DeleteInstance_Asked(i) ==
    LET rec == Rec(i) IN
    /\ At(i, "deleteInstance")
    /\ Save(i, "detach", rec)
    /\ IF rec.instance \in instances THEN Ask("deleteInstance", rec.instance, 0)
       ELSE UNCHANGED asked
    /\ UNCHANGED <<volumes, instances, at, ids, pool, forgotten>>

(* ... the VM is deleted,                                                  *)
DeleteInstance(i) ==
    LET rec == Rec(i) IN
    /\ At(i, "deleteInstance")
    /\ IF rec.instance \in instances
       THEN /\ Save(i, "awaitInstanceGone", rec)
            /\ Ask("deleteInstance", rec.instance, 0)
       ELSE Save(i, "detach", rec) /\ UNCHANGED asked
    /\ UNCHANGED <<volumes, instances, at, ids, pool, forgotten>>

AwaitInstanceGone(i) ==
    Await(i, "awaitInstanceGone", Rec(i).instance \notin instances, "detach",
          Rec(i))

(* ... the volume is detached,                                             *)
Detach(i) ==
    LET rec == Rec(i) IN
    /\ At(i, "detach")
    /\ \/ /\ rec.volume \notin volumes
          /\ Save(i, "removeNode", With(rec, "deleted")) /\ UNCHANGED asked
       \/ /\ rec.volume \in volumes /\ at[rec.volume] = 0
          /\ Save(i, "deleteVolume", With(rec, "detaching")) /\ UNCHANGED asked
       \/ /\ Attached(rec)
          /\ Save(i, "awaitDetached", With(rec, "detaching"))
          /\ Ask("detach", rec.volume, rec.instance)
       \/ /\ Faults \/ Elsewhere(rec)
          /\ Fail(i, rec, "unknown") /\ UNCHANGED asked
    /\ UNCHANGED <<volumes, instances, at, ids, pool, forgotten>>

AwaitDetached(i) ==
    LET rec == Rec(i) IN
    Await(i, "awaitDetached", ~Attached(rec) /\ ~Elsewhere(rec),
          IF rec.volume \in volumes THEN "deleteVolume" ELSE "removeNode", rec)

(* ... and deleted,                                                        *)
DeleteVolume(i) ==
    /\ At(i, "deleteVolume")
    /\ Save(i, "awaitVolumeGone", Rec(i))
    /\ Ask("deleteVolume", Rec(i).volume, 0)
    /\ UNCHANGED <<volumes, instances, at, ids, pool, forgotten>>

(* Fault for a mutation run: the end of the volume is not waited for.      *)
AwaitVolumeGone_Asked(i) ==
    Await(i, "awaitVolumeGone", TRUE, "removeNode", With(Rec(i), "deleted"))

AwaitVolumeGone(i) ==
    Await(i, "awaitVolumeGone", Rec(i).volume \notin volumes, "removeNode",
          With(Rec(i), "deleted"))

(* ... the scheduler forgets the node, if it has no active service,        *)
RemoveNode(i) ==
    /\ At(i, "removeNode")
    /\ IF Registered /\ ~active
       THEN /\ node' = "removed" /\ Goto(i, "saveDeleted", Rec(i))
            /\ UNCHANGED record
       ELSE Fail(i, Rec(i), "unknown") /\ UNCHANGED node
    /\ UNCHANGED <<cloud, active, forgotten>>

(* Fault for a mutation run: the record ends with a status of its own.     *)
SaveDeleted_Removed(i) ==
    /\ At(i, "saveDeleted")
    /\ record' = [Rec(i) EXCEPT !.status = "removed", !.volumeStatus = "deleted"]
    /\ Return(i)
    /\ UNCHANGED <<cloud, pool, forgotten>>

(* ... and so does the record.                                             *)
SaveDeleted(i) ==
    /\ At(i, "saveDeleted")
    /\ record' = [Rec(i) EXCEPT !.status = "deleted", !.volumeStatus = "deleted"]
    /\ Return(i)
    /\ UNCHANGED <<cloud, pool, forgotten>>

(* An isolate dies, or a call of the provider fails in a drain.            *)
Dies(i) ==
    /\ Faults /\ call[i] # Idle
    /\ Return(i)
    /\ \/ UNCHANGED record
       \/ /\ call[i].pc \in Draining \cup Waiting
          /\ Rec(i).status = "draining"
          /\ record' = [Rec(i) EXCEPT !.status = "unknown"]
    /\ UNCHANGED <<cloud, pool, forgotten>>
-----------------------------------------------------------------------------

(* The provider serves a request, if it still can, ...                     *)
Serve(a) ==
    /\ a \in asked /\ asked' = asked \ {a}
    /\ volumes' = CASE a.op = "createVolume" -> volumes \cup {a.id}
                    [] a.op = "deleteVolume" /\ at[a.id] = 0 -> volumes \ {a.id}
                    [] OTHER -> volumes
    /\ instances' = CASE a.op = "createInstance" -> instances \cup {a.id}
                      [] a.op = "deleteInstance" -> instances \ {a.id}
                      [] OTHER -> instances
    /\ CASE a.op = "attach" /\ a.id \in volumes /\ a.to \in instances
              /\ at[a.id] = 0 -> at' = [at EXCEPT ![a.id] = a.to]
         [] a.op = "detach" -> at' = [at EXCEPT ![a.id] = 0]
         [] a.op = "deleteInstance" ->  \* its volume may stay attached
              at' \in {at, [v \in Ids |-> IF at[v] = a.id THEN 0 ELSE at[v]]}
         [] OTHER -> UNCHANGED at
    /\ UNCHANGED <<record, call, ids, pool, forgotten>>

(* ... or does not.                                                        *)
Lose(a) ==
    /\ Faults /\ a \in asked
    /\ asked' = asked \ {a}
    /\ UNCHANGED <<record, call, volumes, instances, at, ids, pool, forgotten>>

(* The agent enrols when its volume is there.                              *)
Register ==
    /\ node = "none" /\ \E v \in volumes : at[v] \in instances
    /\ node' = "ready"
    /\ UNCHANGED <<record, call, cloud, active, forgotten>>

(* A heartbeat may report that the node drains itself.                     *)
Heartbeat ==
    /\ node = "ready" /\ node' = "draining"
    /\ UNCHANGED <<record, call, cloud, active, forgotten>>

(* Services are placed on a node that is ready, and stop one day.          *)
Services ==
    /\ active' = ~active
    /\ active' => node = "ready"
    /\ UNCHANGED <<record, call, cloud, node, forgotten>>

Request(i) ==
    \/ RequestCapacity(i) \/ EnsureVolume(i) \/ CreateVolume(i)
    \/ VolumeAnswer(i) \/ EnsureInstance(i) \/ CreateInstance(i)
    \/ InstanceAnswer(i) \/ EnsureAttachment(i) \/ Attach(i)
    \/ AwaitAttachment(i) \/ AwaitRegistration(i)

GiveBack(i) ==
    \/ DrainNode(i) \/ MarkUnknown(i) \/ Drain(i) \/ SaveDraining(i)
    \/ AwaitNoServices(i)
    \/ DeleteInstance(i) \/ AwaitInstanceGone(i) \/ Detach(i)
    \/ AwaitDetached(i) \/ DeleteVolume(i) \/ AwaitVolumeGone(i)
    \/ RemoveNode(i) \/ SaveDeleted(i)

Next ==
    \/ \E i \in Isolates : Request(i) \/ GiveBack(i) \/ Dies(i)
    \/ \E a \in asked : Serve(a) \/ Lose(a)
    \/ Register \/ Heartbeat \/ Services

Spec == Init /\ [][Next]_vars

(* Sweeps take the request again until it is over; the provider serves     *)
(* what it was asked, and the agent enrols.                                *)
FairSpec ==
    /\ Spec
    /\ WF_vars(\E i \in Isolates : Request(i))
    /\ WF_vars(\E a \in asked : Serve(a)) /\ WF_vars(Register)
-----------------------------------------------------------------------------

(* "an unknown volume create is reconciled by deterministic label without  *)
(* a duplicate" (sharedNodeProvisioner.test.ts:373): whatever dies, is     *)
(* lost or comes late, one volume and one VM are asked for, unless a drain *)
(* saved a record without the attempt.                                     *)
NoDuplicates ==
    /\ "volume" \notin forgotten => ids.volume <= 1
    /\ "instance" \notin forgotten => ids.instance <= 1

(* A record becomes ready when its VM has its volume and has registered as *)
(* a node; the request is completed on the strength of that.               *)
ReadyWhenReal ==
    record'.status = "ready" /\ record.status # "ready"
    => Attached(record') /\ record'.instance \in instances /\ Registered

(* "drain blocks deletion while services are active"                       *)
(* (sharedNodeProvisioner.test.ts:479), also when the drain is repeated,   *)
(* or overlaps with a request for the same node.                           *)
SparesServices == instances \ instances' # {} => ~active

(* "Drain ... deletes the VM, confirms volume detachment, and deletes only *)
(* the request-owned volume" (README.md:388): the volume goes last, and    *)
(* nothing is still to be attached to it.                                  *)
VolumeGoesLast ==
    \A v \in volumes \ volumes' :
        at[v] = 0 /\ (forgotten = {} => instances = {})

(* Of a record that is deleted the pool has no node; and nothing is left   *)
(* that costs money, nor will be, unless a drain forgot an attempt.        *)
NothingLeft ==
    /\ volumes = {} /\ instances = {}
    /\ ~Sent("createVolume") /\ ~Sent("createInstance")

DeletedIsGone ==
    record.status = "deleted"
    => node = "removed" /\ (forgotten = {} => NothingLeft)

(* The node of a request: well-formed, created once, and gone when its     *)
(* record says so.                                                         *)
NodesInv == TypeOK /\ NoDuplicates /\ DeletedIsGone

(* No VM is deleted while its node serves, nor a volume while a VM has it. *)
NodeSteps == [][SparesServices /\ VolumeGoesLast]_vars

(* Without faults a request ends, and the sweeps do not take it for ever,  *)
(* although answers do not come in time.                                   *)
RequestSettles == <>(record.status \in {"ready", "failed"})
=============================================================================
