-------------------------- MODULE NodeCommandOutbox --------------------------
(***************************************************************************)
(* The commands of one node: `MongoSharedNodeCommandOutbox` behind         *)
(* `nextCommand`, `acknowledge`, `renewLease` and `sweep` of               *)
(* `SharedNodeTransportService` (src/src/sharedNodeTransport.ts), and the  *)
(* agent that calls them.                                                  *)
(*                                                                         *)
(* There is no clock: a lease holds the time it has left and the time it   *)
(* is old, and a call how long ago it took its `now`.  The lease token is  *)
(* made with the lease's generation and stands for the same thing.  The    *)
(* commands have different creation times.                                 *)
(***************************************************************************)
EXTENDS Integers, Sequences, FiniteSets

CONSTANTS Commands, Pollers,
          Lease,             \* commandLeaseMs
          MaxLifetime,       \* commandMaxLifetimeMs
          MaxLate,           \* how long a call takes at most
          MaxGenerations,    \* bound: leases of a command
          MaxCalls           \* bound: acknowledgements and renewals on their way

OutboxAssumption ==
    /\ Lease \in Nat \ {0} /\ MaxLifetime \in Nat /\ MaxLifetime >= Lease
    /\ MaxLate \in Nat /\ MaxGenerations \in Nat /\ MaxCalls \in Nat

VARIABLES stored,   \* the collection shared_node_command_outbox
          created,  \* the commands in it, in the order of createdAt
          poll,     \* the calls of `next`
          calls,    \* acknowledgements and renewals on their way
          held,     \* the leases that reached the agent
          ackedBy,  \* the generation that acknowledged a command
          sequential  \* whether a call ends before the agent makes another

vars == <<stored, created, poll, calls, held, ackedBy, sequential>>

LeaseName == [command : Commands, generation : Nat]

TypeOK ==
    /\ stored \in [Commands -> [status : {"none", "queued", "leased", "acked"},
                                generation : Nat,
                                left : -MaxLate .. Lease,
                                age : 0 .. MaxLifetime + MaxLate]]
    /\ created \in Seq(Commands)
    /\ poll \in [Pollers -> [pc : {"idle", "requeue", "lease"},
                             late : 0 .. MaxLate]]
    /\ calls \subseteq [op : {"ack", "renew"}, lease : LeaseName,
                        late : 0 .. MaxLate]
    /\ held \subseteq LeaseName
    /\ ackedBy \in [Commands -> Nat]
    /\ sequential \in BOOLEAN

(* What is left of a command that has no lease.                            *)
Unleased(status, generation) ==
    [status |-> status, generation |-> generation, left |-> -MaxLate,
     age |-> 0]

NoPoll == [pc |-> "idle", late |-> 0]

Init ==
    /\ stored = [c \in Commands |-> Unleased("none", 0)]
    /\ created = <<>>
    /\ poll = [p \in Pollers |-> NoPoll]
    /\ calls = {} /\ held = {}
    /\ ackedBy = [c \in Commands |-> 0]
    /\ sequential \in BOOLEAN
-----------------------------------------------------------------------------

(* enqueue; a second one finds the command there.                          *)
Enqueue(c) ==
    /\ stored[c].status = "none"
    /\ stored' = [stored EXCEPT ![c] = Unleased("queued", 0)]
    /\ created' = Append(created, c)
    /\ UNCHANGED <<poll, calls, held, ackedBy>>

(* Leases that have not run out, as of `late` ago.                         *)
Live(late) ==
    {c \in Commands : stored[c].status = "leased" /\ stored[c].left > -late}

Expired(late) ==
    {c \in Commands : stored[c].status = "leased" /\ stored[c].left <= -late}

Quiet == calls = {} /\ \A p \in Pollers : poll[p].pc = "idle"

(* Fault for a mutation run: the lease at hand is not looked for.          *)
PollCheck_NoCheck(p) ==
    /\ poll[p].pc = "idle"
    /\ sequential => Quiet
    /\ poll' = [poll EXCEPT ![p].pc = "requeue"]
    /\ UNCHANGED <<stored, created, calls, held, ackedBy>>

(* next: nothing while a lease is running ...                              *)
PollCheck(p) ==
    /\ poll[p].pc = "idle" /\ Live(0) = {}
    /\ sequential => Quiet
    /\ poll' = [poll EXCEPT ![p].pc = "requeue"]
    /\ UNCHANGED <<stored, created, calls, held, ackedBy>>

Requeue(c) ==
    stored' = [stored EXCEPT ![c] = Unleased("queued", @.generation)]

(* ... then one that has run out is queued again ...                       *)
PollRequeue(p) ==
    /\ poll[p].pc = "requeue"
    /\ poll' = [poll EXCEPT ![p].pc = "lease"]
    /\ \/ /\ Expired(poll[p].late) = {}
          /\ UNCHANGED stored
       \/ \E c \in Expired(poll[p].late) : Requeue(c)
    /\ UNCHANGED <<created, calls, held, ackedBy>>

IsQueued(i) == stored[created[i]].status = "queued"

(* Fault for a mutation run: the youngest command is taken.                *)
NextQueued_Youngest ==
    {created[i] : i \in {j \in DOMAIN created :
       IsQueued(j) /\ \A k \in DOMAIN created : k > j => ~IsQueued(k)}}

(* The oldest command that is queued.                                      *)
NextQueued ==
    {created[i] : i \in {j \in DOMAIN created :
       IsQueued(j) /\ \A k \in DOMAIN created : k < j => ~IsQueued(k)}}

(* ... and the oldest that is queued is leased.  The reply may get lost.   *)
PollLease(p) ==
    \E c \in NextQueued :
        /\ poll[p].pc = "lease" /\ stored[c].generation < MaxGenerations
        /\ stored' = [stored EXCEPT
             ![c] = [status |-> "leased", generation |-> @.generation + 1,
                     left |-> Lease - poll[p].late, age |-> poll[p].late]]
        /\ held' \in {held,
                      held \cup {[command |-> c,
                                  generation |-> stored[c].generation + 1]}}
        /\ poll' = [poll EXCEPT ![p] = NoPoll]
        /\ UNCHANGED <<created, calls, ackedBy>>

(* Nothing is queued, or the isolate dies in the middle of a call.         *)
PollEnds(p) ==
    /\ poll[p].pc # "idle"
    /\ poll' = [poll EXCEPT ![p] = NoPoll]
    /\ UNCHANGED <<stored, created, calls, held, ackedBy>>

(* requeueExpired, one command at a time.                                  *)
RequeueExpired ==
    /\ \E c \in Expired(0) : Requeue(c)
    /\ UNCHANGED <<created, poll, calls, held, ackedBy>>
-----------------------------------------------------------------------------

(* The agent sends an acknowledgement or a renewal for a lease it has.     *)
Send(op, lease) ==
    /\ lease \in held /\ Cardinality(calls) < MaxCalls
    /\ sequential => Quiet
    /\ calls' = calls \cup {[op |-> op, lease |-> lease, late |-> 0]}
    /\ UNCHANGED <<stored, created, poll, held, ackedBy>>

(* Fault for a mutation run: any lease of the command will do.             *)
Holds_AnyGeneration(call) ==
    stored[call.lease.command].status = "leased"

(* The filter of acknowledge and of renew.                                 *)
Holds(call) ==
    LET c == call.lease.command IN
    /\ stored[c].status = "leased"
    /\ stored[c].generation = call.lease.generation
    /\ stored[c].left > -call.late

(* acknowledge.  The agent is through with the lease when it knows; if the *)
(* reply is lost it may ask again and learns that the command is acked.    *)
Acknowledge(call) ==
    /\ call \in calls /\ call.op = "ack"
    /\ IF Holds(call)
       THEN /\ stored' = [stored EXCEPT
                 ![call.lease.command] = Unleased("acked", @.generation)]
            /\ ackedBy' = [ackedBy EXCEPT
                 ![call.lease.command] = call.lease.generation]
       ELSE UNCHANGED <<stored, ackedBy>>
    /\ held' \in {held, held \ {call.lease}}
    /\ calls' = calls \ {call}
    /\ UNCHANGED <<created, poll>>

(* Fault for a mutation run: a renewal is added to what was left.          *)
Renewed_Added(c, late) ==
    LET rest == MaxLifetime - stored[c].age
        longer == stored[c].left + Lease IN
    IF rest < longer THEN rest ELSE longer

(* Fault for a mutation run: a renewal always adds a whole lease.          *)
Renewed_NoMaximum(c, late) == Lease - late

(* The end of a renewed lease: no later than the maximum.                  *)
Renewed(c, late) ==
    LET rest == MaxLifetime - stored[c].age IN
    IF rest < Lease - late THEN rest ELSE Lease - late

(* renew; "lease_maximum_exceeded" when nothing would be left of it.       *)
Renew(call) ==
    LET c == call.lease.command IN
    /\ call \in calls /\ call.op = "renew"
    /\ stored' = IF Holds(call) /\ Renewed(c, call.late) > -call.late
                 THEN [stored EXCEPT ![c].left = Renewed(c, call.late)]
                 ELSE stored
    /\ calls' = calls \ {call}
    /\ UNCHANGED <<created, poll, held, ackedBy>>

(* The agent restarts and has forgotten its leases.                        *)
AgentRestarts ==
    /\ held # {} /\ held' = {}
    /\ UNCHANGED <<stored, created, poll, calls, ackedBy>>
-----------------------------------------------------------------------------

(* A lease that has less left, and is older.                               *)
Older(lease) ==
    [status |-> lease.status, generation |-> lease.generation,
     left |-> IF lease.left > -MaxLate THEN lease.left - 1 ELSE lease.left,
     age |-> IF lease.age < MaxLifetime + MaxLate THEN lease.age + 1 ELSE lease.age]

(* A unit of time; no call takes longer than MaxLate.                      *)
Tick ==
    /\ \A p \in Pollers : poll[p].pc # "idle" => poll[p].late < MaxLate
    /\ \A call \in calls : call.late < MaxLate
    /\ Live(MaxLate) # {} \/ ~Quiet
    /\ poll' = [p \in Pollers |-> IF poll[p].pc = "idle" THEN poll[p]
                ELSE [poll[p] EXCEPT !.late = @ + 1]]
    /\ calls' = {[call EXCEPT !.late = @ + 1] : call \in calls}
    /\ stored' = [c \in Commands |->
         IF stored[c].status = "leased" THEN Older(stored[c]) ELSE stored[c]]
    /\ UNCHANGED <<created, held, ackedBy>>

(* An agent goes on to make its calls as it does.                          *)
Next ==
    /\ UNCHANGED sequential
    /\ \/ \E c \in Commands : Enqueue(c)
       \/ \E p \in Pollers :
           PollCheck(p) \/ PollRequeue(p) \/ PollLease(p) \/ PollEnds(p)
       \/ \E lease \in held, op \in {"ack", "renew"} : Send(op, lease)
       \/ \E call \in calls : Acknowledge(call) \/ Renew(call)
       \/ RequeueExpired
       \/ AgentRestarts
       \/ Tick

Spec == Init /\ [][Next]_vars

(* The agent polls, and calls get through now and then.                    *)
Fairness ==
    /\ WF_vars(Tick) /\ WF_vars(RequeueExpired)
    /\ \A p \in Pollers :
        SF_vars(PollCheck(p)) /\ SF_vars(PollRequeue(p)) /\ SF_vars(PollLease(p))
    /\ WF_vars(\E call \in calls : Acknowledge(call) \/ Renew(call))

FairSpec == Spec /\ Fairness
-----------------------------------------------------------------------------

(* "if (current) return undefined" (sharedNodeTransport.ts:514), and       *)
(* `blocked` in the test of the leases (sharedNodeTransport.test.ts:291):  *)
(* a node gets no command while it has a lease on another.                 *)
OneLease == Cardinality(Live(0)) <= 1

(* "shared node command leases are durable, ordered, and at-least-once"    *)
(* (sharedNodeTransport.test.ts:263).  A command is not handed out before  *)
(* all commands made before it are acknowledged, whatever expired, was     *)
(* queued again or got lost in between.                                    *)
HandsOutInOrder ==
    \A i \in DOMAIN created :
        stored'[created[i]].generation # stored[created[i]].generation
        => \A j \in 1 .. i - 1 : stored[created[j]].status = "acked"

(* A command is handed out until it is acknowledged, although the agent    *)
(* may lose it, forget it or sit on it.                                    *)
HandedOutAgain ==
    \A c \in Commands :
        stored[c].status \in {"queued", "leased"}
        ~> \/ stored[c].status = "acked"
           \/ \E d \in Commands : stored[d].generation = MaxGenerations

(* An agent that was overtaken does not end the command of the one that    *)
(* has it now: only the last lease acknowledges.                           *)
AckIsOfLastLease ==
    \A c \in Commands :
        stored[c].status = "acked" => ackedBy[c] = stored[c].generation

(* No renewal takes a lease past its maximum lifetime.                     *)
LeaseEnds ==
    \A c \in Commands :
        stored[c].status = "leased" => stored[c].left + stored[c].age <= MaxLifetime

(* What holds of the commands, and more of an agent that makes one call at *)
(* a time.                                                                 *)
OutboxInv ==
    /\ TypeOK
    /\ AckIsOfLastLease
    /\ LeaseEnds
    /\ sequential => OneLease
=============================================================================
