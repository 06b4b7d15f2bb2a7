---------------------------- MODULE AdminOperations ----------------------------
(***************************************************************************)
(* Operations of administrators: `AdminOperationService` and               *)
(* `AdminOperationCommandRouter` (src/src/operations.ts) behind the routes *)
(* of src/src/routes/operations.ts.  An operation is recorded, audited and *)
(* dispatched to the component that owns what it changes; that component   *)
(* completes it, or an administrator resolves it by hand.                  *)
(*                                                                         *)
(* The repository is the one of the tests: its calls are atomic and every  *)
(* other call, to the audit log or to an owner, may fail, or be done with  *)
(* its answer lost.  A content stands for the action, the target, the      *)
(* administrator and the reason.  Who may ask for what (the scopes and the *)
(* second factor) is not modelled.                                         *)
(***************************************************************************)
EXTENDS Integers, FiniteSets

CONSTANTS Operations, Contents, Resolutions,
          Calls,   \* handlers at work
          Strays,  \* completions that no command of ours caused
          None,
          MaxFaults  \* bound: failures, lost answers and isolates that end

Outcomes == {"succeeded", "rejected", "failed"}
Completion == [op : Operations, outcome : Outcomes, owned : BOOLEAN]

OperationsAssumption == Strays \subseteq Completion /\ MaxFaults \in Nat

VARIABLES record,  \* the repository
          manual,  \* its queue of what a person has to look at
          log,     \* the audit log
          owner,   \* the commands that owners took, by operation
          mail,    \* completions; one may be delivered again
          calls, faults

vars == <<record, manual, log, owner, mail, calls, faults>>

Statuses == {"pending", "resolved", "rejected"}
Record == [content : Contents, status : Statuses, published : BOOLEAN,
           completion : Outcomes \cup {None}, resolution : Resolutions \cup {None}]
Command == [content : Contents, outcome : Outcomes]
Idle == [pc |-> "idle"]

TypeOK ==
    /\ record \in [Operations -> Record \cup {None}]
    /\ manual \subseteq ({"dispatch", "orphan", "failed"} \X Operations)
    /\ log \subseteq ({"requested", "resolved"} \cup Outcomes) \X Operations
    /\ owner \in [Operations -> Command \cup {None}]
    /\ mail \subseteq Completion
    /\ calls \in [Calls ->
          [pc : {"audit", "publish", "mark", "queue", "close"}, op : Operations,
           content : Contents \cup {None}, note : Outcomes \cup {None, "resolved"}]
          \cup {Idle}]
    /\ faults \in 0 .. MaxFaults

Init ==
    /\ record = [o \in Operations |-> None]
    /\ manual = {} /\ log = {}
    /\ owner = [o \in Operations |-> None] /\ mail = Strays
    /\ calls = [c \in Calls |-> Idle] /\ faults = 0
-----------------------------------------------------------------------------
At(c, pc) == calls[c].pc = pc
Go(c, pc) == calls' = [calls EXCEPT ![c].pc = pc]
End(c) == calls' = [calls EXCEPT ![c] = Idle]
Begin(c, pc, op, content, note) ==
    calls' = [calls EXCEPT ![c] = [pc |-> pc, op |-> op, content |-> content,
                                   note |-> note]]
Fault == faults < MaxFaults /\ faults' = faults + 1

Recorded(content) ==
    [content |-> content, status |-> "pending", published |-> FALSE,
     completion |-> None, resolution |-> None]

(* request: a new operation is recorded and audited; one that is repeated  *)
(* is dispatched, as it was stored, if it was not; an id with other        *)
(* content is refused.                                                     *)
Request(c, op, content) ==
    /\ calls[c] = Idle
    /\ \/ /\ record[op] = None
          /\ record' = [record EXCEPT ![op] = Recorded(content)]
          /\ Begin(c, "audit", op, content, None)
       \/ /\ record[op] # None /\ record[op].content = content
          /\ ~record[op].published
          /\ Begin(c, "publish", op, record[op].content, None)
          /\ UNCHANGED record
    /\ UNCHANGED <<manual, log, owner, mail, faults>>

(* retryPendingDispatches                                                  *)
Retry(c, op) ==
    /\ calls[c] = Idle /\ record[op] # None /\ ~record[op].published
    /\ Begin(c, "publish", op, record[op].content, None)
    /\ UNCHANGED <<record, manual, log, owner, mail, faults>>

Audit(c) ==
    /\ At(c, "audit")
    /\ \/ log' = log \cup {<<"requested", calls[c].op>>} /\ Go(c, "publish")
          /\ UNCHANGED faults
       \/ Fault /\ End(c) /\ UNCHANGED log
    /\ UNCHANGED <<record, manual, owner, mail>>

(* Fault for a mutation run: a dispatch that failed counts as done.        *)
AfterFailure_Marked == "mark"

AfterFailure == "queue"

(* publish: the owner takes a command once per operation, decides and      *)
(* completes it.  When it fails, or there is no adapter, the operation is  *)
(* left for a person, or for the next request.                             *)
Publish(c) ==
    /\ At(c, "publish")
    /\ LET o == calls[c].op
       IN  \/ /\ IF owner[o] # None THEN UNCHANGED <<owner, mail>>
                 ELSE \E outcome \in Outcomes :
                        /\ owner' = [owner EXCEPT ![o] =
                               [content |-> calls[c].content, outcome |-> outcome]]
                        /\ mail' = mail \cup {[op |-> o, outcome |-> outcome,
                                               owned |-> TRUE]}
              /\ \/ Go(c, "mark") /\ UNCHANGED faults
                 \/ Fault /\ Go(c, AfterFailure)
           \/ Fault /\ (Go(c, AfterFailure) \/ End(c)) /\ UNCHANGED <<owner, mail>>
    /\ UNCHANGED <<record, manual, log>>

Mark(c) ==
    /\ At(c, "mark")
    /\ \/ /\ record' = [record EXCEPT ![calls[c].op].published = TRUE]
          /\ End(c) /\ UNCHANGED faults
       \/ Fault /\ Go(c, "queue") /\ UNCHANGED record
    /\ UNCHANGED <<manual, log, owner, mail>>

(* enqueueManual, of a dispatch that failed or of an owner that did.       *)
Enqueue(c) ==
    /\ At(c, "queue")
    /\ LET failed == calls[c].note = "failed"
       IN  /\ manual' = manual \cup
                 {<<IF failed THEN "failed" ELSE "dispatch", calls[c].op>>}
           /\ IF failed THEN Go(c, "close") ELSE End(c)
    /\ UNCHANGED <<record, log, owner, mail, faults>>
-----------------------------------------------------------------------------
StatusOf(outcome) ==
    CASE outcome = "succeeded" -> "resolved"
      [] outcome = "rejected" -> "rejected"
      [] outcome = "failed" -> "pending"

(* Faults for mutation runs: whoever completes is taken for the owner; a   *)
(* later completion takes the place of the first.                          *)
FromOwner_Any(m) == TRUE
First_Last(o) == TRUE

FromOwner(m) == m.owned
First(o) == record[o].completion = None

(* consumeCompletion: one for an operation that is not there is left to a  *)
(* person; the first of the owner is saved, and audited.                   *)
Consume(c, m) ==
    /\ calls[c] = Idle
    /\ IF record[m.op] = None
       THEN /\ manual' = manual \cup {<<"orphan", m.op>>}
            /\ UNCHANGED <<record, calls>>
       ELSE /\ FromOwner(m) /\ First(m.op)
            /\ record' = [record EXCEPT ![m.op].completion = m.outcome,
                                        ![m.op].status = StatusOf(m.outcome)]
            /\ Begin(c, IF m.outcome = "failed" THEN "queue" ELSE "close", m.op,
                     None, m.outcome)
            /\ UNCHANGED manual
    /\ UNCHANGED <<log, owner, mail, faults>>

(* Fault for a mutation run: a second resolution takes the place of one.   *)
Resolvable_Again(o) == record[o] # None

Resolvable(o) == record[o] # None /\ record[o].resolution = None

(* resolve: by hand, once.                                                 *)
Resolve(c, o, r) ==
    /\ calls[c] = Idle /\ Resolvable(o)
    /\ record' = [record EXCEPT ![o].status = "resolved", ![o].resolution = r]
    /\ Begin(c, "close", o, None, "resolved")
    /\ UNCHANGED <<manual, log, owner, mail, faults>>

(* The audit of a completion or of a resolution.                           *)
Close(c) ==
    /\ At(c, "close")
    /\ \/ log' = log \cup {<<calls[c].note, calls[c].op>>} /\ UNCHANGED faults
       \/ Fault /\ UNCHANGED log
    /\ End(c)
    /\ UNCHANGED <<record, manual, owner, mail>>

Die(c) ==
    /\ calls[c] # Idle /\ Fault /\ End(c)
    /\ UNCHANGED <<record, manual, log, owner, mail>>

Next ==
    \E c \in Calls :
        \/ \E o \in Operations :
              \/ \E content \in Contents : Request(c, o, content)
              \/ Retry(c, o)
              \/ \E r \in Resolutions : Resolve(c, o, r)
        \/ \E m \in mail : Consume(c, m)
        \/ Audit(c) \/ Publish(c) \/ Mark(c) \/ Enqueue(c) \/ Close(c) \/ Die(c)

Spec == Init /\ [][Next]_vars
-----------------------------------------------------------------------------
(* An owner works on what was recorded under the operation, and never on   *)
(* what a second request with its id says, however dispatches fail and are *)
(* repeated; an operation is taken for dispatched only if its owner has it.*)
OwnerHasRecorded ==
    \A o \in Operations :
        /\ owner[o] # None => /\ record[o] # None
                              /\ owner[o].content = record[o].content
        /\ record[o] # None /\ record[o].published => owner[o] # None

(* What is called rejected was rejected by its owner, and what is called   *)
(* resolved was done by its owner or resolved by hand, although            *)
(* completions come late, twice, from others, and cross with resolutions.  *)
StatusIsEarned ==
    \A o \in Operations : record[o] # None =>
        /\ record[o].status = "rejected" =>
              owner[o] # None /\ owner[o].outcome = "rejected"
        /\ record[o].status = "resolved" =>
              \/ record[o].resolution # None
              \/ owner[o] # None /\ owner[o].outcome = "succeeded"

(* What the owner decided, and what was resolved by hand, is kept.         *)
KeepsDecision ==
    \A o \in Operations : record[o] # None =>
        /\ record[o].completion # None =>
              record'[o].completion = record[o].completion
        /\ record[o].resolution # None =>
              record'[o].resolution = record[o].resolution

(* The audit log never tells of an outcome or a resolution that is not on  *)
(* record.                                                                 *)
LogIsOnRecord ==
    \A entry \in log :
        LET r == record[entry[2]]
        IN  /\ r # None
            /\ entry[1] \in Outcomes => r.completion = entry[1]
            /\ entry[1] = "resolved" => r.resolution # None
=============================================================================
