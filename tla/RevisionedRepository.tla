------------------------- MODULE RevisionedRepository -------------------------
(***************************************************************************)
(* `MongoSharedHostingSchedulerRepository.transact`                        *)
(* (src/src/sharedHostingScheduler.ts), and `MongoServerRepository`        *)
(* (src/src/serverRepository.ts) in the same way: read the document, run   *)
(* the mutation on a copy, replace the document if its revision is still   *)
(* the one read, and read again to see whether the copy made it.           *)
(*                                                                         *)
(* The aggregate is the sequence of mutations that made it.  A run of the  *)
(* mutation is named by its `mutationId`, and its result by the number of  *)
(* mutations it found.                                                     *)
(***************************************************************************)
EXTENDS Naturals, Sequences

CONSTANTS Callers,
          MaxAttempts,
          Window,          \* mutationIds kept in the document
          MaxMutations     \* bound: no call begins after this many ids

ASSUME RepositoryAssumption ==
    MaxAttempts \in Nat \ {0} /\ Window \in Nat \ {0} /\ MaxMutations \in Nat

VARIABLES doc,         \* the stored document; revision 0 means there is none
          caller,
          nextId,      \* supply of mutation ids
          returned     \* what calls of transact returned

vars == <<doc, caller, nextId, returned>>

Document == [revision : Nat, log : Seq(Nat), mutationIds : SUBSET Nat]

(* base: the revision `stored` was read at; draft: the mutated copy.       *)
Call == [pc : {"idle", "read", "write", "verify"}, attempt : 0 .. MaxAttempts,
         id : Nat,
         base : Nat, draft : Document]

Empty == [revision |-> 0, log |-> <<>>, mutationIds |-> {}]

Idle == [pc |-> "idle", attempt |-> 0, id |-> 0, base |-> 0, draft |-> Empty]

TypeOK ==
    /\ doc \in Document
    /\ caller \in [Callers -> Call]
    /\ nextId \in Nat \ {0}
    /\ returned \subseteq [mutation : Nat, on : Nat]

Init ==
    /\ doc = Empty
    /\ caller = [c \in Callers |-> Idle]
    /\ nextId = 1
    /\ returned = {}
-----------------------------------------------------------------------------

Begin(c) ==
    /\ caller[c].pc = "idle" /\ nextId <= MaxMutations
    /\ caller' = [caller EXCEPT ![c].pc = "read"]
    /\ UNCHANGED <<doc, nextId, returned>>

(* The ids of the last Window mutations.                                   *)
Recent(log) ==
    {log[i] : i \in {j \in DOMAIN log : j + Window > Len(log)}}

(* Fault for a mutation run: the draft has the revision it was read at.    *)
Mutated_SameRevision(stored, id) ==
    [revision |-> IF stored.revision = 0 THEN 1 ELSE stored.revision,
     log |-> Append(stored.log, id),
     mutationIds |-> Recent(Append(stored.log, id))]

(* The copy after the mutation ran on it.                                  *)
Mutated(stored, id) ==
    [revision |-> stored.revision + 1,
     log |-> Append(stored.log, id),
     mutationIds |-> Recent(Append(stored.log, id))]

(* Fault for a mutation run: one attempt too many.                         *)
ReadAndMutate_OneMore(c) ==
    /\ caller[c].pc = "read" /\ caller[c].attempt <= MaxAttempts
    /\ caller' = [caller EXCEPT
         ![c].pc = "write", ![c].id = nextId, ![c].base = doc.revision,
         ![c].draft = Mutated(doc, nextId)]
    /\ nextId' = nextId + 1
    /\ UNCHANGED <<doc, returned>>

(* findOne, and the mutation on a clone of what it found.                  *)
ReadAndMutate(c) ==
    /\ caller[c].pc = "read" /\ caller[c].attempt < MaxAttempts
    /\ caller' = [caller EXCEPT
         ![c].pc = "write", ![c].id = nextId, ![c].base = doc.revision,
         ![c].draft = Mutated(doc, nextId)]
    /\ nextId' = nextId + 1
    /\ UNCHANGED <<doc, returned>>

(* The mutation throws, a call of the database outside the try does, or    *)
(* the isolate dies: the call is over and what it wrote stays.             *)
Throw(c) ==
    /\ caller[c].pc # "idle"
    /\ caller' = [caller EXCEPT ![c] = Idle]
    /\ UNCHANGED <<doc, nextId, returned>>

(* Fault for a mutation run: the last attempt is waited for, not counted.  *)
GiveUp_Late(c) ==
    /\ caller[c].pc = "read" /\ caller[c].attempt > MaxAttempts
    /\ caller' = [caller EXCEPT ![c] = Idle]
    /\ UNCHANGED <<doc, nextId, returned>>

(* "shared_hosting_scheduler_conflict", "m4_repository_conflict".          *)
GiveUp(c) ==
    /\ caller[c].pc = "read" /\ caller[c].attempt = MaxAttempts
    /\ caller' = [caller EXCEPT ![c] = Idle]
    /\ UNCHANGED <<doc, nextId, returned>>

(* Fault for a mutation run: the document is replaced whatever it is now.  *)
Matches_Always(c) == TRUE

(* The filter: the revision read, or no document if none was found.        *)
Matches(c) == doc.revision = caller[c].base

NextAttempt(c) ==
    caller' = [caller EXCEPT ![c].pc = "read", ![c].attempt = @ + 1]

(* replaceOne, or updateOne with upsert.  Its reply may be lost, and it    *)
(* may never have arrived; the catch goes on with the next attempt.  A     *)
(* duplicate key, when somebody else made the document, ends there too.    *)
Write(c) ==
    /\ caller[c].pc = "write"
    /\ doc' = IF Matches(c) THEN caller[c].draft ELSE doc
    /\ \/ caller' = [caller EXCEPT ![c].pc = "verify"]
       \/ NextAttempt(c)
    /\ UNCHANGED <<nextId, returned>>

WriteFails(c) ==
    /\ caller[c].pc = "write"
    /\ NextAttempt(c)
    /\ UNCHANGED <<doc, nextId, returned>>

(* Fault for a mutation run: any progress of the document is a success.    *)
Verified_ByRevision(c) == doc.revision > caller[c].base

Verified(c) == caller[c].id \in doc.mutationIds

(* The id is in the document, or the attempt counts as lost.               *)
Verify(c) ==
    /\ caller[c].pc = "verify"
    /\ \/ /\ Verified(c)
          /\ returned' = returned \cup
               {[mutation |-> caller[c].id,
                 on |-> Len(caller[c].draft.log) - 1]}
          /\ caller' = [caller EXCEPT ![c] = Idle]
       \/ /\ ~Verified(c)
          /\ NextAttempt(c)
          /\ UNCHANGED returned
    /\ UNCHANGED <<doc, nextId>>

Step(c) ==
    ReadAndMutate(c) \/ GiveUp(c) \/ Write(c) \/ WriteFails(c) \/ Verify(c)

Next == \E c \in Callers : Begin(c) \/ Step(c) \/ Throw(c)

Spec == Init /\ [][Next]_vars

FairSpec == Spec /\ \A c \in Callers : WF_vars(Step(c))
-----------------------------------------------------------------------------

(* A copy that could still replace the document was made from the document *)
(* as it is: a copy of anything older has another revision.                *)
DraftIsCurrent ==
    \A c \in Callers :
        caller[c].pc = "write" /\ Matches(c)
        => caller[c].draft = Mutated(doc, caller[c].id)

(* The document and its callers are well-formed, and no draft that could   *)
(* be written is stale.                                                    *)
Inv == TypeOK /\ DraftIsCurrent

(* "Every update is a revision-checked CAS, so server, task, lease,        *)
(* event-deduplication and idempotency state move atomically"              *)
(* (serverRepository.ts:193): no mutation is lost or applied to anything   *)
(* but the current aggregate, and a result that is returned was computed   *)
(* where the mutation took effect, although other mutations, lost replies, *)
(* failed writes and repeated attempts come in between.                    *)
Abstract == INSTANCE AtomicAggregate WITH log <- doc.log

AtomicMutations == Abstract!Spec

(* A call ends, with its result or with a conflict, whatever the others    *)
(* write.                                                                  *)
CallsEnd == \A c \in Callers : caller[c].pc # "idle" ~> caller[c].pc = "idle"
=============================================================================
