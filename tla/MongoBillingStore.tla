-------------------------- MODULE MongoBillingStore --------------------------
(***************************************************************************)
(* `MongoBillingStore` (src/src/ledger.ts): the billing aggregate is one   *)
(* versioned MongoDB document, and a lease stored in that document         *)
(* serializes the callbacks that rewrite it.  Every isolate has its own    *)
(* clock, may stop at any point, and may lose the reply of any call to the *)
(* database after the database has done the work.                          *)
(*                                                                         *)
(* The aggregate is abstracted to `applied`: how often the effect of each  *)
(* idempotency key is in it.  A callback reads the copy that came with the *)
(* lease, looks its key up, and adds its effect only when it is absent.    *)
(***************************************************************************)
EXTENDS Naturals, FiniteSets

CONSTANTS Clients,      \* isolates running `transaction`
          Keys,         \* idempotency keys of the callbacks
          NoKey,        \* the key of an isolate that runs no transaction
          LockLease,    \* lockLeaseMs
          LockWait,     \* lockWaitMs
          MaxClock,     \* bound: no call begins after this time
          MaxToken      \* bound: no call begins after this many leases

ASSUME LeaseAssumption ==
    /\ LockLease \in Nat \ {0} /\ LockWait \in Nat \ {0}
    /\ MaxClock \in Nat /\ MaxToken \in Nat
    /\ NoKey \notin Keys

VARIABLES doc,          \* the document `billing-state-v1`
          client,       \* what each isolate is doing, and its local copy
          clock,        \* each isolate's own `now()`
          nextToken,    \* supply of `createLockToken`, never reused
          acked         \* keys whose `transaction` call returned a result

vars == <<doc, client, clock, nextToken, acked>>

NoLease == [token |-> 0, expiresAt |-> 0]
Lease == [token : Nat, expiresAt : Nat]

Document == [exists : BOOLEAN, version : Nat, applied : [Keys -> Nat],
             lease : Lease]

Absent == [k \in Keys |-> 0]

(* pc: where the call of `transaction` is.                                 *)
(*   ensure  - before `ensureStateDocument` has answered                   *)
(*   acquire - in the loop of `acquire`                                    *)
(*   locked  - holds `locked.document`, the callback has not run           *)
(*   commit  - the callback has run, `updateOne` has not been sent         *)
(*   release - in the catch block, before `release(locked.token)`          *)
PCs == {"idle", "ensure", "acquire", "locked", "commit", "release"}

Call == [pc : PCs, key : Keys \union {NoKey}, token : Nat, version : Nat,
         next : [Keys -> Nat], deadline : Nat]

TypeOK ==
    /\ doc \in Document
    /\ client \in [Clients -> Call]
    /\ clock \in [Clients -> Nat]
    /\ nextToken \in Nat
    /\ acked \subseteq Keys

-----------------------------------------------------------------------------

(* No call in progress; a call that returns or throws forgets its locals.  *)
Idle == [pc |-> "idle", key |-> NoKey, token |-> 0, version |-> 0,
         next |-> Absent, deadline |-> 0]

Init ==
    /\ doc = [exists |-> FALSE, version |-> 0, applied |-> Absent,
              lease |-> NoLease]
    /\ client = [c \in Clients |-> Idle]
    /\ clock = [c \in Clients |-> 0]
    /\ nextToken = 1
    /\ acked = {}

Goto(c, pc) == client' = [client EXCEPT ![c].pc = pc]

Return(c) == client' = [client EXCEPT ![c] = Idle]

(* A caller enters `transaction`, for the first time or to retry.          *)
Begin(c, k) ==
    /\ client[c].pc = "idle"
    /\ nextToken <= MaxToken /\ clock[c] < MaxClock
    /\ client' = [client EXCEPT ![c].pc = "ensure", ![c].key = k]
    /\ UNCHANGED <<doc, clock, nextToken, acked>>

(* `ensureStateDocument`: an upsert with $setOnInsert creates the document *)
(* once and leaves an existing one alone; then the deadline is computed.   *)
EnsureStateDocument(c) ==
    /\ client[c].pc = "ensure"
    /\ doc' = [doc EXCEPT !.exists = TRUE]
    /\ client' = [client EXCEPT ![c].pc = "acquire",
                                ![c].deadline = clock[c] + LockWait]
    /\ UNCHANGED <<clock, nextToken, acked>>

LeaseFree(now) ==
    \/ doc.lease = NoLease
    \/ doc.lease.expiresAt <= now

(* Faults for the mutation runs: an acquisition that reuses its token, and *)
(* a wait that never times out.                                            *)
Acquire_SameToken(c) ==
    /\ client[c].pc = "acquire"
    /\ clock[c] < client[c].deadline
    /\ LeaseFree(clock[c])
    /\ doc' = [doc EXCEPT !.lease = [token |-> 1,
                                     expiresAt |-> clock[c] + LockLease]]
    /\ nextToken' = nextToken + 1
    /\ client' = [client EXCEPT ![c].pc = "locked",
                                ![c].token = 1,
                                ![c].version = doc.version,
                                ![c].next = doc.applied]
    /\ UNCHANGED <<clock, acked>>

AcquireTimeout_Never(c) == FALSE

(* One round of the loop of `acquire` that wins the lease: the conditional *)
(* findOneAndUpdate writes it and returns the document.  When the reply is *)
(* lost the call throws before its `try`, so nobody releases this lease.   *)
Acquire(c) ==
    /\ client[c].pc = "acquire"
    /\ clock[c] < client[c].deadline
    /\ LeaseFree(clock[c])
    /\ doc' = [doc EXCEPT !.lease = [token |-> nextToken,
                                     expiresAt |-> clock[c] + LockLease]]
    /\ nextToken' = nextToken + 1
    /\ \/ client' = [client EXCEPT ![c].pc = "locked",
                                   ![c].token = nextToken,
                                   ![c].version = doc.version,
                                   ![c].next = doc.applied]
       \/ Return(c)
    /\ UNCHANGED <<clock, acked>>

(* "Timed out waiting for the billing state lease".                        *)
AcquireTimeout(c) ==
    /\ client[c].pc = "acquire"
    /\ clock[c] >= client[c].deadline
    /\ Return(c)
    /\ UNCHANGED <<doc, clock, nextToken, acked>>

(* The aggregate once the callback for key k has run on it.                *)
Effect(k, state) ==
    IF state[k] > 0 THEN state ELSE [state EXCEPT ![k] = @ + 1]

(* The callback runs on the copy: it replays its key or adds its effect.   *)
RunCallback(c) ==
    /\ client[c].pc = "locked"
    /\ client' = [client EXCEPT
                    ![c].pc = "commit",
                    ![c].next = Effect(client[c].key, @)]
    /\ UNCHANGED <<doc, clock, nextToken, acked>>

(* The callback throws (a business rule refuses): nothing is written.      *)
CallbackThrows(c) ==
    /\ client[c].pc = "locked"
    /\ Goto(c, "release")
    /\ UNCHANGED <<doc, clock, nextToken, acked>>

(* Fault for a mutation run: a commit that checks neither version nor      *)
(* lease.                                                                  *)
CommitMatches_Unchecked(c) == doc.exists

(* The filter of the committing updateOne.                                 *)
CommitMatches(c) ==
    /\ doc.version = client[c].version
    /\ doc.lease.token = client[c].token

(* Fault for a mutation run: the key is read after the call forgot it.     *)
Commit_AfterReturn(c) ==
    /\ client[c].pc = "commit"
    /\ CommitMatches(c)
    /\ doc' = [doc EXCEPT !.applied = client[c].next,
                          !.version = @ + 1,
                          !.lease = NoLease]
    /\ Return(c)
    /\ acked' = acked \union {client'[c].key}
    /\ UNCHANGED <<clock, nextToken>>

(* The committing updateOne matches: state, version and lease change in    *)
(* one write.  A lost reply sends the caller to the catch block, although  *)
(* the write took place.                                                   *)
Commit(c) ==
    /\ client[c].pc = "commit"
    /\ CommitMatches(c)
    /\ doc' = [doc EXCEPT !.applied = client[c].next,
                          !.version = @ + 1,
                          !.lease = NoLease]
    /\ \/ Return(c) /\ acked' = acked \union {client[c].key}
       \/ Goto(c, "release") /\ UNCHANGED acked
    /\ UNCHANGED <<clock, nextToken>>

(* The committing updateOne matches nothing, or never reached the server:  *)
(* "lease was lost before its state could be committed".                   *)
CommitFails(c) ==
    /\ client[c].pc = "commit"
    /\ Goto(c, "release")
    /\ UNCHANGED <<doc, clock, nextToken, acked>>

(* Fault for a mutation run: clears whoever's lease is there.              *)
Release_AnyLease(c) ==
    /\ client[c].pc = "release"
    /\ doc' = [doc EXCEPT !.lease = NoLease]
    /\ Return(c)
    /\ UNCHANGED <<clock, nextToken, acked>>

(* `release`: unsets the lease only while it carries this token.           *)
Release(c) ==
    /\ client[c].pc = "release"
    /\ doc' = IF doc.lease.token = client[c].token
              THEN [doc EXCEPT !.lease = NoLease] ELSE doc
    /\ Return(c)
    /\ UNCHANGED <<clock, nextToken, acked>>

(* The isolate is evicted, or `release` itself fails: what it has written  *)
(* stays, its lease included.                                              *)
Crash(c) ==
    /\ client[c].pc # "idle"
    /\ Return(c)
    /\ UNCHANGED <<doc, clock, nextToken, acked>>

(* Clocks advance independently of each other.                             *)
Tick(c) ==
    /\ \/ clock[c] < MaxClock
       \/ client[c].pc = "acquire" /\ clock[c] < client[c].deadline
    /\ clock' = [clock EXCEPT ![c] = @ + 1]
    /\ UNCHANGED <<doc, client, nextToken, acked>>

Step(c) ==
    \/ EnsureStateDocument(c)
    \/ Acquire(c)
    \/ AcquireTimeout(c)
    \/ RunCallback(c)
    \/ CallbackThrows(c)
    \/ Commit(c)
    \/ CommitFails(c)
    \/ Release(c)

Next == \E c \in Clients :
            \/ \E k \in Keys : Begin(c, k)
            \/ Step(c)
            \/ Crash(c)
            \/ Tick(c)

Spec == Init /\ [][Next]_vars

(* An isolate that is not evicted runs its call to the end and its clock   *)
(* advances; whether a caller begins, or an isolate is evicted, is open.   *)
Fairness == \A c \in Clients : WF_vars(Step(c)) /\ WF_vars(Tick(c))

FairSpec == Spec /\ Fairness
-----------------------------------------------------------------------------

(* Whoever's token is in the document holds a copy of the document as it   *)
(* is now: an expired lease taken over by another isolate, a late commit,  *)
(* a lost reply or a crash never leave a stale copy able to commit.        *)
LeaseGuardsCopy ==
    \A c \in Clients :
        /\ client[c].pc \in {"locked", "commit"}
        /\ client[c].token = doc.lease.token
        => /\ client[c].version = doc.version
           /\ client[c].next =
                IF client[c].pc = "locked" THEN doc.applied
                ELSE Effect(client[c].key, doc.applied)

(* The store is well-formed, and no copy that could be written is stale.   *)
Inv == TypeOK /\ LeaseGuardsCopy

(* `MongoBillingStore implements BillingStore`: each key takes effect at   *)
(* most once, never disappears again, and a caller is told it committed    *)
(* only when its effect is in the aggregate.                               *)
Abstract == INSTANCE BillingStore WITH applied <- doc.applied

AtomicTransactions == Abstract!Spec

(* A lease leaves the document by its holder's own commit or release, or   *)
(* by a later isolate that found it expired on that isolate's clock.       *)
LeaseRemovedByOwnerOrExpiry ==
    [][doc.lease # NoLease /\ doc'.lease # doc.lease
       => \E c \in Clients :
            \/ /\ client[c].pc \in {"commit", "release"}
               /\ client[c].token = doc.lease.token
            \/ doc.lease.expiresAt <= clock[c] /\ client[c].pc = "acquire"
      ]_vars

(* Every call of `transaction` ends, with a result or an error, even when  *)
(* the isolate holding the lease died: the wait is bounded by lockWaitMs.  *)
TransactionsEnd ==
    \A c \in Clients : client[c].pc # "idle" ~> client[c].pc = "idle"
=============================================================================
