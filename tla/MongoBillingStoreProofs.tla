----------------------- MODULE MongoBillingStoreProofs -----------------------
(***************************************************************************)
(* The billing aggregate behaves as one atomic store for any number of     *)
(* isolates, any lease and wait times and any clocks.                      *)
(*                                                                         *)
(* The argument: tokens are fresh, so the token in the document identifies *)
(* one acquisition; whoever's token is there holds an up-to-date copy      *)
(* (LeaseGuardsCopy); hence a commit that matches the filter writes what   *)
(* the callback makes of the document as it is at that moment.             *)
(***************************************************************************)
EXTENDS MongoBillingStore, TLAPS

(* Tokens in use are smaller than the next one; zero is no token.          *)
TokensFresh ==
    /\ nextToken >= 1
    /\ doc.lease.token < nextToken
    /\ \A c \in Clients :
        /\ client[c].token < nextToken
        /\ client[c].pc \in {"locked", "commit", "release"}
           => client[c].token >= 1

(* A call in progress has a key.                                           *)
CallsHaveKeys ==
    \A c \in Clients : client[c].pc # "idle" => client[c].key \in Keys

(* Each key took effect at most once, and an acknowledged one did.         *)
EffectsOnce ==
    /\ \A k \in Keys : doc.applied[k] \in {0, 1}
    /\ \A k \in acked : doc.applied[k] = 1

IInv ==
    /\ TypeOK
    /\ TokensFresh
    /\ CallsHaveKeys
    /\ LeaseGuardsCopy
    /\ EffectsOnce

(* Running a callback on an aggregate yields an aggregate.                 *)
LEMMA EffectType ==
    ASSUME NEW k \in Keys, NEW state \in [Keys -> Nat]
    PROVE  Effect(k, state) \in [Keys -> Nat]
  BY DEF Effect

LEMMA InitIInv == Init => IInv
  BY LeaseAssumption
  DEF Init, IInv, TypeOK, Document, Lease, NoLease, Absent, Call, PCs, Idle,
      TokensFresh, CallsHaveKeys, LeaseGuardsCopy, EffectsOnce

(* Rewriting the record of one call with a record of a call.               *)
LEMMA CallUpdate ==
    ASSUME TypeOK, NEW c \in Clients, NEW x \in Call,
           client' = [client EXCEPT ![c] = x]
    PROVE  /\ client' \in [Clients -> Call]
           /\ client'[c] = x
           /\ \A d \in Clients : d # c => client'[d] = client[d]
  BY DEF TypeOK

LEMMA CallFields ==
    ASSUME NEW x \in Call
    PROVE  /\ x.pc \in PCs /\ x.key \in Keys \union {NoKey}
           /\ x.token \in Nat /\ x.version \in Nat
           /\ x.next \in [Keys -> Nat] /\ x.deadline \in Nat
           /\ \A p \in PCs : [x EXCEPT !.pc = p] \in Call
  BY DEF Call

LEMMA IdleType == Idle \in Call
  BY DEF Idle, Call, PCs, Absent

(* No step leaves the types.                                               *)
LEMMA TypeStep == IInv /\ [Next]_vars => TypeOK'
  <1> SUFFICES ASSUME IInv, [Next]_vars PROVE TypeOK'
    OBVIOUS
  <1>a. TypeOK /\ LockLease \in Nat /\ LockWait \in Nat
    BY LeaseAssumption DEF IInv
  <1>b. \A c \in Clients : client[c] \in Call
    BY <1>a DEF TypeOK
  <1>c. {"idle", "ensure", "acquire", "locked", "commit", "release"} = PCs
    BY DEF PCs
  <1>d. \A c \in Clients : Return(c) => client' \in [Clients -> Call]
    BY <1>a, IdleType, CallUpdate DEF Return
  <1>e. \A c \in Clients, p \in PCs : Goto(c, p) => client' \in [Clients -> Call]
    BY <1>a, <1>b, CallFields, CallUpdate DEF Goto
  <1>f. doc \in Document /\ clock \in [Clients -> Nat] /\ nextToken \in Nat
        /\ acked \subseteq Keys /\ client \in [Clients -> Call]
    BY <1>a DEF TypeOK
  <1>g. NoLease \in Lease /\ [doc EXCEPT !.lease = NoLease] \in Document
    BY <1>f DEF Document, Lease, NoLease
  <1>1. ASSUME NEW c \in Clients, NEW k \in Keys, Begin(c, k) PROVE TypeOK'
    <2>1. [client[c] EXCEPT !.pc = "ensure", !.key = k] \in Call
      BY <1>b, <1>c DEF Call
    <2>2. client' \in [Clients -> Call]
      BY <1>1, <1>f, <2>1 DEF Begin
    <2>. QED BY <1>1, <1>f, <2>2 DEF Begin, TypeOK
  <1>2. ASSUME NEW c \in Clients, EnsureStateDocument(c) PROVE TypeOK'
    <2>1. clock[c] + LockWait \in Nat
      BY <1>a, <1>f
    <2>2. [client[c] EXCEPT !.pc = "acquire", !.deadline = clock[c] + LockWait]
            \in Call
      BY <1>b, <1>c, <2>1 DEF Call
    <2>3. client' \in [Clients -> Call]
      BY <1>2, <1>f, <2>2 DEF EnsureStateDocument
    <2>4. doc' \in Document
      BY <1>2, <1>f DEF EnsureStateDocument, Document
    <2>. QED BY <1>2, <1>f, <2>3, <2>4 DEF EnsureStateDocument, TypeOK
  <1>3. ASSUME NEW c \in Clients, Acquire(c) PROVE TypeOK'
    <2>1. doc.version \in Nat /\ doc.applied \in [Keys -> Nat]
      BY <1>f DEF Document
    <2>2. [client[c] EXCEPT !.pc = "locked", !.token = nextToken,
                            !.version = doc.version, !.next = doc.applied]
            \in Call
      BY <1>b, <1>c, <1>f, <2>1 DEF Call
    <2>3. client' \in [Clients -> Call]
      BY <1>3, <1>d, <1>f, <2>2 DEF Acquire
    <2>4. [token |-> nextToken, expiresAt |-> clock[c] + LockLease] \in Lease
      BY <1>a, <1>f DEF Lease
    <2>5. doc' \in Document
      BY <1>3, <1>f, <2>4 DEF Acquire, Document
    <2>. QED BY <1>3, <1>f, <2>3, <2>5 DEF Acquire, TypeOK
  <1>4. ASSUME NEW c \in Clients, AcquireTimeout(c) PROVE TypeOK'
    BY <1>4, <1>d, <1>f DEF AcquireTimeout, TypeOK
  <1>5. ASSUME NEW c \in Clients, RunCallback(c) PROVE TypeOK'
    <2>1. client[c].key \in Keys
      BY <1>5 DEF RunCallback, IInv, CallsHaveKeys
    <2>2. Effect(client[c].key, client[c].next) \in [Keys -> Nat]
      BY <1>b, <2>1, CallFields, EffectType
    <2>3. [client[c] EXCEPT !.pc = "commit",
                            !.next = Effect(client[c].key, @)] \in Call
      BY <1>b, <1>c, <2>2 DEF Call
    <2>4. client' \in [Clients -> Call]
      BY <1>5, <1>f, <2>3 DEF RunCallback
    <2>. QED BY <1>5, <1>f, <2>4 DEF RunCallback, TypeOK
  <1>6. ASSUME NEW c \in Clients, CallbackThrows(c) PROVE TypeOK'
    BY <1>6, <1>c, <1>e, <1>f DEF CallbackThrows, TypeOK
  <1>7. ASSUME NEW c \in Clients, Commit(c) PROVE TypeOK'
    <2>1. client[c].key \in Keys
      BY <1>7 DEF Commit, IInv, CallsHaveKeys
    <2>2. client[c].next \in [Keys -> Nat]
      BY <1>b, CallFields
    <2>3. doc' \in Document
      <3>1. doc' = [doc EXCEPT !.applied = client[c].next, !.version = @ + 1,
                               !.lease = NoLease]
        BY <1>7 DEF Commit
      <3>2. NoLease \in Lease /\ doc.version + 1 \in Nat
        BY <1>f, <1>g DEF Document
      <3>. QED BY <1>f, <2>2, <3>1, <3>2 DEF Document
    <2>4. client' \in [Clients -> Call]
      BY <1>7, <1>c, <1>d, <1>e DEF Commit
    <2>. QED BY <1>7, <1>f, <2>1, <2>3, <2>4 DEF Commit, TypeOK
  <1>8. ASSUME NEW c \in Clients, CommitFails(c) PROVE TypeOK'
    BY <1>8, <1>c, <1>e, <1>f DEF CommitFails, TypeOK
  <1>9. ASSUME NEW c \in Clients, Release(c) PROVE TypeOK'
    BY <1>9, <1>d, <1>f, <1>g DEF Release, TypeOK
  <1>10. ASSUME NEW c \in Clients, Crash(c) PROVE TypeOK'
    BY <1>10, <1>d, <1>f DEF Crash, TypeOK
  <1>11. ASSUME NEW c \in Clients, Tick(c) PROVE TypeOK'
    BY <1>11, <1>f DEF Tick, TypeOK
  <1>12. CASE UNCHANGED vars
    BY <1>12, <1>f DEF vars, TypeOK
  <1>. QED
    BY <1>1, <1>2, <1>3, <1>4, <1>5, <1>6, <1>7, <1>8, <1>9, <1>10, <1>11,
       <1>12 DEF Next, Step

(* What a step does to the aggregate: nothing, or the callback of the      *)
(* committing isolate's key on the aggregate as it is.                     *)
LEMMA CommitWritesEffect ==
    ASSUME IInv, NEW c \in Clients, Commit(c)
    PROVE  /\ client[c].key \in Keys
           /\ doc'.applied = Effect(client[c].key, doc.applied)
           /\ acked' \in {acked, acked \union {client[c].key}}
  BY DEF IInv, TypeOK, Document, Commit, CommitMatches, CallsHaveKeys,
         LeaseGuardsCopy

LEMMA AggregateStep ==
    ASSUME IInv, [Next]_vars
    PROVE  \/ doc'.applied = doc.applied /\ acked' = acked
           \/ \E c \in Clients : Commit(c)
  BY DEF IInv, TypeOK, Document, Next, Step, Begin, EnsureStateDocument, Acquire,
         AcquireTimeout, RunCallback, CallbackThrows, CommitFails, Release,
         Crash, Tick, vars

(* The abstract step that a step of the store is.                          *)
LEMMA StepRefines == IInv /\ [Next]_vars => [Abstract!Next]_<<doc.applied, acked>>
  <1> SUFFICES ASSUME IInv, [Next]_vars
               PROVE  [Abstract!Next]_<<doc.applied, acked>>
    OBVIOUS
  <1>1. ASSUME NEW c \in Clients, Commit(c)
        PROVE  [Abstract!Next]_<<doc.applied, acked>>
    <2> DEFINE k == client[c].key
    <2>1. /\ k \in Keys
          /\ doc'.applied = Effect(k, doc.applied)
          /\ acked' \in {acked, acked \union {k}}
      BY <1>1, CommitWritesEffect
    <2>2. doc.applied[k] \in {0, 1} /\ doc.applied \in [Keys -> Nat]
      BY <2>1 DEF IInv, EffectsOnce, TypeOK, Document
    <2>3. CASE doc.applied[k] = 0
      <3>1. doc'.applied = [doc.applied EXCEPT ![k] = 1]
        BY <2>1, <2>2, <2>3 DEF Effect
      <3>2. Abstract!Apply(k)
        BY <2>1, <2>3, <3>1 DEF Abstract!Apply
      <3>. QED BY <2>1, <3>2 DEF Abstract!Next
    <2>4. CASE doc.applied[k] = 1
      <3>1. doc'.applied = doc.applied
        BY <2>1, <2>4 DEF Effect
      <3>2. CASE acked' = acked
        BY <3>1, <3>2
      <3>3. CASE acked' = acked \union {k}
        BY <2>1, <2>4, <3>1, <3>3 DEF Abstract!Next, Abstract!Replay
      <3>. QED BY <2>1, <3>2, <3>3
    <2>. QED BY <2>2, <2>3, <2>4
  <1>. QED
    BY <1>1, AggregateStep

LEMMA EffectsOnceStep == IInv /\ [Next]_vars => EffectsOnce'
  <1> SUFFICES ASSUME IInv, [Next]_vars PROVE EffectsOnce'
    OBVIOUS
  <1> USE DEF IInv, TypeOK, EffectsOnce
  <1>1. CASE doc'.applied = doc.applied /\ acked' = acked
    BY <1>1
  <1>2. ASSUME NEW c \in Clients, Commit(c) PROVE EffectsOnce'
    <2> DEFINE k == client[c].key
    <2>1. /\ k \in Keys
          /\ doc'.applied = Effect(k, doc.applied)
          /\ acked' \in {acked, acked \union {k}}
      BY <1>2, CommitWritesEffect
    <2>2. doc.applied \in [Keys -> Nat]
      BY DEF Document
    <2>3. /\ \A x \in Keys : x # k => doc'.applied[x] = doc.applied[x]
          /\ doc'.applied[k] = 1
      BY <2>1, <2>2 DEF Effect
    <2>. QED BY <2>1, <2>3
  <1>. QED BY <1>1, <1>2, AggregateStep

(* What moving a call, or ending it, does to the records of the calls.     *)
LEMMA GotoFields ==
    ASSUME TypeOK, NEW c \in Clients, NEW p \in PCs, Goto(c, p)
    PROVE  /\ client'[c].pc = p
           /\ client'[c].key = client[c].key
           /\ client'[c].token = client[c].token
           /\ client'[c].version = client[c].version
           /\ client'[c].next = client[c].next
           /\ \A d \in Clients : d # c => client'[d] = client[d]
  <1>1. client[c] \in Call /\ client \in [Clients -> Call]
    BY DEF TypeOK
  <1>. QED BY <1>1 DEF Goto, Call

LEMMA ReturnFields ==
    ASSUME TypeOK, NEW c \in Clients, Return(c)
    PROVE  /\ client'[c] = Idle
           /\ \A d \in Clients : d # c => client'[d] = client[d]
  BY DEF Return, TypeOK

(* An acquisition takes the next token and a copy of the document, or its  *)
(* reply is lost.                                                          *)
LEMMA AcquireFields ==
    ASSUME TypeOK, NEW c \in Clients, Acquire(c)
    PROVE  /\ \/ client'[c] = Idle
              \/ /\ client'[c].pc = "locked"
                 /\ client'[c].key = client[c].key
                 /\ client'[c].token = nextToken
                 /\ client'[c].version = doc.version
                 /\ client'[c].next = doc.applied
           /\ \A d \in Clients : d # c => client'[d] = client[d]
           /\ doc'.lease.token = nextToken
           /\ doc'.version = doc.version
           /\ doc'.applied = doc.applied
           /\ nextToken' = nextToken + 1
           /\ client[c].pc = "acquire"
  <1>1. client[c] \in Call /\ client \in [Clients -> Call] /\ doc \in Document
    BY DEF TypeOK
  <1>2. CASE Return(c)
    BY <1>1, <1>2, ReturnFields DEF Acquire, Document
  <1>3. CASE client' = [client EXCEPT ![c].pc = "locked",
                                   ![c].token = nextToken,
                                   ![c].version = doc.version,
                                   ![c].next = doc.applied]
    BY <1>1, <1>3 DEF Acquire, Document, Call
  <1>. QED BY <1>2, <1>3 DEF Acquire

(* A step of one call that takes no lease: it keeps or forgets its token,  *)
(* leaves the document's token or clears it, and changes the aggregate     *)
(* only when it clears it.                                                 *)
Quiet(c) ==
    /\ \A d \in Clients : d # c => client'[d] = client[d]
    /\ \/ client'[c].pc = "idle" /\ client'[c].token = 0
       \/ /\ client'[c].pc # "idle" => client'[c].key \in Keys
          /\ client'[c].token = client[c].token
          /\ client'[c].pc \in {"locked", "commit", "release"}
             => client[c].pc \in {"locked", "commit", "release"}
    /\ client'[c].pc \in {"locked", "commit"}
       => client'[c] = client[c] \/ RunCallback(c)
    /\ doc'.lease.token \in {doc.lease.token, 0}
    /\ \/ doc'.lease.token = 0
       \/ doc'.version = doc.version /\ doc'.applied = doc.applied
    /\ nextToken' = nextToken

LEMMA QuietSteps ==
    ASSUME IInv, NEW c \in Clients,
           \/ \E k \in Keys : Begin(c, k)
           \/ EnsureStateDocument(c) \/ AcquireTimeout(c) \/ RunCallback(c)
           \/ CallbackThrows(c) \/ Commit(c) \/ CommitFails(c) \/ Release(c)
           \/ Crash(c) \/ Tick(c)
    PROVE  Quiet(c)
  <1> USE DEF Quiet
  <1>a. TypeOK /\ client[c] \in Call /\ doc \in Document
    BY DEF IInv, TypeOK
  <1>b. client[c].pc # "idle" => client[c].key \in Keys
    BY DEF IInv, CallsHaveKeys
  <1>c. Idle.pc = "idle" /\ Idle.token = 0
    BY DEF Idle
  <1>d. {"idle", "ensure", "acquire", "locked", "commit", "release"} = PCs
    BY DEF PCs
  <1>e. client \in [Clients -> Call]
    BY <1>a DEF TypeOK
  <1>f. [doc EXCEPT !.lease = NoLease].lease.token = 0
    BY <1>a DEF Document, NoLease
  <1>1. ASSUME NEW k \in Keys, Begin(c, k) PROVE Quiet(c)
    BY <1>1, <1>a, <1>e DEF Begin, Call
  <1>2. CASE EnsureStateDocument(c)
    <2>1. /\ doc'.lease = doc.lease /\ doc'.version = doc.version
          /\ doc'.applied = doc.applied
      BY <1>2, <1>a DEF EnsureStateDocument, Document
    <2>. QED BY <1>2, <1>a, <1>b, <1>e, <2>1 DEF EnsureStateDocument, Call
  <1>3. CASE AcquireTimeout(c)
    BY <1>3, <1>a, <1>c, ReturnFields DEF AcquireTimeout
  <1>4. CASE RunCallback(c)
    BY <1>4, <1>a, <1>b, <1>e DEF RunCallback, Call
  <1>5. CASE CallbackThrows(c)
    BY <1>5, <1>a, <1>b, <1>d, GotoFields DEF CallbackThrows
  <1>6. CASE Commit(c)
    <2>1. doc'.lease.token = 0
      BY <1>6, <1>a DEF Commit, Document, NoLease
    <2>2. client[c].key \in Keys /\ client[c].pc = "commit"
      BY <1>6, <1>b DEF Commit
    <2>3. CASE Return(c)
      BY <1>6, <1>a, <1>c, <2>1, <2>3, ReturnFields DEF Commit
    <2>4. CASE Goto(c, "release")
      BY <1>6, <1>a, <1>d, <2>1, <2>2, <2>4, GotoFields DEF Commit
    <2>. QED BY <1>6, <2>3, <2>4 DEF Commit
  <1>7. CASE CommitFails(c)
    BY <1>7, <1>a, <1>b, <1>d, GotoFields DEF CommitFails
  <1>8. CASE Release(c)
    BY <1>8, <1>a, <1>c, <1>f, ReturnFields DEF Release
  <1>9. CASE Crash(c)
    BY <1>9, <1>a, <1>c, ReturnFields DEF Crash
  <1>10. CASE Tick(c)
    BY <1>10, <1>b, <1>a DEF Tick
  <1>. QED
    BY <1>1, <1>2, <1>3, <1>4, <1>5, <1>6, <1>7, <1>8, <1>9, <1>10

(* Tokens stay fresh, and a call keeps its key until it ends.              *)
LEMMA TokenStep == IInv /\ [Next]_vars => TokensFresh' /\ CallsHaveKeys'
  <1> SUFFICES ASSUME IInv, [Next]_vars PROVE TokensFresh' /\ CallsHaveKeys'
    OBVIOUS
  <1>a. TypeOK /\ TokensFresh /\ CallsHaveKeys /\ nextToken \in Nat
    BY DEF IInv, TypeOK
  <1>b. \A c \in Clients : client[c].token \in Nat
    BY <1>a, CallFields DEF TypeOK
  <1>1. ASSUME NEW c \in Clients, Quiet(c)
        PROVE  TokensFresh' /\ CallsHaveKeys'
    BY <1>1, <1>a, <1>b DEF Quiet, TokensFresh, CallsHaveKeys
  <1>2. ASSUME NEW c \in Clients, Acquire(c)
        PROVE  TokensFresh' /\ CallsHaveKeys'
    <2>1. Idle.token = 0 /\ Idle.pc = "idle"
      BY DEF Idle
    <2>. QED
      BY <1>2, <1>a, <1>b, <2>1, AcquireFields DEF TokensFresh, CallsHaveKeys
  <1>3. CASE UNCHANGED vars
    BY <1>3, <1>a DEF vars, TokensFresh, CallsHaveKeys
  <1>. QED
    BY <1>1, <1>2, <1>3, QuietSteps DEF Next, Step

(* The copy of the token's owner stays current: an acquisition takes a     *)
(* fresh token and a fresh copy, and only the owner's commit changes the   *)
(* aggregate, clearing the token with it.                                  *)
LEMMA CopyStep == IInv /\ [Next]_vars => LeaseGuardsCopy'
  <1> SUFFICES ASSUME IInv, [Next]_vars PROVE LeaseGuardsCopy'
    OBVIOUS
  <1>a. TypeOK /\ TokensFresh /\ LeaseGuardsCopy
    BY DEF IInv
  <1>b. client \in [Clients -> Call]
    BY <1>a DEF TypeOK
  <1>c. \A c \in Clients : client[c].token \in Nat /\ client[c].token # nextToken
    BY <1>a, CallFields DEF TypeOK, TokensFresh
  <1>d. \A c \in Clients : client[c].pc \in {"locked", "commit"}
                          => client[c].token # 0
    BY <1>a DEF TokensFresh
  <1>1. ASSUME NEW c \in Clients, Quiet(c) PROVE LeaseGuardsCopy'
    <2> SUFFICES ASSUME NEW d \in Clients, client'[d].pc \in {"locked", "commit"},
                        client'[d].token = doc'.lease.token
                 PROVE  /\ client'[d].version = doc'.version
                        /\ client'[d].next =
                             IF client'[d].pc = "locked" THEN doc'.applied
                             ELSE Effect(client'[d].key, doc'.applied)
      BY DEF LeaseGuardsCopy, Effect
    <2>1. CASE client'[d] = client[d]
      <3>1. /\ doc'.lease.token = doc.lease.token
            /\ doc'.version = doc.version /\ doc'.applied = doc.applied
        BY <1>1, <1>d, <2>1 DEF Quiet
      <3>. QED BY <1>a, <2>1, <3>1 DEF LeaseGuardsCopy
    <2>2. CASE d = c /\ RunCallback(c)
      <3>1. /\ client[c].pc = "locked" /\ client'[c].pc = "commit"
            /\ client'[c].key = client[c].key
            /\ client'[c].token = client[c].token
            /\ client'[c].version = client[c].version
            /\ client'[c].next = Effect(client[c].key, client[c].next)
            /\ doc' = doc
        BY <1>b, <2>2 DEF RunCallback, Call
      <3>2. client[c].version = doc.version /\ client[c].next = doc.applied
        BY <1>a, <2>2, <3>1 DEF LeaseGuardsCopy
      <3>. QED BY <2>2, <3>1, <3>2
    <2>. QED BY <1>1, <2>1, <2>2 DEF Quiet
  <1>2. ASSUME NEW c \in Clients, Acquire(c) PROVE LeaseGuardsCopy'
    <2>1. Idle.pc = "idle"
      BY DEF Idle
    <2>. QED BY <1>2, <1>a, <1>c, <2>1, AcquireFields DEF LeaseGuardsCopy
  <1>3. CASE UNCHANGED vars
    BY <1>3, <1>a DEF vars, LeaseGuardsCopy, Effect
  <1>. QED
    BY <1>1, <1>2, <1>3, QuietSteps DEF Next, Step

LEMMA Inductive == Spec => []IInv
  <1>1. IInv /\ [Next]_vars => IInv'
    BY TypeStep, TokenStep, CopyStep, EffectsOnceStep DEF IInv
  <1>. QED BY InitIInv, <1>1, PTL DEF Spec

(* The variables stay in their types.                                      *)
THEOREM TypeCorrect == Spec => []TypeOK
  BY Inductive, PTL DEF IInv

(* Whoever's token is in the billing document holds a current copy of it,  *)
(* so an expired, displaced or crashed holder can never commit stale state.*)
THEOREM CopyCurrent == Spec => []LeaseGuardsCopy
  BY Inductive, PTL DEF IInv

(* The invariant that the model checker checks on two isolates holds for   *)
(* any number of them, of keys and of clocks.                              *)
THEOREM StoreInvariant == Spec => []Inv
  BY TypeCorrect, CopyCurrent, PTL DEF Inv

(* `MongoBillingStore` implements the atomic store: effects happen at most *)
(* once, are never lost, and are acknowledged only when durable.           *)
THEOREM ImplementsAtomicStore == Spec => AtomicTransactions
  <1>1. Init => Abstract!Init
    BY DEF Init, Abstract!Init, Absent
  <1>2. Spec => [][IInv /\ [Next]_vars]_vars
    BY Inductive, PTL DEF Spec
  <1>3. IInv /\ [Next]_vars => [Abstract!Next]_(Abstract!vars)
    BY StepRefines DEF Abstract!vars
  <1>. QED
    BY <1>1, <1>3, Inductive, PTL DEF Spec, AtomicTransactions, Abstract!Spec

(* The property, as a condition on one step.                               *)
OwnerOrExpiry ==
    doc.lease # NoLease /\ doc'.lease # doc.lease
    => \E c \in Clients :
          \/ /\ client[c].pc \in {"commit", "release"}
             /\ client[c].token = doc.lease.token
          \/ doc.lease.expiresAt <= clock[c] /\ client[c].pc = "acquire"

(* Only an acquisition, a commit and a release touch the lease; the first  *)
(* finds it expired, the others carry its token.                           *)
LEMMA LeaseStep == TypeOK /\ [Next]_vars => OwnerOrExpiry
  <1> SUFFICES ASSUME TypeOK, [Next]_vars PROVE OwnerOrExpiry
    OBVIOUS
  <1> USE DEF OwnerOrExpiry
  <1>1. ASSUME NEW c \in Clients, Acquire(c) PROVE OwnerOrExpiry
    BY <1>1 DEF Acquire, LeaseFree
  <1>2. ASSUME NEW c \in Clients, Commit(c) PROVE OwnerOrExpiry
    BY <1>2 DEF Commit, CommitMatches
  <1>3. ASSUME NEW c \in Clients, Release(c) PROVE OwnerOrExpiry
    BY <1>3 DEF Release
  <1>4. ASSUME NEW c \in Clients, EnsureStateDocument(c) PROVE OwnerOrExpiry
    <2>1. doc'.lease = doc.lease
      BY <1>4 DEF EnsureStateDocument, TypeOK, Document
    <2>. QED BY <2>1
  <1>5. CASE doc' = doc
    BY <1>5
  <1>. QED
    BY <1>1, <1>2, <1>3, <1>4, <1>5
    DEF Next, Step, Begin, AcquireTimeout, RunCallback, CallbackThrows,
        CommitFails, Crash, Tick, vars

(* No isolate's lease is taken from it, or cleared, before it has expired  *)
(* on the clock of the isolate that takes it, whatever the clocks and the  *)
(* lost replies.                                                           *)
THEOREM LeaseIsRespected == Spec => LeaseRemovedByOwnerOrExpiry
  BY TypeCorrect, LeaseStep, PTL
  DEF Spec, LeaseRemovedByOwnerOrExpiry, OwnerOrExpiry
=============================================================================
