----------------------------- MODULE RecordsProofs -----------------------------
(***************************************************************************)
(* Proofs about two of the records that MCRecords checks.                  *)
(*                                                                         *)
(* RevisionedRepository: the compare-and-swap protocol implements          *)
(* AtomicAggregate for any number of callers, attempts and kept mutation   *)
(* ids.  The inductive invariant adds to the types that the revision       *)
(* counts the mutations, that a copy is the aggregate as it was at its     *)
(* base and one mutation more, and that an id in flight is in the log at   *)
(* most where its own write put it.                                        *)
(*                                                                         *)
(* AccessTokens: for any sessions, calls and secrets and any two lives of  *)
(* tokens, a revocation reaches every token within the life of today's,    *)
(* and no change of secrets turns a token away.  The properties speak of   *)
(* what is accepted; the inductive invariant says why: a token of a        *)
(* revoked session was begun before the revocation, and whatever is not    *)
(* over, or is still to be signed, has one of the two secrets of the       *)
(* configuration.                                                          *)
(***************************************************************************)
EXTENDS RevisionedRepository, TLAPS

CONSTANTS Ids, Calls, Secrets, TtlNow, TtlBefore, MaxTime, MaxTokens, None

VARIABLES now, config, shortened, sessions, refreshes, tokens

Tokens == INSTANCE AccessTokens
-----------------------------------------------------------------------------
InFlight(c) == caller[c].pc \in {"write", "verify"}

RevisionCounts ==
    /\ doc.revision = Len(doc.log)
    /\ doc.mutationIds = Recent(doc.log)

IdsFresh ==
    /\ \A i \in DOMAIN doc.log : doc.log[i] < nextId
    /\ \A c \in Callers : InFlight(c) => caller[c].id < nextId
    /\ \A c, d \in Callers :
          InFlight(c) /\ InFlight(d) /\ caller[c].id = caller[d].id => c = d

DraftAdvances ==
    \A c \in Callers : InFlight(c) => Len(caller[c].draft.log) = caller[c].base + 1

Placed ==
    \A c \in Callers : InFlight(c) =>
        \A i \in DOMAIN doc.log :
            doc.log[i] = caller[c].id
            => caller[c].pc = "verify" /\ i = caller[c].base + 1

BaseIsPast ==
    \A c \in Callers : caller[c].pc = "write" => caller[c].base <= doc.revision

AttemptLeft ==
    \A c \in Callers : InFlight(c) => caller[c].attempt < MaxAttempts

IInv ==
    /\ TypeOK /\ RevisionCounts /\ IdsFresh /\ DraftAdvances /\ Placed
    /\ BaseIsPast /\ AttemptLeft /\ DraftIsCurrent

-----------------------------------------------------------------------------

(* The ids the document keeps are numbers, of mutations in its log.        *)
LEMMA RecentType ==
    ASSUME NEW log \in Seq(Nat)
    PROVE  /\ Recent(log) \in SUBSET Nat
           /\ \A id \in Recent(log) : \E i \in DOMAIN log : log[i] = id
  BY DEF Recent

(* The mutated copy of a document is a document, one mutation and one      *)
(* revision further.                                                       *)
LEMMA MutatedType ==
    ASSUME NEW d \in Document, NEW id \in Nat
    PROVE  /\ Mutated(d, id) \in Document
           /\ Mutated(d, id).revision = d.revision + 1
           /\ Mutated(d, id).log = Append(d.log, id)
           /\ Mutated(d, id).mutationIds = Recent(Append(d.log, id))
  <1>1. Append(d.log, id) \in Seq(Nat)
    BY DEF Document
  <1>2. Recent(Append(d.log, id)) \in SUBSET Nat
    BY <1>1, RecentType
  <1>. QED BY <1>1, <1>2 DEF Mutated, Document

(* Before the first call nothing is stored and nobody holds a copy.        *)
LEMMA InitIInv == Init => IInv
  <1>. SUFFICES ASSUME Init PROVE IInv
    OBVIOUS
  <1>1. Empty \in Document /\ Idle \in Call
    BY RepositoryAssumption DEF Empty, Idle, Document, Call
  <1>2. TypeOK
    BY <1>1 DEF Init, TypeOK
  <1>3. RevisionCounts
    BY DEF Init, RevisionCounts, Empty, Recent
  <1>4. \A c \in Callers : caller[c].pc = "idle"
    BY DEF Init, Idle
  <1>5. IdsFresh
    BY <1>4 DEF Init, IdsFresh, InFlight, Empty
  <1>. QED
    BY <1>2, <1>3, <1>4, <1>5
    DEF IInv, DraftAdvances, Placed, BaseIsPast, AttemptLeft, DraftIsCurrent,
        InFlight

(* A step that leaves the document and the id supply alone, and takes one  *)
(* caller out of flight or from write to verify, keeps the invariant.      *)
LEMMA QuietStep ==
    ASSUME IInv, UNCHANGED <<doc, nextId>>, NEW c \in Callers, NEW k \in Call,
           caller' = [caller EXCEPT ![c] = k],
           \/ k.pc \in {"idle", "read"}
           \/ k = [caller[c] EXCEPT !.pc = "verify"] /\ caller[c].pc = "write",
           returned' \subseteq [mutation : Nat, on : Nat]
    PROVE  IInv'
  <1>. USE DEF IInv
  <1>1. \A d \in Callers : caller'[d] = IF d = c THEN k ELSE caller[d]
    BY DEF TypeOK
  <1>2. TypeOK'
    BY DEF TypeOK
  <1>3. \A d \in Callers : InFlight(d)' =>
          /\ InFlight(d)
          /\ caller'[d].id = caller[d].id /\ caller'[d].base = caller[d].base
          /\ caller'[d].draft = caller[d].draft
          /\ caller'[d].attempt = caller[d].attempt
          /\ caller'[d].pc = "write" => caller[d].pc = "write"
          /\ caller[d].pc = "verify" => caller'[d].pc = "verify"
    BY <1>1 DEF InFlight, TypeOK, Call
  <1>4. RevisionCounts'
    BY DEF RevisionCounts
  <1>5. IdsFresh'
    BY <1>3 DEF IdsFresh
  <1>6. DraftAdvances' /\ AttemptLeft' /\ Placed'
    BY <1>3 DEF DraftAdvances, AttemptLeft, Placed
  <1>7. BaseIsPast' /\ DraftIsCurrent'
    <2>1. \A d \in Callers : caller'[d].pc = "write" =>
            caller'[d] = caller[d]
      BY <1>1 DEF TypeOK, Call
    <2>. QED BY <2>1 DEF BaseIsPast, DraftIsCurrent, Matches
  <1>. QED BY <1>2, <1>4, <1>5, <1>6, <1>7

(* The invariant survives every read: the copy is made from what is there. *)
LEMMA ReadKeepsIInv ==
    ASSUME IInv, NEW c \in Callers, ReadAndMutate(c)
    PROVE  IInv'
  <1>. USE DEF IInv
  <1>. DEFINE k == [caller[c] EXCEPT !.pc = "write", !.id = nextId,
                      !.base = doc.revision, !.draft = Mutated(doc, nextId)]
  <1>1. caller' = [caller EXCEPT ![c] = k]
    BY DEF ReadAndMutate, TypeOK, Call
  <1>2. Mutated(doc, nextId) \in Document
        /\ Len(Mutated(doc, nextId).log) = Len(doc.log) + 1
    <2>1. doc \in Document /\ nextId \in Nat /\ doc.log \in Seq(Nat)
      BY DEF TypeOK, Document
    <2>2. Mutated(doc, nextId) \in Document
          /\ Mutated(doc, nextId).log = Append(doc.log, nextId)
      BY <2>1, MutatedType
    <2>. QED BY <2>1, <2>2
  <1>3. /\ caller[c] \in Call /\ k \in Call
        /\ k.pc = "write" /\ k.id = nextId /\ k.base = doc.revision
        /\ k.draft = Mutated(doc, nextId) /\ k.attempt = caller[c].attempt
    BY <1>2 DEF TypeOK, Call, Document
  <1>4. \A d \in Callers : caller'[d] = IF d = c THEN k ELSE caller[d]
    BY <1>1 DEF TypeOK
  <1>5. doc' = doc /\ nextId' = nextId + 1 /\ returned' = returned
        /\ caller[c].attempt < MaxAttempts
    BY DEF ReadAndMutate
  <1>. HIDE DEF k
  <1>6. TypeOK'
    BY <1>1, <1>3, <1>5 DEF TypeOK
  <1>7. RevisionCounts'
    BY <1>5 DEF RevisionCounts
  <1>8. IdsFresh'
    <2>1. \A d \in Callers \ {c} : InFlight(d)' =>
            InFlight(d) /\ caller'[d].id < nextId
      BY <1>4 DEF InFlight, IdsFresh
    <2>2. caller'[c].id = nextId
      BY <1>3, <1>4
    <2>3. \A i \in DOMAIN doc'.log : doc'.log[i] < nextId'
      BY <1>5 DEF IdsFresh, TypeOK, Document
    <2>4. \A d \in Callers : InFlight(d)' => caller'[d].id < nextId'
      BY <1>5, <2>1, <2>2, <1>3, <1>4 DEF TypeOK, Call
    <2>5. \A d, e \in Callers :
            InFlight(d)' /\ InFlight(e)' /\ caller'[d].id = caller'[e].id
            => d = e
      <3>. TAKE d, e \in Callers
      <3>. HAVE InFlight(d)' /\ InFlight(e)' /\ caller'[d].id = caller'[e].id
      <3>1. CASE d # c /\ e # c
        BY <3>1, <1>4 DEF IdsFresh, InFlight
      <3>2. CASE d = c \/ e = c
        BY <3>2, <2>1, <2>2 DEF TypeOK
      <3>. QED BY <3>1, <3>2
    <2>. QED BY <2>3, <2>4, <2>5 DEF IdsFresh, InFlight
  <1>9. DraftAdvances'
    BY <1>2, <1>3, <1>4 DEF DraftAdvances, InFlight, RevisionCounts
  <1>10. Placed'
    <2>1. \A i \in DOMAIN doc'.log : doc'.log[i] # nextId
      BY <1>5 DEF IdsFresh, TypeOK, Document
    <2>. QED BY <2>1, <1>3, <1>4, <1>5 DEF Placed, InFlight
  <1>11. BaseIsPast'
    BY <1>3, <1>4, <1>5 DEF BaseIsPast, TypeOK, Document
  <1>12. AttemptLeft'
    BY <1>3, <1>4, <1>5 DEF AttemptLeft, InFlight
  <1>13. DraftIsCurrent'
    BY <1>3, <1>4, <1>5 DEF DraftIsCurrent, Matches, Mutated
  <1>. QED
    BY <1>6, <1>7, <1>8, <1>9, <1>10, <1>11, <1>12, <1>13

(* A write that finds its revision appends its mutation to the log.        *)
LEMMA WriteCommits ==
    ASSUME IInv, NEW c \in Callers, Write(c), Matches(c)
    PROVE  /\ doc' = Mutated(doc, caller[c].id)
           /\ doc' \in Document
           /\ doc'.log = Append(doc.log, caller[c].id)
           /\ doc'.revision = doc.revision + 1
           /\ doc'.mutationIds = Recent(doc'.log)
           /\ \A i \in DOMAIN doc.log : doc.log[i] # caller[c].id
  <1>1. doc' = Mutated(doc, caller[c].id)
    BY DEF Write, IInv, DraftIsCurrent
  <1>2. doc \in Document /\ caller[c].id \in Nat /\ caller[c].pc = "write"
    BY DEF IInv, TypeOK, Call, Write
  <1>3. \A i \in DOMAIN doc.log : doc.log[i] # caller[c].id
    BY <1>2 DEF IInv, Placed, InFlight
  <1>. QED BY <1>1, <1>2, <1>3, MutatedType

(* The next attempt of a call in flight is one the bound allows.           *)
LEMMA NextAttemptType ==
    ASSUME IInv, NEW c \in Callers, InFlight(c), NextAttempt(c)
    PROVE  \E k \in Call : k.pc = "read" /\ caller' = [caller EXCEPT ![c] = k]
  <1>. DEFINE k == [caller[c] EXCEPT !.pc = "read", !.attempt = @ + 1]
  <1>1. caller[c] \in Call /\ caller[c].attempt < MaxAttempts
    BY DEF IInv, TypeOK, AttemptLeft
  <1>2. k \in Call /\ k.pc = "read"
    <2>1. caller[c].attempt + 1 \in 0 .. MaxAttempts
      BY <1>1, RepositoryAssumption DEF Call
    <2>. QED BY <1>1, <2>1 DEF Call
  <1>3. caller' = [caller EXCEPT ![c] = k]
    BY DEF NextAttempt, IInv, TypeOK
  <1>. QED BY <1>2, <1>3

(* The invariant survives every write.                                     *)
LEMMA WriteKeepsIInv ==
    ASSUME IInv, NEW c \in Callers, Write(c)
    PROVE  IInv'
  <1>. DEFINE v == [caller[c] EXCEPT !.pc = "verify"]
  <1>1. /\ caller[c] \in Call /\ caller[c].pc = "write" /\ InFlight(c)
        /\ nextId' = nextId /\ returned' = returned
    BY DEF IInv, TypeOK, Write, InFlight
  <1>2. v \in Call
    BY <1>1 DEF Call
  <1>3. PICK k \in Call :
          /\ k.pc = "read" \/ k = v
          /\ caller' = [caller EXCEPT ![c] = k]
    <2>1. CASE caller' = [caller EXCEPT ![c].pc = "verify"]
      BY <2>1, <1>2 DEF IInv, TypeOK
    <2>2. CASE NextAttempt(c)
      BY <2>2, <1>1, NextAttemptType
    <2>. QED BY <2>1, <2>2 DEF Write
  <1>4. CASE ~Matches(c)
    <2>1. doc' = doc
      BY <1>4 DEF Write
    <2>. QED BY <2>1, <1>1, <1>3, QuietStep DEF IInv, TypeOK
  <1>5. CASE Matches(c)
    <2>1. /\ doc' \in Document
          /\ doc'.log = Append(doc.log, caller[c].id)
          /\ doc'.revision = doc.revision + 1
          /\ doc'.mutationIds = Recent(doc'.log)
      BY <1>5, WriteCommits
    <2>2. /\ doc.revision = Len(doc.log) /\ doc.revision = caller[c].base
          /\ doc \in Document /\ doc.log \in Seq(Nat) /\ caller[c].id \in Nat
          /\ doc.revision \in Nat
      BY <1>1, <1>5 DEF IInv, RevisionCounts, Matches, TypeOK, Document, Call
    <2>3. \A d \in Callers : caller'[d] = IF d = c THEN k ELSE caller[d]
      BY <1>3 DEF IInv, TypeOK
    <2>4. InFlight(c)' =>
            /\ caller'[c].pc = "verify" /\ caller'[c].id = caller[c].id
            /\ caller'[c].base = caller[c].base
            /\ caller'[c].draft = caller[c].draft
            /\ caller'[c].attempt = caller[c].attempt
      BY <1>1, <1>3, <2>3 DEF InFlight, Call
    <2>5. \A d \in Callers : InFlight(d)' =>
            InFlight(d) /\ caller'[d].id = caller[d].id
      BY <1>1, <2>3, <2>4 DEF InFlight
    <2>6. /\ DOMAIN doc'.log = DOMAIN doc.log \cup {caller[c].base + 1}
          /\ Len(doc'.log) = doc.revision + 1
          /\ doc'.log[caller[c].base + 1] = caller[c].id
          /\ \A i \in DOMAIN doc.log : doc'.log[i] = doc.log[i]
      <3>. DEFINE log == doc.log
                  id == caller[c].id
      <3>1. log \in Seq(Nat) /\ id \in Nat /\ Len(log) = caller[c].base
            /\ doc'.log = Append(log, id) /\ doc.revision = Len(log)
        BY <2>1, <2>2
      <3>. HIDE DEF log, id
      <3>2. /\ DOMAIN Append(log, id) = DOMAIN log \cup {Len(log) + 1}
            /\ Len(Append(log, id)) = Len(log) + 1
            /\ Append(log, id)[Len(log) + 1] = id
            /\ \A i \in DOMAIN log : Append(log, id)[i] = log[i]
        BY <3>1
      <3>3. log = doc.log /\ id = caller[c].id
        BY DEF log, id
      <3>. QED BY <3>1, <3>2, <3>3
    <2>7. TypeOK'
      BY <2>1, <1>1, <1>3 DEF IInv, TypeOK
    <2>8. RevisionCounts'
      BY <2>1, <2>2, <2>6 DEF RevisionCounts
    <2>9. IdsFresh'
      BY <2>5, <2>6, <1>1 DEF IInv, IdsFresh
    <2>10. DraftAdvances' /\ AttemptLeft'
      BY <2>3, <2>4, <2>5 DEF IInv, DraftAdvances, AttemptLeft
    <2>11. Placed'
      <3>. SUFFICES ASSUME NEW d \in Callers, InFlight(d)',
                           NEW i \in DOMAIN doc'.log,
                           doc'.log[i] = caller'[d].id
                    PROVE  /\ caller'[d].pc = "verify"
                           /\ i = caller'[d].base + 1
        BY DEF Placed
      <3>1. CASE d = c
        <4>1. \A j \in DOMAIN doc.log : doc.log[j] # caller[c].id
          BY <1>5, WriteCommits
        <4>. QED BY <3>1, <4>1, <2>4, <2>6
      <3>2. CASE d # c
        <4>1. caller[d].id # caller[c].id
          BY <3>2, <2>5, <1>1 DEF IInv, IdsFresh
        <4>2. i \in DOMAIN doc.log /\ doc.log[i] = caller[d].id
          BY <4>1, <2>5, <2>6
        <4>. QED BY <3>2, <4>2, <2>3, <2>5 DEF IInv, Placed
      <3>. QED BY <3>1, <3>2
    <2>12. \A d \in Callers : caller'[d].pc = "write" =>
             caller'[d] = caller[d] /\ caller[d].base <= doc.revision
                                    /\ caller[d].base \in Nat
      BY <1>3, <2>3 DEF IInv, BaseIsPast, TypeOK, Call
    <2>13. ASSUME NEW d \in Callers, caller'[d].pc = "write"
           PROVE  /\ caller'[d].base <= doc'.revision
                  /\ doc'.revision # caller'[d].base
      <3>1. caller'[d] = caller[d] /\ caller[d].base <= doc.revision
            /\ caller[d].base \in Nat
        BY <2>12, <2>13
      <3>2. doc'.revision = doc.revision + 1 /\ doc.revision \in Nat
        BY <2>1, <2>2, <2>6
      <3>. QED BY <3>1, <3>2
    <2>14. BaseIsPast' /\ DraftIsCurrent'
      BY <2>13 DEF BaseIsPast, DraftIsCurrent, Matches
    <2>. QED
      BY <2>7, <2>8, <2>9, <2>10, <2>11, <2>14 DEF IInv
  <1>. QED BY <1>4, <1>5

(* A verified call returns what its mutation found where it stands in the  *)
(* log.                                                                    *)
LEMMA VerifyReturns ==
    ASSUME IInv, NEW c \in Callers, caller[c].pc = "verify", Verified(c)
    PROVE  \E i \in DOMAIN doc.log :
             /\ doc.log[i] = caller[c].id
             /\ Len(caller[c].draft.log) - 1 = i - 1
  <1>1. doc.log \in Seq(Nat) /\ InFlight(c)
    BY DEF IInv, TypeOK, Document, InFlight
  <1>2. PICK i \in DOMAIN doc.log : doc.log[i] = caller[c].id
    BY <1>1, RecentType DEF IInv, RevisionCounts, Verified
  <1>3. i = caller[c].base + 1 /\ Len(caller[c].draft.log) = caller[c].base + 1
    BY <1>1, <1>2 DEF IInv, Placed, DraftAdvances
  <1>. QED BY <1>2, <1>3

(* The invariant survives every verification.                              *)
LEMMA VerifyKeepsIInv ==
    ASSUME IInv, NEW c \in Callers, Verify(c)
    PROVE  IInv'
  <1>1. caller[c] \in Call /\ caller[c].pc = "verify" /\ InFlight(c)
        /\ UNCHANGED <<doc, nextId>>
    BY DEF IInv, TypeOK, Verify, InFlight
  <1>2. Idle \in Call /\ Idle.pc = "idle"
    BY RepositoryAssumption DEF Idle, Empty, Call, Document
  <1>3. CASE Verified(c) /\ caller' = [caller EXCEPT ![c] = Idle]
             /\ returned' = returned \cup
                  {[mutation |-> caller[c].id,
                    on |-> Len(caller[c].draft.log) - 1]}
    <2>1. PICK i \in DOMAIN doc.log : Len(caller[c].draft.log) - 1 = i - 1
      BY <1>1, <1>3, VerifyReturns
    <2>2. i - 1 \in Nat /\ caller[c].id \in Nat
      BY <1>1 DEF IInv, TypeOK, Document, Call
    <2>3. returned' \subseteq [mutation : Nat, on : Nat]
      BY <1>3, <2>1, <2>2 DEF IInv, TypeOK
    <2>. QED BY <1>1, <1>2, <1>3, <2>3, QuietStep
  <1>4. CASE NextAttempt(c) /\ returned' = returned
    <2>1. PICK k \in Call : k.pc = "read" /\ caller' = [caller EXCEPT ![c] = k]
      BY <1>1, <1>4, NextAttemptType
    <2>. QED BY <1>1, <1>4, <2>1, QuietStep DEF IInv, TypeOK
  <1>. QED BY <1>3, <1>4 DEF Verify

(* Every step keeps the invariant.                                         *)
LEMMA Inductive == IInv /\ [Next]_vars => IInv'
  <1>. SUFFICES ASSUME IInv, [Next]_vars PROVE IInv'
    OBVIOUS
  <1>1. ASSUME NEW c \in Callers, Begin(c) PROVE IInv'
    <2>. DEFINE k == [caller[c] EXCEPT !.pc = "read"]
    <2>1. caller[c] \in Call /\ k \in Call /\ k.pc = "read"
      BY DEF IInv, TypeOK, Call
    <2>2. caller' = [caller EXCEPT ![c] = k]
      BY <1>1 DEF Begin, IInv, TypeOK
    <2>. QED BY <1>1, <2>1, <2>2, QuietStep DEF Begin, IInv, TypeOK
  <1>2. ASSUME NEW c \in Callers, GiveUp(c) \/ Throw(c) PROVE IInv'
    <2>1. Idle \in Call /\ Idle.pc = "idle"
      BY RepositoryAssumption DEF Idle, Empty, Call, Document
    <2>. QED BY <1>2, <2>1, QuietStep DEF GiveUp, Throw, IInv, TypeOK
  <1>3. ASSUME NEW c \in Callers, WriteFails(c) PROVE IInv'
    <2>1. InFlight(c) /\ NextAttempt(c) /\ UNCHANGED <<doc, nextId, returned>>
      BY <1>3 DEF WriteFails, InFlight
    <2>2. PICK k \in Call : k.pc = "read" /\ caller' = [caller EXCEPT ![c] = k]
      BY <2>1, NextAttemptType
    <2>. QED BY <2>1, <2>2, QuietStep DEF IInv, TypeOK
  <1>4. CASE UNCHANGED vars
    BY <1>4
    DEF vars, IInv, TypeOK, RevisionCounts, IdsFresh, DraftAdvances, Placed,
        BaseIsPast, AttemptLeft, DraftIsCurrent, InFlight, Matches
  <1>. QED
    BY <1>1, <1>2, <1>3, <1>4, ReadKeepsIInv, WriteKeepsIInv, VerifyKeepsIInv
    DEF Next, Step

(* The invariant holds throughout every run.                               *)
THEOREM Invariance == Spec => []IInv
  BY InitIInv, Inductive, PTL DEF Spec

(* Every variable keeps its type: in particular the number of attempts is  *)
(* never more than MaxAttempts.                                            *)
THEOREM TypeCorrect == Spec => []TypeOK
  <1>1. IInv => TypeOK
    BY DEF IInv
  <1>. QED BY Invariance, <1>1, PTL

(* A copy that can still replace the document was made from the document   *)
(* as it is: no update is lost under the revision filter.                  *)
THEOREM DraftCurrent == Spec => []DraftIsCurrent
  <1>1. IInv => DraftIsCurrent
    BY DEF IInv
  <1>. QED BY Invariance, <1>1, PTL

(* The invariant that the model checker checks holds for any callers and   *)
(* any bounds.                                                             *)
THEOREM RepositoryInvariant == Spec => []Inv
  BY TypeCorrect, DraftCurrent, PTL DEF Inv

(* A write is one commit of the abstract aggregate, or nothing.            *)
LEMMA WriteRefines ==
    ASSUME IInv, NEW c \in Callers, Write(c)
    PROVE  Abstract!Commit \/ UNCHANGED Abstract!vars
  <1>1. CASE Matches(c)
    <2>1. /\ doc'.log = Append(doc.log, caller[c].id)
          /\ \A i \in DOMAIN doc.log : doc.log[i] # caller[c].id
          /\ doc.log \in Seq(Nat) /\ caller[c].id \in Nat
      BY <1>1, WriteCommits DEF IInv, TypeOK, Document, Call
    <2>2. doc'.log # <<>> /\ doc'.log[Len(doc'.log)] = caller[c].id
      BY <2>1
    <2>. QED BY <2>1, <2>2 DEF Abstract!Commit, Write
  <1>2. CASE ~Matches(c)
    BY <1>2 DEF Write, Abstract!vars
  <1>. QED BY <1>1, <1>2

(* Every step is a step of AtomicAggregate or leaves it where it is.       *)
LEMMA StepRefines == IInv /\ [Next]_vars => [Abstract!Next]_(Abstract!vars)
  <1>. SUFFICES ASSUME IInv, [Next]_vars
                PROVE  Abstract!Next \/ UNCHANGED Abstract!vars
    OBVIOUS
  <1>1. ASSUME NEW c \in Callers, Verify(c)
        PROVE  Abstract!Next \/ UNCHANGED Abstract!vars
    <2>1. CASE Verified(c) /\ returned' = returned \cup
                 {[mutation |-> caller[c].id,
                   on |-> Len(caller[c].draft.log) - 1]}
      <3>1. PICK i \in DOMAIN doc.log :
              /\ doc.log[i] = caller[c].id
              /\ Len(caller[c].draft.log) - 1 = i - 1
        BY <1>1, <2>1, VerifyReturns DEF Verify
      <3>. QED BY <1>1, <2>1, <3>1 DEF Verify, Abstract!Next, Abstract!Return
    <2>2. CASE returned' = returned
      BY <1>1, <2>2 DEF Verify, Abstract!vars
    <2>. QED BY <1>1, <2>1, <2>2 DEF Verify
  <1>2. ASSUME NEW c \in Callers,
               Begin(c) \/ ReadAndMutate(c) \/ GiveUp(c) \/ WriteFails(c)
               \/ Throw(c)
        PROVE  UNCHANGED Abstract!vars
    BY <1>2
    DEF Begin, ReadAndMutate, GiveUp, WriteFails, Throw, Abstract!vars
  <1>3. CASE UNCHANGED vars
    BY <1>3 DEF vars, Abstract!vars
  <1>. QED
    BY <1>1, <1>2, <1>3, WriteRefines DEF Next, Step, Abstract!Next

(* The compare-and-swap protocol implements the atomic aggregate: lost     *)
(* replies, failed writes, repeated attempts and other callers included.   *)
THEOREM ImplementsAtomicAggregate == Spec => AtomicMutations
  <1>1. Init => Abstract!Init
    BY DEF Init, Empty, Abstract!Init
  <1>. QED
    BY <1>1, Invariance, StepRefines, PTL
    DEF Spec, AtomicMutations, Abstract!Spec
-----------------------------------------------------------------------------
SessionRecord == [state : {"active", "revoked"}, at : Nat]
TokenRecord == [id : Ids, iat : Nat, exp : Nat, secret : Secrets]

TokensTyped ==
    /\ now \in Nat
    /\ config \in [session : Secrets, primary : Secrets \cup {None}]
    /\ sessions \in [Ids -> {None} \cup SessionRecord]
    /\ refreshes \in [Calls -> {None} \cup TokenRecord]
    /\ tokens \in SUBSET TokenRecord

(* No token is from the future, and none of a session that was revoked is  *)
(* younger than the revocation.                                            *)
BegunBefore ==
    /\ \A t \in tokens :
        /\ t.iat <= now
        /\ sessions[t.id] \in SessionRecord
        /\ sessions[t.id] # Tokens!Active => t.iat <= sessions[t.id].at
    /\ \A c \in Calls : refreshes[c] # None => refreshes[c].iat <= now

(* The secrets of the configuration are those that are needed.             *)
SecretsKept ==
    /\ \A t \in tokens : now < t.exp => t.secret \in Tokens!Verifying
    /\ \A c \in Calls : refreshes[c] # None => refreshes[c].secret \in Tokens!Verifying

TokensIInv == TokensTyped /\ BegunBefore /\ SecretsKept
-----------------------------------------------------------------------------
(* What is signed now is a token, as old as the call, with the secret of   *)
(* the configuration.                                                      *)
LEMMA SignedNow ==
    ASSUME Tokens!TokensAssumption, TokensTyped, NEW s \in Ids
    PROVE  /\ Tokens!Token(s, now) \in TokenRecord
           /\ Tokens!Token(s, now).id = s /\ Tokens!Token(s, now).iat = now
           /\ Tokens!Token(s, now).secret \in Tokens!Verifying
  <1>1. Tokens!Primary \in Secrets /\ Tokens!Primary \in Tokens!Verifying
    BY DEF TokensTyped, Tokens!Primary, Tokens!Verifying
  <1>2. now + Tokens!Life \in Nat
    BY DEF Tokens!TokensAssumption, TokensTyped, Tokens!Life
  <1>. QED BY <1>1, <1>2 DEF Tokens!Token, TokenRecord, TokensTyped

(* Before the first sign-in there is nothing to keep.                      *)
LEMMA InitTokens == Tokens!Init => TokensIInv
  BY DEF Tokens!Init, TokensIInv, TokensTyped, BegunBefore, SecretsKept

(* A sign-in adds one token, of a session that is active.                  *)
LEMMA IssueStep ==
    ASSUME Tokens!TokensAssumption, TokensIInv, NEW s \in Ids, Tokens!Issue(s)
    PROVE  TokensIInv'
  <1>. DEFINE t0 == Tokens!Token(s, now)
  <1>1. /\ t0 \in TokenRecord /\ t0.id = s /\ t0.iat = now
        /\ t0.secret \in Tokens!Verifying
    BY SignedNow DEF TokensIInv
  <1>2. /\ tokens' = tokens \cup {t0}
        /\ sessions' = [sessions EXCEPT ![s] = Tokens!Active]
    BY DEF Tokens!Issue
  <1>3. Tokens!Active \in SessionRecord
    BY DEF Tokens!Active, SessionRecord
  <1>. HIDE DEF t0
  <1>4. TokensTyped'
    BY <1>1, <1>2, <1>3 DEF TokensIInv, TokensTyped, Tokens!Issue
  <1>5. BegunBefore'
    <2>1. ASSUME NEW t \in tokens'
          PROVE  /\ t.iat <= now /\ sessions'[t.id] \in SessionRecord
                 /\ sessions'[t.id] # Tokens!Active => t.iat <= sessions'[t.id].at
      <3>1. CASE t = t0
        BY <1>1, <1>2, <1>3, <3>1 DEF TokensIInv, TokensTyped
      <3>2. CASE t \in tokens
        BY <1>2, <1>3, <3>2 DEF TokensIInv, TokensTyped, BegunBefore, TokenRecord
      <3>. QED BY <1>2, <3>1, <3>2
    <2>. QED BY <2>1 DEF TokensIInv, BegunBefore, Tokens!Issue
  <1>6. SecretsKept'
    BY <1>1, <1>2 DEF TokensIInv, SecretsKept, Tokens!Issue, Tokens!Verifying,
       Tokens!Primary
  <1>. QED BY <1>4, <1>5, <1>6 DEF TokensIInv

(* A refresh signs nothing yet.                                            *)
LEMMA RefreshStep ==
    ASSUME Tokens!TokensAssumption, TokensIInv, NEW c \in Calls, NEW s \in Ids,
           Tokens!Refresh(c, s)
    PROVE  TokensIInv'
  <1>. DEFINE t0 == Tokens!Token(s, now)
  <1>1. t0 \in TokenRecord /\ t0.iat = now /\ t0.secret \in Tokens!Verifying
    BY SignedNow DEF TokensIInv
  <1>2. refreshes' = [refreshes EXCEPT ![c] = t0]
    BY DEF Tokens!Refresh
  <1>. HIDE DEF t0
  <1>3. \A d \in Calls : refreshes'[d] = IF d = c THEN t0 ELSE refreshes[d]
    BY <1>2 DEF TokensIInv, TokensTyped
  <1>4. TokensTyped'
    BY <1>1, <1>2 DEF TokensIInv, TokensTyped, Tokens!Refresh
  <1>5. BegunBefore'
    BY <1>1, <1>3 DEF TokensIInv, TokensTyped, BegunBefore, Tokens!Refresh
  <1>6. SecretsKept'
    BY <1>1, <1>3 DEF TokensIInv, SecretsKept, Tokens!Refresh, Tokens!Verifying,
       Tokens!Primary
  <1>. QED BY <1>4, <1>5, <1>6 DEF TokensIInv

(* What a refresh gives is of an active session, or is not given.          *)
LEMMA SignStep ==
    ASSUME TokensIInv, NEW c \in Calls, Tokens!Sign(c) PROVE TokensIInv'
  <1>1. refreshes[c] \in TokenRecord /\ refreshes[c].iat <= now
    BY DEF TokensIInv, TokensTyped, BegunBefore, Tokens!Sign
  <1>2. tokens' \in SUBSET (tokens \cup {refreshes[c]})
    BY DEF Tokens!Sign
  <1>3. refreshes[c] \in tokens' \ tokens => sessions[refreshes[c].id] = Tokens!Active
    BY DEF Tokens!Sign, Tokens!Rotates
  <1>4. TokensTyped'
    BY <1>1, <1>2 DEF TokensIInv, TokensTyped, Tokens!Sign
  <1>5. BegunBefore'
    BY <1>1, <1>2, <1>3 DEF TokensIInv, TokensTyped, BegunBefore, Tokens!Sign,
       Tokens!Active, SessionRecord
  <1>6. SecretsKept'
    BY <1>1, <1>2 DEF TokensIInv, TokensTyped, SecretsKept, Tokens!Sign,
       Tokens!Verifying, Tokens!Primary
  <1>. QED BY <1>4, <1>5, <1>6 DEF TokensIInv

(* Whatever is out was begun before the revocation.                        *)
LEMMA RevokeStep ==
    ASSUME TokensIInv, NEW s \in Ids, Tokens!Revoke(s) PROVE TokensIInv'
  <1>1. [state |-> "revoked", at |-> now] \in SessionRecord
    BY DEF TokensIInv, TokensTyped, SessionRecord
  <1>2. TokensTyped'
    BY <1>1 DEF TokensIInv, TokensTyped, Tokens!Revoke
  <1>3. BegunBefore'
    BY <1>1 DEF TokensIInv, TokensTyped, BegunBefore, Tokens!Revoke, TokenRecord
  <1>4. SecretsKept'
    BY DEF TokensIInv, SecretsKept, Tokens!Revoke, Tokens!Verifying,
       Tokens!Primary
  <1>. QED BY <1>2, <1>3, <1>4 DEF TokensIInv

(* Nothing that is needed loses its secret.                                *)
LEMMA SecretsStep ==
    ASSUME TokensIInv, Tokens!Replace \/ Tokens!Retire PROVE TokensIInv'
  <1>1. TokensTyped'
    BY DEF TokensIInv, TokensTyped, Tokens!Replace, Tokens!Retire
  <1>2. BegunBefore'
    BY DEF TokensIInv, BegunBefore, Tokens!Replace, Tokens!Retire
  <1>3. SecretsKept'
    <2>1. CASE Tokens!Replace
      BY <2>1 DEF TokensIInv, TokensTyped, SecretsKept, Tokens!Replace,
         Tokens!Verifying, Tokens!Primary
    <2>2. CASE Tokens!Retire
      BY <2>2 DEF TokensIInv, TokensTyped, SecretsKept, Tokens!Retire,
         Tokens!Verifying, Tokens!Primary, TokenRecord
    <2>. QED BY <2>1, <2>2
  <1>. QED BY <1>1, <1>2, <1>3 DEF TokensIInv

(* Time and deployments leave the tokens alone.                            *)
LEMMA TimeStep ==
    ASSUME TokensIInv, Tokens!Tick \/ Tokens!Shorten PROVE TokensIInv'
  <1>1. TokensTyped'
    BY DEF TokensIInv, TokensTyped, Tokens!Tick, Tokens!Shorten
  <1>2. BegunBefore'
    BY DEF TokensIInv, TokensTyped, BegunBefore, Tokens!Tick, Tokens!Shorten,
       TokenRecord
  <1>3. SecretsKept'
    BY DEF TokensIInv, TokensTyped, SecretsKept, Tokens!Tick, Tokens!Shorten,
       Tokens!Verifying, Tokens!Primary, TokenRecord
  <1>. QED BY <1>1, <1>2, <1>3 DEF TokensIInv

LEMMA NextTokens ==
    ASSUME Tokens!TokensAssumption, TokensIInv, [Tokens!Next]_(Tokens!vars)
    PROVE  TokensIInv'
  <1>1. CASE UNCHANGED Tokens!vars
    BY <1>1 DEF Tokens!vars, TokensIInv, TokensTyped, BegunBefore, SecretsKept,
       Tokens!Verifying, Tokens!Primary
  <1>2. CASE Tokens!Next
    BY <1>2, IssueStep, RefreshStep, SignStep, RevokeStep, SecretsStep, TimeStep
       DEF Tokens!Next
  <1>. QED BY <1>1, <1>2
-----------------------------------------------------------------------------
(* A revocation is heard by every token within the life of today's.        *)
LEMMA TokensAreRefused ==
    ASSUME Tokens!TokensAssumption, TokensIInv PROVE Tokens!RevokedIsRefused
  <1>. SUFFICES ASSUME NEW t \in tokens, sessions[t.id] # Tokens!Active,
                       now >= sessions[t.id].at + TtlNow
                PROVE  ~Tokens!Accepts(t)
    BY DEF Tokens!RevokedIsRefused
  <1>1. t \in TokenRecord /\ sessions[t.id] \in SessionRecord
    BY DEF TokensIInv, TokensTyped, BegunBefore
  <1>2. t.iat + TtlNow <= now
    BY <1>1 DEF TokensIInv, BegunBefore, Tokens!TokensAssumption, TokenRecord,
       SessionRecord, TokensTyped
  <1>3. CASE Tokens!RequiresLegacySessionCheck(t)
    BY <1>3 DEF Tokens!Accepts, Tokens!ActiveSession
  <1>4. CASE ~Tokens!RequiresLegacySessionCheck(t)
    BY <1>1, <1>2, <1>4 DEF Tokens!RequiresLegacySessionCheck, Tokens!Accepts,
       Tokens!Verified,
       TokenRecord, Tokens!TokensAssumption, TokensIInv, TokensTyped
  <1>. QED BY <1>3, <1>4

(* Whoever has a token that is not over, of a session that stands, is let  *)
(* in.                                                                     *)
LEMMA TokensAreKept ==
    ASSUME TokensIInv PROVE Tokens!KeptBySecrets
  BY DEF TokensIInv, SecretsKept, Tokens!KeptBySecrets, Tokens!Accepts,
     Tokens!Verified, Tokens!ActiveSession

(* The invariant holds of every behaviour.                                 *)
THEOREM TokensInvariant ==
    ASSUME Tokens!TokensAssumption PROVE Tokens!Spec => []TokensIInv
  <1>1. Tokens!Init => TokensIInv
    BY InitTokens
  <1>2. TokensIInv /\ [Tokens!Next]_(Tokens!vars) => TokensIInv'
    BY NextTokens
  <1>. QED BY <1>1, <1>2, PTL DEF Tokens!Spec

(* However sessions are issued, refreshed and revoked, secrets changed and *)
(* lives shortened: no token of a revoked session is accepted once the     *)
(* life of today's tokens has passed (verifyAccessToken).                  *)
THEOREM RevocationReachesTokens ==
    ASSUME Tokens!TokensAssumption PROVE Tokens!Spec => []Tokens!RevokedIsRefused
  <1>1. TokensIInv => Tokens!RevokedIsRefused
    BY TokensAreRefused
  <1>. QED BY <1>1, TokensInvariant, PTL

(* A token that is not over, of a session that stands, is accepted under   *)
(* whatever secrets are configured (configuredSessionSecrets).             *)
THEOREM SecretsTurnNobodyAway ==
    ASSUME Tokens!TokensAssumption PROVE Tokens!Spec => []Tokens!KeptBySecrets
  <1>1. TokensIInv => Tokens!KeptBySecrets
    BY TokensAreKept
  <1>. QED BY <1>1, TokensInvariant, PTL
=============================================================================
