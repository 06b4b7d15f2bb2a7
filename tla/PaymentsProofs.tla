----------------------------- MODULE PaymentsProofs -----------------------------
(***************************************************************************)
(* What changes balances: usage, subscriptions and top-up orders.          *)
(*                                                                         *)
(* For any producers, accounts, requests and events, in whatever order and *)
(* however often they arrive: no time of a source is billed twice, no      *)
(* authorization pays for two events, and no money that was reserved is    *)
(* stranded, freed twice or charged without an event.                      *)
(*                                                                         *)
(* Two invariants.  IInv adds to what the run checks of events what an     *)
(* authorization remembers of its event, and what the cursor of a stream   *)
(* remembers of all of its events: it is past their ends and not below     *)
(* their numbers.  Books adds to what it checks of money that only         *)
(* finitely much is kept for each account, so that there are totals.       *)
(*                                                                         *)
(* PlusIInv, of the subscriptions, adds when each was last paid for and    *)
(* that the current one of an owner came after the others.  OrdersIInv, of *)
(* the orders, adds that whatever works on an order, or asks for one,      *)
(* means one that exists.                                                  *)
(***************************************************************************)
EXTENDS MCPayments, FiniteSetTheorems, TLAPS

Typed ==
    /\ authorizations \in [AuthIds -> Authorization \cup {None}]
    /\ settlements \in
         [EventIds -> SettlementRecord \cup {None}]
    /\ streams \in [Accounts \X Sources -> [sequence : Nat, end : Nat]]

ReservedWasGranted ==
    \A i \in Granted : authorizations[i].reserved <= authorizations[i].granted

(* An event that was settled closed its authorization.                     *)
EventCloses ==
    \A e \in SettledEvents :
        LET i == UsageSettled(e).auth IN
        /\ i \in Granted /\ authorizations[i].settled
        /\ settlements[e].charged <= authorizations[i].granted

Stream(u) == streams[<<u.account, u.source>>]

(* The cursor of a stream is past what was settled in it.                  *)
CursorPast ==
    \A e \in SettledEvents :
        LET u == UsageSettled(e) IN
        /\ u.end <= Stream(u).end
        /\ u.sequence # NoSequence =>
              Stream(u).sequence # NoSequence
                  /\ u.sequence <= Stream(u).sequence

OneEventEach ==
    \A d, e \in SettledEvents : d # e
        => UsageSettled(d).auth # UsageSettled(e).auth

IInv ==
    /\ Typed /\ ReservedWasGranted /\ EventCloses /\ CursorPast
    /\ OneEventEach /\ IntervalsDisjoint
-----------------------------------------------------------------------------
(* What an event says has the types of the messages.                       *)
LEMMA UsageTypes ==
    ASSUME UsageAssumption, NEW x \in Usages
    PROVE  /\ UsageOf[x] \in Usage /\ UsageOf[x].start < UsageOf[x].end
           /\ UsageOf[x].start \in Nat /\ UsageOf[x].end \in Nat
           /\ UsageOf[x].sequence \in Nat /\ UsageOf[x].charge \in Nat
           /\ UsageOf[x].eventId \in EventIds /\ UsageOf[x].auth \in AuthIds
           /\ <<UsageOf[x].account, UsageOf[x].source>> \in Accounts \X Sources
  BY DEF UsageAssumption, Usage

(* Settled events are events, with a usage.                                *)
LEMMA SettledTypes ==
    ASSUME Typed, NEW e \in SettledEvents
    PROVE  /\ e \in EventIds /\ settlements[e].usage \in Usages
           /\ settlements[e].charged \in Nat
  BY DEF SettlementRecord, Typed, SettledEvents

(* At first nothing is settled.                                            *)
LEMMA InitIInv == Init => IInv
  <1>. SUFFICES ASSUME Init PROVE IInv
    OBVIOUS
  <1>1. SettledEvents = {}
    BY DEF Init, SettledEvents
  <1>2. Granted = {}
    BY DEF Init, Granted
  <1>3. Typed
    BY DEF Init, Typed, NoSequence
  <1>. QED BY <1>1, <1>2, <1>3 DEF IInv, ReservedWasGranted, EventCloses,
          CursorPast, OneEventEach, IntervalsDisjoint
-----------------------------------------------------------------------------
(* A new authorization is of no event that was settled.                    *)
LEMMA AuthorizeStep ==
    ASSUME UsageAssumption, IInv, NEW p \in Producers, NEW r \in Requests,
           Authorize(p, r)
    PROVE  IInv'
  <1>. DEFINE req == RequestOf[r]
  <1>1. req \in Request
    BY DEF UsageAssumption
  <1>2. PICK i \in AuthIds :
            /\ authorizations[i] = None
            /\ authorizations' = [authorizations EXCEPT ![i] =
                 [account |-> req.account, producer |-> p,
                     source |-> req.source,
                  granted |-> req.amount, reserved |-> req.amount,
                  interval |-> req.interval, expiresAt |-> req.expiresAt,
                  status |-> "authorized", settled |-> FALSE]]
    BY DEF Authorize
  <1>. DEFINE new == authorizations'[i]
  <1>3. new \in Authorization /\ new.reserved <= new.granted
    BY <1>1, <1>2 DEF Request, Authorization, IInv, Typed
  <1>4. \A j \in AuthIds : j # i => authorizations'[j] = authorizations[j]
    BY <1>2 DEF IInv, Typed
  <1>5. settlements' = settlements /\ streams' = streams
    BY DEF Authorize
  <1>6. SettledEvents' = SettledEvents
            /\ \A e : UsageSettled(e)' = UsageSettled(e)
    BY <1>5 DEF SettledEvents, UsageSettled
  <1>. HIDE DEF new
  <1>7. Typed'
    <2>1. authorizations' \in [AuthIds -> Authorization \cup {None}]
      BY <1>2, <1>3 DEF IInv, Typed, new
    <2>. QED BY <2>1, <1>5 DEF IInv, Typed
  <1>8. ReservedWasGranted'
    BY <1>3, <1>4 DEF IInv, ReservedWasGranted, Granted, new
  <1>9. EventCloses'
    BY <1>2, <1>4, <1>5, <1>6 DEF IInv, EventCloses, Granted
  <1>10. CursorPast' /\ OneEventEach' /\ IntervalsDisjoint'
    BY <1>5, <1>6 DEF IInv, CursorPast, OneEventEach, IntervalsDisjoint, Stream
  <1>. QED BY <1>7, <1>8, <1>9, <1>10 DEF IInv

(* What a release makes of an authorization.                               *)
LEMMA ReleasedHeld ==
    ASSUME NEW a \in Authorization
    PROVE  LET b == [a EXCEPT !.reserved = 0, !.status = "released"] IN
           /\ b \in Authorization /\ b.reserved = 0 /\ b.settled = a.settled
           /\ b.granted = a.granted /\ b.granted \in Nat
           /\ b.account = a.account
  BY DEF Authorization

(* What a settlement makes of an authorization.                            *)
LEMMA SettledHeld ==
    ASSUME NEW a \in Authorization
    PROVE  LET b == [a EXCEPT !.reserved = 0, !.settled = TRUE] IN
           /\ b \in Authorization /\ b.reserved = 0 /\ b.settled
           /\ b.granted = a.granted /\ b.granted \in Nat
           /\ b.account = a.account
  BY DEF Authorization

(* A release spares what is settled.                                       *)
LEMMA ReleaseStep ==
    ASSUME IInv, NEW p \in Producers, NEW i \in AuthIds, NEW k \in Keys,
           Release(p, i, k)
    PROVE  IInv'
  <1>1. authorizations[i] \in Authorization
    BY DEF Release, IInv, Typed
  <1>2. settlements' = settlements /\ streams' = streams
    BY DEF Release
  <1>3. SettledEvents' = SettledEvents
            /\ \A e : UsageSettled(e)' = UsageSettled(e)
    BY <1>2 DEF SettledEvents, UsageSettled
  <1>4. CASE ~Open(authorizations[i])
    <2>1. authorizations' = authorizations
      BY <1>4 DEF Release
    <2>. QED BY <2>1, <1>2, <1>3
                DEF IInv, Typed, ReservedWasGranted, EventCloses,
            CursorPast, OneEventEach, IntervalsDisjoint, Stream, Granted
  <1>5. CASE Open(authorizations[i])
    <2>1. authorizations' = [authorizations EXCEPT
              ![i].reserved = 0, ![i].status = "released"]
      BY <1>5 DEF Release
    <2>2. authorizations'[i] = [authorizations[i] EXCEPT
              !.reserved = 0, !.status = "released"]
      BY <2>1 DEF IInv, Typed
    <2>3. \A j \in AuthIds : j # i => authorizations'[j] = authorizations[j]
      BY <2>1 DEF IInv, Typed
    <2>4. /\ authorizations'[i] \in Authorization
          /\ authorizations'[i].reserved = 0
          /\ authorizations'[i].settled = authorizations[i].settled
          /\ authorizations'[i].granted = authorizations[i].granted
          /\ authorizations'[i].granted \in Nat
      BY <1>1, <2>2, ReleasedHeld
    <2>5. ~authorizations[i].settled
      BY <1>5 DEF Open
    <2>6. Typed'
      <3>1. authorizations' \in [AuthIds -> Authorization \cup {None}]
        BY <2>1, <2>3, <2>4 DEF IInv, Typed
      <3>. QED BY <3>1, <1>2 DEF IInv, Typed
    <2>7. ReservedWasGranted'
      BY <2>3, <2>4 DEF IInv, ReservedWasGranted, Granted
    <2>8. EventCloses'
      BY <2>3, <2>5, <1>2, <1>3 DEF IInv, EventCloses, Granted
    <2>9. CursorPast' /\ OneEventEach' /\ IntervalsDisjoint'
      BY <1>2, <1>3
         DEF IInv, CursorPast, OneEventEach, IntervalsDisjoint, Stream
    <2>. QED BY <2>6, <2>7, <2>8, <2>9 DEF IInv
  <1>. QED BY <1>4, <1>5

(* An event that was known, or was refused, settles nothing.               *)
LEMMA RefusedStep ==
    ASSUME UsageAssumption, IInv, NEW p \in Producers, NEW x \in Usages,
           SettleReplay(p, x) \/ SettleRejected(p, x)
    PROVE  IInv'
  <1>1. authorizations' = authorizations /\ streams' = streams
    BY DEF SettleReplay, SettleRejected
  <1>. DEFINE e0 == UsageOf[x].eventId
  <1>2. e0 \in EventIds
    BY UsageTypes
  <1>3. \/ settlements' = settlements
        \/ /\ settlements[e0] = None
           /\ settlements' = [settlements EXCEPT ![e0] =
                               [usage |-> x, status |-> "rejected",
                                   charged |-> 0]]
    BY DEF SettleReplay, SettleRejected, Settlement
  <1>4. Typed'
    BY <1>1, <1>2, <1>3 DEF SettlementRecord, IInv, Typed
  <1>5. /\ SettledEvents' = SettledEvents
        /\ \A e \in SettledEvents : settlements'[e] = settlements[e]
    BY <1>2, <1>3 DEF IInv, Typed, SettledEvents
  <1>6. \A e \in SettledEvents : UsageSettled(e)' = UsageSettled(e)
    BY <1>5 DEF UsageSettled
  <1>7. Granted' = Granted
    BY <1>1 DEF Granted
  <1>. QED BY <1>1, <1>4, <1>5, <1>6, <1>7 DEF IInv, ReservedWasGranted,
          EventCloses, CursorPast, OneEventEach, IntervalsDisjoint, Stream

(* The event that is settled has an authorization of its own, begins where *)
(* the cursor is, and moves it.                                            *)
LEMMA SettleStep ==
    ASSUME UsageAssumption, IInv, NEW p \in Producers, NEW x \in Usages,
           Settle(p, x)
    PROVE  IInv'
  <1>. DEFINE w == UsageOf[x]
              e0 == w.eventId
              i0 == w.auth
              old == authorizations[i0]
              here == <<w.account, w.source>>
              cursor == streams[here]
              moved == [sequence |-> IF w.sequence # NoSequence THEN w.sequence
                                     ELSE cursor.sequence,
                        end |-> w.end]
              After(e) == UsageOf[settlements'[e].usage]
              NextStream(u) == streams'[<<u.account, u.source>>]
              done == [usage |-> x, status |-> "settled", charged |-> w.charge]
  <1>1. /\ w.start \in Nat /\ w.end \in Nat /\ w.start < w.end
        /\ w.sequence \in Nat /\ w.charge \in Nat
        /\ e0 \in EventIds /\ i0 \in AuthIds /\ here \in Accounts \X Sources
    BY UsageTypes
  <1>2. /\ settlements[e0] = None /\ i0 \in Granted
        /\ ~old.settled /\ w.charge <= old.reserved
        /\ w.start >= cursor.end
        /\ IF w.sequence # NoSequence
           THEN cursor.sequence = NoSequence \/ w.sequence > cursor.sequence
           ELSE cursor.sequence = NoSequence
    BY <1>1 DEF Settle, Accepted, Open, InOrder, Granted
  <1>3. /\ authorizations' = [authorizations EXCEPT
              ![i0].reserved = 0, ![i0].settled = TRUE]
        /\ streams' = [streams EXCEPT ![here] = moved]
        /\ settlements' = [settlements EXCEPT ![e0] = done]
    BY DEF Settle, Settlement
  <1>4. cursor \in [sequence : Nat, end : Nat]
            /\ moved \in [sequence : Nat, end : Nat]
    BY <1>1 DEF IInv, Typed
  <1>5. old \in Authorization /\ old.reserved <= old.granted
    BY <1>1, <1>2 DEF IInv, Typed, ReservedWasGranted, Granted
  <1>6. /\ authorizations'[i0] \in Authorization
        /\ authorizations'[i0].reserved = 0
        /\ authorizations'[i0].settled
        /\ authorizations'[i0].granted = old.granted /\ old.granted \in Nat
        /\ \A j \in AuthIds : j # i0 => authorizations'[j] = authorizations[j]
    <2>1. authorizations'[i0] = [old EXCEPT !.reserved = 0, !.settled = TRUE]
      BY <1>1, <1>3 DEF IInv, Typed
    <2>2. \A j \in AuthIds : j # i0 => authorizations'[j] = authorizations[j]
      BY <1>1, <1>3 DEF IInv, Typed
    <2>. QED BY <1>5, <2>1, <2>2, SettledHeld
  <1>7. /\ streams'[here] = moved
        /\ \A s \in Accounts \X Sources : s # here => streams'[s] = streams[s]
    BY <1>1, <1>3 DEF IInv, Typed
  <1>8. /\ settlements'[e0] = done
        /\ \A e \in EventIds : e # e0 => settlements'[e] = settlements[e]
    BY <1>1, <1>3 DEF IInv, Typed
  <1>9. e0 \notin SettledEvents
            /\ SettledEvents' \subseteq SettledEvents \cup {e0}
    BY <1>2, <1>8 DEF SettledEvents
  <1>10. After(e0) = w /\ \A e \in SettledEvents : After(e) = UsageSettled(e)
    <2>1. \A e \in SettledEvents : settlements'[e] = settlements[e]
      BY <1>8, <1>9 DEF SettledEvents
    <2>. QED BY <1>8, <2>1 DEF UsageSettled
  <1>11. SettledEvents \subseteq EventIds
    BY DEF SettledEvents
  <1>12. \A e \in SettledEvents :
            /\ UsageSettled(e).end \in Nat /\ UsageSettled(e).sequence \in Nat
            /\ UsageSettled(e).start \in Nat
            /\ <<UsageSettled(e).account, UsageSettled(e).source>>
                   \in Accounts \X Sources
    BY SettledTypes, UsageTypes DEF IInv, UsageSettled
  <1>. HIDE DEF w, After, done, old, moved, cursor, here, e0, i0
  <1>20. Typed'
    <2>1. authorizations' \in [AuthIds -> Authorization \cup {None}]
      BY <1>1, <1>3, <1>6 DEF IInv, Typed
    <2>2. settlements' \in [EventIds -> SettlementRecord \cup {None}]
      BY <1>1, <1>3 DEF SettlementRecord, IInv, Typed, done
    <2>3. streams' \in [Accounts \X Sources -> [sequence : Nat, end : Nat]]
      BY <1>1, <1>3, <1>4 DEF IInv, Typed
    <2>. QED BY <2>1, <2>2, <2>3 DEF Typed
  <1>21. ReservedWasGranted'
    BY <1>6 DEF IInv, ReservedWasGranted, Granted
  <1>22. EventCloses'
    <2>1. ASSUME NEW e \in SettledEvents'
          PROVE  /\ After(e).auth \in Granted'
                 /\ authorizations'[After(e).auth].settled
                 /\ settlements'[e].charged <=
                       authorizations'[After(e).auth].granted
      <3>1. CASE e = e0
        <4>1. After(e).auth = i0
          BY <3>1, <1>10 DEF i0
        <4>2. i0 \in Granted'
          BY <1>1, <1>6 DEF Granted, UsageAssumption
        <4>3. settlements'[e].charged = w.charge
          BY <3>1, <1>8 DEF done
        <4>. QED BY <4>1, <4>2, <4>3, <1>1, <1>2, <1>5, <1>6 DEF Authorization
      <3>2. CASE e \in SettledEvents
        <4>1. /\ After(e).auth = UsageSettled(e).auth
              /\ settlements'[e] = settlements[e]
          BY <3>2, <1>8, <1>9, <1>10, <1>11
        <4>2. /\ UsageSettled(e).auth \in Granted
              /\ authorizations[UsageSettled(e).auth].settled
              /\ settlements[e].charged
                     <= authorizations[UsageSettled(e).auth].granted
          BY <3>2 DEF IInv, EventCloses
        <4>3. UsageSettled(e).auth # i0
          BY <4>2, <1>2 DEF old
        <4>. QED BY <4>1, <4>2, <4>3, <1>6 DEF Granted
      <3>. QED BY <1>9, <3>1, <3>2
    <2>. QED BY <2>1 DEF EventCloses, UsageSettled, After
  <1>23. CursorPast'
    <2>1. \A e \in SettledEvents' :
             LET u == After(e) IN
             /\ u.end <= NextStream(u).end
             /\ u.sequence # NoSequence =>
                   /\ NextStream(u).sequence # NoSequence
                   /\ u.sequence <= NextStream(u).sequence
      <3>1. SUFFICES ASSUME NEW e \in SettledEvents', NEW u, u = After(e)
                     PROVE  /\ u.end <= NextStream(u).end
                            /\ u.sequence # NoSequence =>
                                  /\ NextStream(u).sequence # NoSequence
                                  /\ u.sequence <= NextStream(u).sequence
        OBVIOUS
      <3>2. CASE e = e0
        <4>1. u = w /\ NextStream(u) = moved
          BY <3>1, <3>2, <1>7, <1>10 DEF Stream, here
        <4>. QED BY <4>1, <1>1 DEF moved
      <3>3. CASE e \in SettledEvents
        <4>1. u = UsageSettled(e)
          BY <3>1, <3>3, <1>10
        <4>2. /\ u.end <= Stream(u).end
              /\ u.sequence # NoSequence =>
                   Stream(u).sequence # NoSequence
                       /\ u.sequence <= Stream(u).sequence
          BY <3>3, <4>1 DEF IInv, CursorPast
        <4>3. CASE <<u.account, u.source>> = here
          <5>1. Stream(u) = cursor /\ NextStream(u) = moved
            BY <4>3, <1>7 DEF Stream, cursor
          <5>. QED BY <5>1, <4>1, <4>2, <3>3, <1>1, <1>2, <1>4, <1>12
                      DEF moved, NoSequence
        <4>4. CASE <<u.account, u.source>> # here
          <5>1. NextStream(u) = Stream(u)
            BY <4>1, <4>4, <3>3, <1>7, <1>12 DEF Stream
          <5>. QED BY <5>1, <4>2
        <4>. QED BY <4>3, <4>4
      <3>. QED BY <1>9, <3>2, <3>3
    <2>. QED BY <2>1 DEF CursorPast, Stream, UsageSettled, After
  <1>24. OneEventEach'
    <2>1. \A e \in SettledEvents : UsageSettled(e).auth # i0
      BY <1>2 DEF IInv, EventCloses, old
    <2>2. After(e0).auth = i0
      BY <1>10 DEF i0
    <2>. QED BY <2>1, <2>2, <1>9, <1>10
                DEF IInv, OneEventEach, UsageSettled, After
  <1>25. IntervalsDisjoint'
    <2>1. ASSUME NEW e \in SettledEvents, SameStream(UsageSettled(e), w)
          PROVE  /\ UsageSettled(e).end <= w.start
                 /\ w.sequence # NoSequence
                        => UsageSettled(e).sequence < w.sequence
      <3>1. Stream(UsageSettled(e)) = cursor
        BY <2>1 DEF SameStream, Stream, cursor, here
      <3>2. /\ UsageSettled(e).end <= cursor.end
            /\ UsageSettled(e).sequence # NoSequence =>
                 /\ cursor.sequence # NoSequence
                 /\ UsageSettled(e).sequence <= cursor.sequence
        BY <2>1, <3>1 DEF IInv, CursorPast
      <3>3. /\ cursor.end \in Nat /\ cursor.sequence \in Nat
            /\ UsageSettled(e).end \in Nat /\ UsageSettled(e).sequence \in Nat
        BY <1>4, <1>12
      <3>4. UsageSettled(e).end <= w.start
        BY <3>2, <3>3, <1>1, <1>2
      <3>5. ASSUME w.sequence # NoSequence
            PROVE  UsageSettled(e).sequence < w.sequence
        <4>1. cursor.sequence = NoSequence \/ w.sequence > cursor.sequence
          BY <3>5, <1>2
        <4>. QED BY <4>1, <3>2, <3>3, <3>5, <1>1 DEF NoSequence
      <3>. QED BY <3>4, <3>5
    <2>2. ASSUME NEW d \in SettledEvents', NEW e \in SettledEvents', d # e,
                 SameStream(After(d), After(e))
          PROVE  LET u == After(d)
                     v == After(e) IN
                 \/ u.end <= v.start
                        /\ (v.sequence # NoSequence => u.sequence < v.sequence)
                 \/ v.end <= u.start
                        /\ (u.sequence # NoSequence => v.sequence < u.sequence)
      <3>1. CASE d \in SettledEvents /\ e \in SettledEvents
        BY <2>2, <3>1, <1>10 DEF IInv, IntervalsDisjoint
      <3>2. CASE d \in SettledEvents /\ e = e0
        BY <2>1, <2>2, <3>2, <1>10
      <3>3. CASE d = e0 /\ e \in SettledEvents
        <4>1. SameStream(UsageSettled(e), w)
          BY <2>2, <3>3, <1>10 DEF SameStream
        <4>. QED BY <4>1, <2>1, <3>3, <1>10
      <3>. QED BY <2>2, <3>1, <3>2, <3>3, <1>9
    <2>. QED BY <2>2 DEF IntervalsDisjoint, SameStream, UsageSettled, After
  <1>. QED BY <1>20, <1>21, <1>22, <1>23, <1>24, <1>25 DEF IInv

LEMMA NextIInv ==
    ASSUME UsageAssumption, IInv, [Next]_vars PROVE IInv'
  <1>1. CASE UNCHANGED vars \/ Tick
    BY <1>1 DEF vars, Tick, IInv, Typed, ReservedWasGranted, EventCloses,
       CursorPast,
       OneEventEach, IntervalsDisjoint, Granted, SettledEvents, UsageSettled,
           Stream
  <1>2. CASE Next
    BY <1>1, <1>2, AuthorizeStep, ReleaseStep, RefusedStep, SettleStep DEF Next
  <1>. QED BY <1>1, <1>2
-----------------------------------------------------------------------------
(* What the run checks of settled events follows.                          *)
LEMMA InvFromIInv == IInv => UsageInv
  BY DEF IInv, UsageInv, EventCloses, OneEventEach, OneEventPerAuthorization

(* The invariant holds of every behaviour.                                 *)
THEOREM SettlementInvariant == ASSUME UsageAssumption PROVE Spec => []IInv
  <1>1. Init => IInv
    BY InitIInv
  <1>2. IInv /\ [Next]_vars => IInv'
    BY NextIInv
  <1>. QED BY <1>1, <1>2, PTL DEF Spec

(* Late, repeated or reordered events never bill the same time of a source *)
(* twice, and an authorization pays for one event at most and never more   *)
(* than was reserved for it (UsageSettlementService.settle).               *)
THEOREM SettledOnce == ASSUME UsageAssumption PROVE Spec => []UsageInv
  <1>1. IInv => UsageInv
    BY InvFromIInv
  <1>. QED BY <1>1, SettlementInvariant, PTL
-----------------------------------------------------------------------------
(* When one amount changes, the total changes with it, and no amount is    *)
(* larger than the total.                                                  *)
LEMMA TotalUpdate ==
    ASSUME NEW S, NEW f \in [S -> Nat], NEW g \in [S -> Nat], NEW x \in S,
           \A y \in S : y # x => g[y] = f[y],
           IsFiniteSet(Units(f))
    PROVE  /\ IsFiniteSet(Units(g))
           /\ Total(f) \in Nat /\ Total(g) \in Nat
           /\ f[x] <= Total(f)
           /\ Total(g) = Total(f) - f[x] + g[x]
  <1>. DEFINE Rest == UNION {{y} \X (1..f[y]) : y \in S \ {x}}
              Of(n) == {x} \X (1..n)
  <1>1. Units(f) = Rest \cup Of(f[x])
    BY DEF Units
  <1>2. Units(g) = Rest \cup Of(g[x])
    <2>1. Rest = UNION {{y} \X (1..g[y]) : y \in S \ {x}}
      OBVIOUS
    <2>. QED BY <2>1 DEF Units
  <1>3. \A n \in Nat : Rest \cap Of(n) = {}
    OBVIOUS
  <1>4. ASSUME NEW n \in Nat
        PROVE  IsFiniteSet(Of(n)) /\ Cardinality(Of(n)) = n
    <2>0. 1 \in Int /\ n \in Int
      OBVIOUS
    <2>a. /\ IsFiniteSet(1..n)
          /\ Cardinality(1..n) = IF 1 > n THEN 0 ELSE n - 1 + 1
      BY <2>0, FS_Interval, Zenon
    <2>1. IsFiniteSet(1..n) /\ Cardinality(1..n) = n
      BY <2>a
    <2>2. IsFiniteSet({x}) /\ Cardinality({x}) = 1
      BY FS_Singleton
    <2>3. IsFiniteSet(Of(n)) /\ Cardinality(Of(n)) = 1 * n
      BY <2>1, <2>2, FS_Product
    <2>. QED BY <2>3
  <1>5. IsFiniteSet(Rest) /\ Cardinality(Rest) \in Nat
    BY <1>1, FS_Subset, FS_CardinalityType
  <1>. HIDE DEF Rest, Of
  <1>6. ASSUME NEW n \in Nat
        PROVE  /\ IsFiniteSet(Rest \cup Of(n))
               /\ Cardinality(Rest \cup Of(n)) = Cardinality(Rest) + n
    <2>1. Cardinality(Rest \cap Of(n)) = 0
      BY <1>3, FS_EmptySet
    <2>2. /\ IsFiniteSet(Rest \cup Of(n))
          /\ Cardinality(Rest \cup Of(n)) =
               Cardinality(Rest) + Cardinality(Of(n)) - Cardinality(Rest \cap Of(n))
      BY <1>4, <1>5, FS_Union
    <2>. QED BY <2>1, <2>2, <1>4, <1>5
  <1>7. f[x] \in Nat /\ g[x] \in Nat
    OBVIOUS
  <1>8. /\ Total(f) = Cardinality(Rest) + f[x]
        /\ Total(g) = Cardinality(Rest) + g[x]
        /\ IsFiniteSet(Units(g))
    BY <1>1, <1>2, <1>6, <1>7 DEF Total
  <1>. QED BY <1>5, <1>7, <1>8

(* The total of nothing.                                                   *)
LEMMA TotalZero ==
    ASSUME NEW S, NEW f \in [S -> Nat], \A y \in S : f[y] = 0
    PROVE  IsFiniteSet(Units(f)) /\ Total(f) = 0
  <1>1. Units(f) = {}
    <2>1. \A y \in S : {y} \X (1..f[y]) = {}
      OBVIOUS
    <2>. QED BY <2>1 DEF Units
  <1>. QED BY <1>1, FS_EmptySet DEF Total
-----------------------------------------------------------------------------
(* The holds.  What is kept for an account is finite, whatever the supply  *)
(* of ids.                                                                 *)
FiniteBooks ==
    \A a \in Accounts : /\ IsFiniteSet(Units(HeldFor(a)))
                        /\ IsFiniteSet(Units(GrantedTo(a)))
                        /\ IsFiniteSet(Units(ChargedTo(a)))

Books == HoldsInv /\ FiniteBooks

LEMMA BookTypes ==
    ASSUME TypeOK, NEW a \in Accounts
    PROVE  /\ HeldFor(a) \in [AuthIds -> Nat]
           /\ GrantedTo(a) \in [AuthIds -> Nat]
           /\ ChargedTo(a) \in [EventIds -> Nat]
  BY DEF SettlementRecord, TypeOK, HeldFor, GrantedTo, ChargedTo, Granted,
     SettledEvents,
         Authorization

(* One authorization changes what is held and granted by what it holds and *)
(* was granted, before and after.                                          *)
LEMMA OneAuthorization ==
    ASSUME TypeOK, TypeOK', FiniteBooks, NEW a \in Accounts, NEW i \in AuthIds,
           \A j \in AuthIds : j # i => authorizations'[j] = authorizations[j]
    PROVE  /\ IsFiniteSet(Units(HeldFor(a)'))
           /\ IsFiniteSet(Units(GrantedTo(a)'))
           /\ Total(HeldFor(a)) \in Nat /\ Total(GrantedTo(a)) \in Nat
           /\ HeldFor(a)[i] <= Total(HeldFor(a))
           /\ Total(HeldFor(a)') =
                 Total(HeldFor(a)) - HeldFor(a)[i] + HeldFor(a)'[i]
           /\ Total(GrantedTo(a)') =
                 Total(GrantedTo(a)) - GrantedTo(a)[i] + GrantedTo(a)'[i]
  <1>1. /\ HeldFor(a) \in [AuthIds -> Nat] /\ HeldFor(a)' \in [AuthIds -> Nat]
        /\ GrantedTo(a) \in [AuthIds -> Nat]
        /\ GrantedTo(a)' \in [AuthIds -> Nat]
    <2>1. ASSUME TypeOK'
          PROVE  HeldFor(a)' \in [AuthIds -> Nat]
                     /\ GrantedTo(a)' \in [AuthIds -> Nat]
      BY <2>1 DEF TypeOK, HeldFor, GrantedTo, Granted, Authorization
    <2>. QED BY <2>1, BookTypes
  <1>2. \A j \in AuthIds : j # i => /\ HeldFor(a)'[j] = HeldFor(a)[j]
                                   /\ GrantedTo(a)'[j] = GrantedTo(a)[j]
    BY DEF HeldFor, GrantedTo, Granted
  <1>3. IsFiniteSet(Units(HeldFor(a))) /\ IsFiniteSet(Units(GrantedTo(a)))
    BY DEF FiniteBooks
  <1>4. /\ IsFiniteSet(Units(HeldFor(a)'))
        /\ Total(HeldFor(a)) \in Nat /\ HeldFor(a)[i] <= Total(HeldFor(a))
        /\ Total(HeldFor(a)') =
              Total(HeldFor(a)) - HeldFor(a)[i] + HeldFor(a)'[i]
    BY <1>1, <1>2, <1>3, TotalUpdate
  <1>5. /\ IsFiniteSet(Units(GrantedTo(a)')) /\ Total(GrantedTo(a)) \in Nat
        /\ Total(GrantedTo(a)') =
              Total(GrantedTo(a)) - GrantedTo(a)[i] + GrantedTo(a)'[i]
    BY <1>1, <1>2, <1>3, TotalUpdate
  <1>. QED BY <1>4, <1>5

(* One event changes what is charged by its charge.                        *)
LEMMA OneEvent ==
    ASSUME TypeOK, TypeOK', FiniteBooks, NEW a \in Accounts, NEW e \in EventIds,
           \A d \in EventIds : d # e => settlements'[d] = settlements[d]
    PROVE  /\ IsFiniteSet(Units(ChargedTo(a)')) /\ Total(ChargedTo(a)) \in Nat
           /\ Total(ChargedTo(a)') =
                 Total(ChargedTo(a)) - ChargedTo(a)[e] + ChargedTo(a)'[e]
  <1>1. ChargedTo(a) \in [EventIds -> Nat]
            /\ ChargedTo(a)' \in [EventIds -> Nat]
    <2>1. ASSUME TypeOK' PROVE ChargedTo(a)' \in [EventIds -> Nat]
      BY <2>1 DEF SettlementRecord, TypeOK, ChargedTo, SettledEvents
    <2>. QED BY <2>1, BookTypes
  <1>2. \A d \in EventIds : d # e => ChargedTo(a)'[d] = ChargedTo(a)[d]
    BY DEF ChargedTo, SettledEvents, UsageSettled
  <1>3. IsFiniteSet(Units(ChargedTo(a)))
    BY DEF FiniteBooks
  <1>. QED BY <1>1, <1>2, <1>3, TotalUpdate

(* What the balance of an account, its ledger totals and its books say.    *)
Balanced(a) ==
    /\ balances[a].reserved = Total(HeldFor(a))
    /\ charged[a] = Total(ChargedTo(a))
    /\ charged[a] + released[a] + balances[a].reserved = Total(GrantedTo(a))
    /\ balances[a].available + balances[a].reserved + charged[a] = Deposit

LEMMA BooksBalance == Books
    <=> TypeOK /\ FiniteBooks /\ \A a \in Accounts : Balanced(a)
  BY DEF Books, HoldsInv, ReservedIsHeld, ChargesMatchEvents, Balanced

(* The numbers of an account.                                              *)
LEMMA BalanceTypes ==
    ASSUME TypeOK, NEW a \in Accounts
    PROVE  /\ balances[a] \in [available : Int, reserved : Nat]
           /\ balances[a].available \in Int /\ balances[a].reserved \in Nat
           /\ charged[a] \in Nat /\ released[a] \in Nat
  BY DEF TypeOK

LEMMA InitBooks == ASSUME UsageAssumption, Init PROVE Books
  <1>1. SettledEvents = {} /\ Granted = {}
    BY DEF Init, SettledEvents, Granted
  <1>2. TypeOK
    BY DEF Init, TypeOK, UsageAssumption, NoSequence
  <1>3. ASSUME NEW a \in Accounts
        PROVE  /\ IsFiniteSet(Units(HeldFor(a))) /\ Total(HeldFor(a)) = 0
               /\ IsFiniteSet(Units(GrantedTo(a))) /\ Total(GrantedTo(a)) = 0
               /\ IsFiniteSet(Units(ChargedTo(a))) /\ Total(ChargedTo(a)) = 0
    <2>1. /\ \A i \in AuthIds : HeldFor(a)[i] = 0 /\ GrantedTo(a)[i] = 0
          /\ \A e \in EventIds : ChargedTo(a)[e] = 0
      BY <1>1 DEF HeldFor, GrantedTo, ChargedTo
    <2>2. /\ HeldFor(a) \in [AuthIds -> Nat]
          /\ GrantedTo(a) \in [AuthIds -> Nat]
          /\ ChargedTo(a) \in [EventIds -> Nat]
      BY <1>2, BookTypes
    <2>. QED BY <2>1, <2>2, TotalZero
  <1>4. \A a \in Accounts :
           /\ balances[a].available = Deposit /\ balances[a].reserved = 0
           /\ charged[a] = 0 /\ released[a] = 0
    BY DEF Init
  <1>5. Deposit \in Nat
    BY DEF UsageAssumption
  <1>. QED BY <1>2, <1>3, <1>4, <1>5, BooksBalance DEF Balanced, FiniteBooks

(* A new authorization holds what it was granted.                          *)
LEMMA AuthorizeBooks ==
    ASSUME UsageAssumption, Books, NEW p \in Producers, NEW r \in Requests,
           Authorize(p, r)
    PROVE  Books'
  <1>. DEFINE req == RequestOf[r]
              b == req.account
  <1>0. TypeOK /\ FiniteBooks /\ \A a \in Accounts : Balanced(a)
    BY BooksBalance
  <1>1. /\ req \in Request /\ b \in Accounts /\ req.amount \in Nat
        /\ req.source \in Sources /\ req.key \in Keys
        /\ req.interval \in Nat /\ req.expiresAt \in Nat
    BY DEF UsageAssumption, Request
  <1>2. PICK i \in AuthIds :
            /\ authorizations[i] = None
            /\ authorizations' = [authorizations EXCEPT ![i] =
                 [account |-> req.account, producer |-> p,
                     source |-> req.source,
                  granted |-> req.amount, reserved |-> req.amount,
                  interval |-> req.interval, expiresAt |-> req.expiresAt,
                  status |-> "authorized", settled |-> FALSE]]
            /\ authorizeKeys' = [authorizeKeys EXCEPT ![<<p, req.key>>] =
                 [request |-> r, auth |-> i]]
    BY DEF Authorize
  <1>3. /\ authorizations'[i] \in Authorization
        /\ authorizations'[i].account = b
        /\ authorizations'[i].granted = req.amount
        /\ authorizations'[i].reserved = req.amount
        /\ Open(authorizations'[i])
        /\ \A j \in AuthIds : j # i => authorizations'[j] = authorizations[j]
        /\ authorizations' \in [AuthIds -> Authorization \cup {None}]
    BY <1>0, <1>1, <1>2 DEF TypeOK, Authorization, Open
  <1>4. balances[b].available >= req.amount
        /\ balances' = [balances EXCEPT ![b] =
             [available |-> @.available - req.amount,
              reserved |-> @.reserved + req.amount]]
    BY DEF Authorize
  <1>5. /\ settlements' = settlements /\ charged' = charged
        /\ released' = released
        /\ now' = now /\ releaseKeys' = releaseKeys /\ settleKeys' = settleKeys
        /\ streams' = streams
    BY DEF Authorize
  <1>6. TypeOK'
    <2>1. balances' \in [Accounts -> [available : Int, reserved : Nat]]
      <3>1. balances[b].available \in Int /\ balances[b].reserved \in Nat
        BY <1>0, <1>1, BalanceTypes
      <3>2. [available |-> balances[b].available - req.amount,
             reserved |-> balances[b].reserved + req.amount]
               \in [available : Int, reserved : Nat]
        BY <3>1, <1>1
      <3>. QED BY <3>2, <1>0, <1>1, <1>4 DEF TypeOK
    <2>2. authorizeKeys' \in
           [Producers \X Keys -> [request : Requests, auth : AuthIds]
               \cup {None}]
      BY <1>0, <1>1, <1>2 DEF TypeOK
    <2>. QED BY <2>1, <2>2, <1>0, <1>3, <1>5 DEF TypeOK
  <1>7. ASSUME NEW a \in Accounts
        PROVE  /\ IsFiniteSet(Units(HeldFor(a)'))
               /\ IsFiniteSet(Units(GrantedTo(a)'))
               /\ IsFiniteSet(Units(ChargedTo(a)')) /\ Balanced(a)'
    <2>1. ChargedTo(a)' = ChargedTo(a)
      BY <1>5 DEF ChargedTo, SettledEvents, UsageSettled
    <2>2. HeldFor(a)[i] = 0 /\ GrantedTo(a)[i] = 0
      BY <1>2 DEF HeldFor, GrantedTo, Granted
    <2>3. /\ HeldFor(a)'[i] = IF a = b THEN req.amount ELSE 0
          /\ GrantedTo(a)'[i] = IF a = b THEN req.amount ELSE 0
      BY <1>3 DEF HeldFor, GrantedTo, Granted, UsageAssumption
    <2>4. /\ IsFiniteSet(Units(HeldFor(a)'))
          /\ IsFiniteSet(Units(GrantedTo(a)'))
          /\ Total(HeldFor(a)) \in Nat /\ Total(GrantedTo(a)) \in Nat
          /\ Total(HeldFor(a)') =
                Total(HeldFor(a)) - HeldFor(a)[i] + HeldFor(a)'[i]
          /\ Total(GrantedTo(a)') =
                Total(GrantedTo(a)) - GrantedTo(a)[i] + GrantedTo(a)'[i]
      BY <1>0, <1>3, <1>6, OneAuthorization
    <2>5. Balanced(a)
      BY <1>0
    <2>6. /\ balances[a].available \in Int /\ balances[a].reserved \in Nat
          /\ charged[a] \in Nat /\ released[a] \in Nat
      BY <1>0, BalanceTypes
    <2>7. /\ charged'[a] = charged[a] /\ released'[a] = released[a]
          /\ balances'[a].available =
                balances[a].available - (IF a = b THEN req.amount ELSE 0)
          /\ balances'[a].reserved =
                balances[a].reserved + (IF a = b THEN req.amount ELSE 0)
      BY <1>0, <1>1, <1>4, <1>5, <2>6 DEF TypeOK
    <2>8. Balanced(a)'
      BY <2>1, <2>2, <2>3, <2>4, <2>5, <2>6, <2>7, <1>1 DEF Balanced
    <2>. QED BY <2>1, <2>4, <2>8, <1>0 DEF FiniteBooks
  <1>. QED BY <1>6, <1>7, BooksBalance
              DEF FiniteBooks, Books, HoldsInv, ReservedIsHeld,
          ChargesMatchEvents, Balanced

(* A release gives back what was held.                                     *)
LEMMA ReleaseBooks ==
    ASSUME UsageAssumption, Books, NEW p \in Producers, NEW i \in AuthIds,
           NEW k \in Keys, Release(p, i, k)
    PROVE  Books'
  <1>. DEFINE old == authorizations[i]
              b == old.account
  <1>0. TypeOK /\ FiniteBooks /\ \A a \in Accounts : Balanced(a)
    BY BooksBalance
  <1>1. /\ old \in Authorization /\ b \in Accounts
        /\ old.reserved \in Nat /\ old.granted \in Nat
    <2>1. old \in Authorization
      BY <1>0 DEF TypeOK, Release
    <2>. QED BY <2>1 DEF Authorization
  <1>2. /\ settlements' = settlements /\ charged' = charged
        /\ now' = now /\ authorizeKeys' = authorizeKeys
        /\ settleKeys' = settleKeys /\ streams' = streams
    BY DEF Release
  <1>3. releaseKeys' \in [Producers \X Keys -> AuthIds \cup {None}]
    BY <1>0 DEF TypeOK, Release
  <1>4. CASE ~Open(old)
    <2>1. /\ balances' = balances /\ released' = released
          /\ authorizations' = authorizations
      BY <1>4 DEF Release
    <2>2. TypeOK'
      BY <2>1, <1>0, <1>2, <1>3 DEF TypeOK
    <2>3. \A a \in Accounts : /\ HeldFor(a)' = HeldFor(a)
                              /\ GrantedTo(a)' = GrantedTo(a)
                              /\ ChargedTo(a)' = ChargedTo(a)
      BY <2>1, <1>2 DEF HeldFor, GrantedTo, ChargedTo, Granted, SettledEvents,
         UsageSettled
    <2>. QED BY <2>1, <2>2, <2>3, <1>0, <1>2
            DEF Books, HoldsInv, FiniteBooks, ReservedIsHeld,
                ChargesMatchEvents,
                Balanced
  <1>5. CASE Open(old)
    <2>1. /\ balances' = [balances EXCEPT ![b] =
               [available |-> @.available + old.reserved,
                reserved |-> @.reserved - old.reserved]]
          /\ released' = [released EXCEPT ![b] = @ + old.reserved]
          /\ authorizations' = [authorizations EXCEPT
               ![i].reserved = 0, ![i].status = "released"]
      BY <1>5 DEF Release
    <2>2. authorizations'[i]
              = [old EXCEPT !.reserved = 0, !.status = "released"]
      BY <2>1, <1>0 DEF TypeOK
    <2>3. /\ authorizations'[i] \in Authorization
          /\ authorizations'[i].account = b
          /\ authorizations'[i].granted = old.granted
          /\ authorizations'[i].reserved = 0
          /\ \A j \in AuthIds : j # i => authorizations'[j] = authorizations[j]
          /\ authorizations' \in [AuthIds -> Authorization \cup {None}]
      <3>1. /\ authorizations'[i] \in Authorization
            /\ authorizations'[i].account = b
            /\ authorizations'[i].granted = old.granted
            /\ authorizations'[i].reserved = 0
        BY <1>1, <2>2, ReleasedHeld
      <3>. QED BY <3>1, <2>1, <1>0 DEF TypeOK
    <2>4. \A a \in Accounts :
             /\ HeldFor(a)[i] = IF a = b THEN old.reserved ELSE 0
             /\ HeldFor(a)'[i] = 0
             /\ GrantedTo(a)'[i] = GrantedTo(a)[i]
             /\ ChargedTo(a)' = ChargedTo(a)
      BY <1>1, <1>2, <1>5, <2>3 DEF HeldFor, GrantedTo, ChargedTo, Granted,
         SettledEvents, UsageSettled, UsageAssumption
    <2>5. balances[b].reserved \in Nat /\ balances[b].reserved >= old.reserved
      <3>1. HeldFor(b)[i] <= Total(HeldFor(b))
        <4>1. HeldFor(b) \in [AuthIds -> Nat] /\ IsFiniteSet(Units(HeldFor(b)))
          BY <1>0, <1>1, BookTypes DEF FiniteBooks
        <4>. QED BY <4>1, TotalUpdate
      <3>2. balances[b].reserved = Total(HeldFor(b))
                /\ balances[b].reserved \in Nat
        BY <1>0, <1>1, BalanceTypes DEF Balanced
      <3>. QED BY <3>1, <3>2, <2>4, <1>1
    <2>6. TypeOK'
      <3>1. balances[b].available \in Int
        BY <1>0, <1>1, BalanceTypes
      <3>2. [available |-> balances[b].available + old.reserved,
             reserved |-> balances[b].reserved - old.reserved]
               \in [available : Int, reserved : Nat]
        BY <3>1, <2>5, <1>1
      <3>3. balances' \in [Accounts -> [available : Int, reserved : Nat]]
        BY <3>2, <1>0, <1>1, <2>1 DEF TypeOK
      <3>4. released' \in [Accounts -> Nat]
        BY <1>0, <1>1, <2>1 DEF TypeOK
      <3>. QED BY <3>3, <3>4, <1>0, <1>2, <1>3, <2>3 DEF TypeOK
    <2>7. ASSUME NEW a \in Accounts
          PROVE  /\ IsFiniteSet(Units(HeldFor(a)'))
                 /\ IsFiniteSet(Units(GrantedTo(a)'))
                 /\ IsFiniteSet(Units(ChargedTo(a)')) /\ Balanced(a)'
      <3>1. /\ IsFiniteSet(Units(HeldFor(a)'))
            /\ IsFiniteSet(Units(GrantedTo(a)'))
            /\ Total(HeldFor(a)) \in Nat /\ Total(GrantedTo(a)) \in Nat
            /\ Total(HeldFor(a)') =
                  Total(HeldFor(a)) - HeldFor(a)[i] + HeldFor(a)'[i]
            /\ Total(GrantedTo(a)') =
                  Total(GrantedTo(a)) - GrantedTo(a)[i] + GrantedTo(a)'[i]
        BY <1>0, <2>3, <2>6, OneAuthorization
      <3>2. GrantedTo(a)[i] \in Nat
        BY <1>0, BookTypes
      <3>3. Balanced(a)
        BY <1>0
      <3>4. /\ balances[a].available \in Int /\ balances[a].reserved \in Nat
            /\ charged[a] \in Nat /\ released[a] \in Nat
        BY <1>0, BalanceTypes
      <3>5. /\ charged'[a] = charged[a]
            /\ released'[a] = released[a] + (IF a = b THEN old.reserved ELSE 0)
            /\ balances'[a].available =
                  balances[a].available + (IF a = b THEN old.reserved ELSE 0)
            /\ balances'[a].reserved =
                  balances[a].reserved - (IF a = b THEN old.reserved ELSE 0)
        BY <1>0, <1>1, <1>2, <2>1, <3>4 DEF TypeOK
      <3>6. Balanced(a)'
        BY <2>4, <3>1, <3>2, <3>3, <3>4, <3>5, <1>1 DEF Balanced
      <3>. QED BY <2>4, <3>1, <3>6, <1>0 DEF FiniteBooks
    <2>. QED BY <2>6, <2>7 DEF FiniteBooks, Books, HoldsInv, ReservedIsHeld,
            ChargesMatchEvents, Balanced
  <1>. QED BY <1>4, <1>5

(* A refusal, or a repeated event, is recorded and charges nothing.        *)
LEMMA RefusedBooks ==
    ASSUME UsageAssumption, Books, NEW p \in Producers, NEW x \in Usages,
           SettleReplay(p, x) \/ SettleRejected(p, x)
    PROVE  Books'
  <1>. DEFINE e0 == UsageOf[x].eventId
  <1>0. TypeOK /\ FiniteBooks /\ \A a \in Accounts : Balanced(a)
    BY BooksBalance
  <1>1. e0 \in EventIds /\ UsageOf[x].key \in Keys
    BY UsageTypes DEF Usage
  <1>2. /\ authorizations' = authorizations /\ streams' = streams /\ now' = now
        /\ balances' = balances /\ charged' = charged /\ released' = released
        /\ authorizeKeys' = authorizeKeys /\ releaseKeys' = releaseKeys
        /\ settleKeys' = [settleKeys EXCEPT ![<<p, UsageOf[x].key>>] = x]
    BY DEF SettleReplay, SettleRejected
  <1>3. \/ settlements' = settlements
        \/ /\ settlements[e0] = None
           /\ settlements' = [settlements EXCEPT ![e0] =
                               [usage |-> x, status |-> "rejected",
                                   charged |-> 0]]
    BY DEF SettleReplay, SettleRejected, Settlement
  <1>4. TypeOK'
    <2>1. settleKeys' \in [Producers \X Keys -> Usages \cup {None}]
      BY <1>0, <1>1, <1>2 DEF TypeOK
    <2>2. settlements' \in
            [EventIds -> SettlementRecord \cup {None}]
      BY <1>0, <1>1, <1>3 DEF SettlementRecord, TypeOK
    <2>. QED BY <2>1, <2>2, <1>0, <1>2 DEF TypeOK
  <1>5. /\ SettledEvents' = SettledEvents
        /\ \A e \in SettledEvents : settlements'[e] = settlements[e]
    BY <1>0, <1>1, <1>3 DEF TypeOK, SettledEvents
  <1>6. ASSUME NEW a \in Accounts
        PROVE  /\ HeldFor(a)' = HeldFor(a) /\ GrantedTo(a)' = GrantedTo(a)
               /\ ChargedTo(a)' = ChargedTo(a)
    <2>1. HeldFor(a)' = HeldFor(a) /\ GrantedTo(a)' = GrantedTo(a)
      BY <1>2 DEF HeldFor, GrantedTo, Granted
    <2>2. ChargedTo(a)' = ChargedTo(a)
      BY <1>5 DEF ChargedTo, UsageSettled
    <2>. QED BY <2>1, <2>2
  <1>. QED BY <1>0, <1>2, <1>4, <1>6 DEF FiniteBooks, Books, HoldsInv,
          ReservedIsHeld, ChargesMatchEvents, Balanced

(* A settlement charges what was held, and gives back the rest.            *)
LEMMA SettleBooks ==
    ASSUME UsageAssumption, Books, NEW p \in Producers, NEW x \in Usages,
           Settle(p, x)
    PROVE  Books'
  <1>. DEFINE w == UsageOf[x]
              e0 == w.eventId
              i0 == w.auth
              b == w.account
              old == authorizations[i0]
              unused == old.reserved - w.charge
              here == <<w.account, w.source>>
              cursor == streams[here]
              moved == [sequence |-> IF w.sequence # NoSequence THEN w.sequence
                                     ELSE cursor.sequence,
                        end |-> w.end]
              done == [usage |-> x, status |-> "settled", charged |-> w.charge]
  <1>0. TypeOK /\ FiniteBooks /\ \A a \in Accounts : Balanced(a)
    BY BooksBalance
  <1>1. /\ w.end \in Nat /\ w.sequence \in Nat /\ w.charge \in Nat
        /\ e0 \in EventIds /\ i0 \in AuthIds /\ here \in Accounts \X Sources
        /\ b \in Accounts /\ w.key \in Keys
    BY UsageTypes DEF Usage
  <1>2. /\ settlements[e0] = None /\ old # None /\ Open(old)
        /\ old.account = b /\ w.charge <= old.reserved
        /\ balances[b].reserved >= old.reserved
    BY DEF Settle, Accepted
  <1>3. /\ balances' = [balances EXCEPT ![b] =
             [available |-> @.available + unused,
              reserved |-> @.reserved - old.reserved]]
        /\ charged' = [charged EXCEPT ![b] = @ + w.charge]
        /\ released' = [released EXCEPT ![b] = @ + unused]
        /\ authorizations' = [authorizations EXCEPT
              ![i0].reserved = 0, ![i0].settled = TRUE]
        /\ settlements' = [settlements EXCEPT ![e0] = done]
        /\ settleKeys' = [settleKeys EXCEPT ![<<p, w.key>>] = x]
        /\ now' = now /\ authorizeKeys' = authorizeKeys
        /\ releaseKeys' = releaseKeys
    BY DEF Settle, Settlement
  <1>a. streams' = [streams EXCEPT ![here] = moved]
    BY DEF Settle
  <1>b. moved \in [sequence : Nat, end : Nat]
    <2>1. cursor \in [sequence : Nat, end : Nat]
      BY <1>0, <1>1 DEF TypeOK
    <2>. QED BY <2>1, <1>1
  <1>4. /\ old \in Authorization /\ old.reserved \in Nat /\ old.granted \in Nat
        /\ unused \in Nat
    <2>1. old \in Authorization
      BY <1>0, <1>1, <1>2 DEF TypeOK
    <2>2. old.reserved \in Nat /\ old.granted \in Nat
      BY <2>1 DEF Authorization
    <2>. QED BY <2>1, <2>2, <1>1, <1>2
  <1>5. /\ authorizations'[i0] \in Authorization
        /\ authorizations'[i0].account = b
        /\ authorizations'[i0].granted = old.granted
        /\ authorizations'[i0].reserved = 0
        /\ \A j \in AuthIds : j # i0 => authorizations'[j] = authorizations[j]
        /\ authorizations' \in [AuthIds -> Authorization \cup {None}]
    <2>1. authorizations'[i0] = [old EXCEPT !.reserved = 0, !.settled = TRUE]
      BY <1>0, <1>1, <1>3 DEF TypeOK
    <2>2. /\ authorizations'[i0] \in Authorization
          /\ authorizations'[i0].account = b
          /\ authorizations'[i0].granted = old.granted
          /\ authorizations'[i0].reserved = 0
      BY <1>2, <1>4, <2>1, SettledHeld
    <2>3. /\ \A j \in AuthIds : j # i0 => authorizations'[j] = authorizations[j]
          /\ DOMAIN authorizations' = AuthIds
      BY <1>0, <1>3 DEF TypeOK
    <2>4. authorizations' \in [AuthIds -> Authorization \cup {None}]
      BY <1>0, <1>1, <1>3, <2>2 DEF TypeOK
    <2>. QED BY <2>2, <2>3, <2>4
  <1>6. /\ settlements'[e0] = done
        /\ \A e \in EventIds : e # e0 => settlements'[e] = settlements[e]
    BY <1>0, <1>1, <1>3 DEF TypeOK
  <1>7. \A a \in Accounts :
           /\ HeldFor(a)[i0] = IF a = b THEN old.reserved ELSE 0
           /\ HeldFor(a)'[i0] = 0
           /\ GrantedTo(a)'[i0] = GrantedTo(a)[i0]
    BY <1>1, <1>2, <1>4, <1>5 DEF HeldFor, GrantedTo, Granted, UsageAssumption
  <1>8. \A a \in Accounts :
           /\ ChargedTo(a)[e0] = 0
           /\ ChargedTo(a)'[e0] = IF a = b THEN w.charge ELSE 0
    <2>1. e0 \notin SettledEvents
      BY <1>2 DEF SettledEvents
    <2>2. done # None => e0 \in SettledEvents'
      BY <1>1, <1>6 DEF SettledEvents
    <2>3. settlements'[e0].usage = x /\ settlements'[e0].charged = w.charge
      BY <1>6
    <2>4. \A a \in Accounts : ChargedTo(a)[e0] = 0
      BY <2>1, <1>1 DEF ChargedTo
    <2>5. done # None => \A a \in Accounts :
             ChargedTo(a)'[e0] = IF a = b THEN w.charge ELSE 0
      BY <2>2, <2>3, <1>1 DEF ChargedTo, UsageSettled
    <2>6. done # None
      <3>1. done \in SettlementRecord
        BY <1>1 DEF SettlementRecord
      <3>. QED BY <3>1 DEF UsageAssumption
    <2>. QED BY <2>4, <2>5, <2>6
  <1>. HIDE DEF w, e0, i0, old, here, cursor, moved
  <1>9. TypeOK'
    <2>1. balances[b].available \in Int /\ balances[b].reserved \in Nat
      BY <1>0, <1>1, BalanceTypes
    <2>2. [available |-> balances[b].available + unused,
           reserved |-> balances[b].reserved - old.reserved]
             \in [available : Int, reserved : Nat]
      BY <2>1, <1>2, <1>4
    <2>3. balances' \in [Accounts -> [available : Int, reserved : Nat]]
      BY <2>2, <1>0, <1>1, <1>3 DEF TypeOK
    <2>4. charged' \in [Accounts -> Nat] /\ released' \in [Accounts -> Nat]
      BY <1>0, <1>1, <1>3, <1>4 DEF TypeOK
    <2>5. settleKeys' \in [Producers \X Keys -> Usages \cup {None}]
      BY <1>0, <1>1, <1>3 DEF TypeOK
    <2>6. settlements' \in
            [EventIds -> SettlementRecord \cup {None}]
      BY <1>0, <1>1, <1>3 DEF SettlementRecord, TypeOK
    <2>7. streams' \in [Accounts \X Sources -> [sequence : Nat, end : Nat]]
      BY <1>0, <1>1, <1>a, <1>b DEF TypeOK
    <2>. QED BY <2>3, <2>4, <2>5, <2>6, <2>7, <1>0, <1>3, <1>5 DEF TypeOK
  <1>10. ASSUME NEW a \in Accounts
         PROVE  /\ IsFiniteSet(Units(HeldFor(a)'))
                /\ IsFiniteSet(Units(GrantedTo(a)'))
                /\ IsFiniteSet(Units(ChargedTo(a)')) /\ Balanced(a)'
    <2>1. /\ IsFiniteSet(Units(HeldFor(a)'))
          /\ IsFiniteSet(Units(GrantedTo(a)'))
          /\ Total(HeldFor(a)) \in Nat /\ Total(GrantedTo(a)) \in Nat
          /\ Total(HeldFor(a)') =
                Total(HeldFor(a)) - HeldFor(a)[i0] + HeldFor(a)'[i0]
          /\ Total(GrantedTo(a)') =
                Total(GrantedTo(a)) - GrantedTo(a)[i0] + GrantedTo(a)'[i0]
      BY <1>0, <1>1, <1>5, <1>9, OneAuthorization
    <2>2. /\ IsFiniteSet(Units(ChargedTo(a)')) /\ Total(ChargedTo(a)) \in Nat
          /\ Total(ChargedTo(a)') =
                Total(ChargedTo(a)) - ChargedTo(a)[e0] + ChargedTo(a)'[e0]
      BY <1>0, <1>1, <1>6, <1>9, OneEvent
    <2>3. GrantedTo(a)[i0] \in Nat
      BY <1>0, <1>1, BookTypes
    <2>4. Balanced(a)
      BY <1>0
    <2>5. /\ balances[a].available \in Int /\ balances[a].reserved \in Nat
          /\ charged[a] \in Nat /\ released[a] \in Nat
      BY <1>0, BalanceTypes
    <2>6. /\ charged'[a] = charged[a] + (IF a = b THEN w.charge ELSE 0)
          /\ released'[a] = released[a] + (IF a = b THEN unused ELSE 0)
          /\ balances'[a].available =
                balances[a].available + (IF a = b THEN unused ELSE 0)
          /\ balances'[a].reserved =
                balances[a].reserved - (IF a = b THEN old.reserved ELSE 0)
      BY <1>0, <1>1, <1>3, <1>4, <2>5 DEF TypeOK
    <2>7. Balanced(a)'
      BY <2>1, <2>2, <2>3, <2>4, <2>5, <2>6, <1>1, <1>4, <1>7, <1>8 DEF Balanced
    <2>. QED BY <2>1, <2>2, <2>7
  <1>. QED BY <1>9, <1>10 DEF FiniteBooks, Books, HoldsInv, ReservedIsHeld,
          ChargesMatchEvents, Balanced

LEMMA NextBooks ==
    ASSUME UsageAssumption, Books, [Next]_vars PROVE Books'
  <1>1. CASE UNCHANGED vars \/ Tick
    <2>1. TypeOK'
      BY <1>1 DEF vars, Tick, TypeOK, Books, HoldsInv
    <2>2. \A a \in Accounts : /\ HeldFor(a)' = HeldFor(a)
                              /\ GrantedTo(a)' = GrantedTo(a)
                              /\ ChargedTo(a)' = ChargedTo(a)
      BY <1>1 DEF vars, Tick, HeldFor, GrantedTo, ChargedTo, Granted,
         SettledEvents, UsageSettled
    <2>. QED BY <1>1, <2>1, <2>2 DEF vars, Tick, Books, HoldsInv, FiniteBooks,
            ReservedIsHeld, ChargesMatchEvents
  <1>2. CASE Next
    BY <1>1, <1>2, AuthorizeBooks, ReleaseBooks, RefusedBooks, SettleBooks
       DEF Next
  <1>. QED BY <1>1, <1>2

(* Whatever the order of requests, releases, events and expiries: the      *)
(* reserved part of each balance is exactly what open authorizations hold, *)
(* everything granted is held, charged by one event or given back, and no  *)
(* money appears or disappears (UsageSettlementService).                   *)
THEOREM HoldsAreSettled == ASSUME UsageAssumption PROVE Spec => []HoldsInv
  <1>1. Init => Books
    BY InitBooks
  <1>2. Books /\ [Next]_vars => Books'
    BY NextBooks
  <1>3. Books => HoldsInv
    BY DEF Books
  <1>. QED BY <1>1, <1>2, <1>3, PTL DEF Spec
(* An amount more.                                                         *)
LEMMA TotalAdd ==
    ASSUME NEW S, NEW x, x \notin S, NEW T, T = S \cup {x},
           NEW f \in [S -> Nat], NEW g \in [T -> Nat],
           \A y \in S : g[y] = f[y], IsFiniteSet(Units(f))
    PROVE  /\ IsFiniteSet(Units(g)) /\ Total(f) \in Nat
           /\ Total(g) = Total(f) + g[x]
  <1>. DEFINE h == [y \in S \cup {x} |-> IF y = x THEN 0 ELSE f[y]]
  <1>1. h \in [S \cup {x} -> Nat] /\ h[x] = 0 /\ \A y \in S : h[y] = f[y]
    OBVIOUS
  <1>. HIDE DEF h
  <1>2. Units(h) = Units(f)
    <2>0. DOMAIN h = S \cup {x}
      BY <1>1
    <2>. DEFINE P(y) == {y} \X (1..h[y])
    <2>1. Units(h) = UNION {P(y) : y \in S \cup {x}}
      BY <2>0 DEF Units
    <2>2. P(x) = {}
      BY <1>1
    <2>3. UNION {P(y) : y \in S \cup {x}} = UNION {P(y) : y \in S}
      <3>. HIDE DEF P
      <3>. QED BY <2>2
    <2>4. {P(y) : y \in S} = {{y} \X (1..f[y]) : y \in S}
      BY <1>1
    <2>5. Units(f) = UNION {{y} \X (1..f[y]) : y \in S}
      BY DEF Units
    <2>. QED BY <2>1, <2>3, <2>4, <2>5
  <1>3. /\ IsFiniteSet(Units(g)) /\ Total(h) \in Nat
        /\ Total(g) = Total(h) - h[x] + g[x]
    <2>1. x \in S \cup {x} /\ \A y \in S \cup {x} : y # x => g[y] = h[y]
      BY <1>1
    <2>2. IsFiniteSet(Units(h))
      BY <1>2
    <2>. QED BY <1>1, <2>1, <2>2, TotalUpdate
  <1>. QED BY <1>1, <1>2, <1>3 DEF Total

(* The totals of the subscriptions are totals.                             *)
LEMMA SubsTotal ==
    \A f : Subs!Units(f) = Units(f) /\ Subs!Total(f) = Total(f)
  BY DEF Subs!Units, Units, Subs!Total, Total, Subs!Cardinality, Cardinality
-----------------------------------------------------------------------------
(* Subscriptions.  Whoever is not active is past the period that was paid, *)
(* and what was paid is not past it.                                       *)
PeriodsKept ==
    /\ \A i \in SubIds : subs[i] # None =>
          /\ subs[i].end = subs[i].start + Period
          /\ subs[i].status # "active" => subs[i].end <= today
    /\ \A f \in ledger : /\ subs[f.sub] # None
                         /\ f.end = f.start + Period /\ f.end <= subs[f.sub].end

(* One that is not cancelled came after those of its owner that are.       *)
CurrentIsLast ==
    \A i, j \in SubIds :
        /\ i # j /\ subs[i] # None /\ subs[j] # None /\ Subs!SameOwner(i, j)
        /\ subs[i].status # "cancelled"
        => subs[j].end <= subs[i].start + Wait

RenewersKnow ==
    \A w \in Renewers :
        /\ renewer[w].at <= today
        /\ renewer[w].pc = "recover" => renewer[w].event \in credited

FiniteFees ==
    \A a \in Accounts : IsFiniteSet(Units(Subs!PaidIn(a)))
                        /\ IsFiniteSet(Units(Subs!FeesOf(a)))

Periods == /\ PeriodsKept /\ CurrentIsLast
           /\ Subs!PaidPeriodsDisjoint /\ Subs!ActiveIsPaid

Fees == Subs!FeesAccountForMoney /\ FiniteFees

PlusIInv == Subs!TypeOK /\ Periods /\ RenewersKnow /\ Fees

(* The account of the fees of a, with the totals of UsageSettlement.       *)
LEMMA FeesMean ==
    Fees <=> \A a \in Accounts :
        /\ Total(Subs!PaidIn(a)) = money[a] + Total(Subs!FeesOf(a))
        /\ IsFiniteSet(Units(Subs!PaidIn(a)))
        /\ IsFiniteSet(Units(Subs!FeesOf(a)))
  BY SubsTotal DEF Fees, FiniteFees, Subs!FeesAccountForMoney

LEMMA FeeTypes ==
    ASSUME Subs!TypeOK, NEW a \in Accounts,
           \A f \in ledger : subs[f.sub] # None
    PROVE  /\ Subs!PaidIn(a) \in [TopUps -> Nat]
           /\ Subs!FeesOf(a) \in [ledger -> Nat]
  <1>1. ASSUME NEW e \in TopUps PROVE TopUpOf[e].amount \in Nat
    BY PlusAssumption DEF Subs!SubscriptionsAssumption
  <1>2. ASSUME NEW f \in ledger PROVE Price[subs[f.sub].offer] \in Nat
    <2>1. subs[f.sub] \in Subs!Subscription
      BY DEF Subs!TypeOK
    <2>. QED BY <2>1, PlusAssumption
             DEF Subs!SubscriptionsAssumption, Subs!Subscription
  <1>. QED BY <1>1, <1>2 DEF Subs!PaidIn, Subs!FeesOf

(* What an account paid in does not go with the subscriptions, and its     *)
(* fees go with their owners and offers only.                              *)
LEMMA FeesKeep ==
    ASSUME Subs!TypeOK, PeriodsKept, Fees,
               UNCHANGED <<money, ledger, credited>>,
           \A f \in ledger : /\ subs'[f.sub].account = subs[f.sub].account
                             /\ subs'[f.sub].offer = subs[f.sub].offer
    PROVE  Fees'
  <1>1. ASSUME NEW a \in Accounts
        PROVE  /\ Subs!PaidIn(a)' = Subs!PaidIn(a)
               /\ Subs!FeesOf(a)' = Subs!FeesOf(a)
    BY DEF Subs!PaidIn, Subs!FeesOf
  <1>2. \A a \in Accounts :
        /\ Total(Subs!PaidIn(a)') = money'[a] + Total(Subs!FeesOf(a)')
        /\ IsFiniteSet(Units(Subs!PaidIn(a)'))
        /\ IsFiniteSet(Units(Subs!FeesOf(a)'))
    BY <1>1, FeesMean
  <1>. QED BY <1>2, SubsTotal DEF Fees, FiniteFees, Subs!FeesAccountForMoney

(* A change of the status of one subscription that is not paid for.        *)
LEMMA UnpaidKeeps ==
    ASSUME Subs!TypeOK, Periods, NEW id \in SubIds, subs[id] # None,
           NEW s \in Subs!Subscription, subs' = [subs EXCEPT ![id] = s],
           UNCHANGED <<ledger, today>>,
           /\ s.start = subs[id].start /\ s.end = subs[id].end
           /\ s.account = subs[id].account /\ s.offer = subs[id].offer,
           s.status = "active" => subs[id].status = "active",
           s.status # "cancelled" => subs[id].status # "cancelled",
           s.status # "active" => s.end <= today
    PROVE  Periods'
  <1>1. /\ \A i \in SubIds : subs'[i] = IF i = id THEN s ELSE subs[i]
        /\ s # None
    BY PlusAssumption DEF Subs!TypeOK, Subs!SubscriptionsAssumption
  <1>2. \A i \in SubIds : subs'[i] # None <=> subs[i] # None
    BY <1>1
  <1>3. \A i \in SubIds : subs[i] # None =>
            /\ subs'[i].start = subs[i].start /\ subs'[i].end = subs[i].end
            /\ subs'[i].account = subs[i].account
            /\ subs'[i].offer = subs[i].offer
            /\ subs'[i].status = "active" => subs[i].status = "active"
            /\ subs'[i].status # "cancelled" => subs[i].status # "cancelled"
            /\ subs'[i].status # "active" => subs'[i].end <= today
    BY <1>1 DEF Periods, PeriodsKept
  <1>4. \A f \in ledger : f.sub \in SubIds /\ subs[f.sub] # None
    BY DEF Subs!TypeOK, Periods, PeriodsKept
  <1>5. PeriodsKept'
    BY <1>2, <1>3, <1>4 DEF Periods, PeriodsKept
  <1>6. CurrentIsLast'
    BY <1>2, <1>3 DEF Periods, CurrentIsLast, Subs!SameOwner
  <1>7. Subs!PaidPeriodsDisjoint'
    BY <1>3, <1>4 DEF Periods, Subs!PaidPeriodsDisjoint, Subs!SameOwner
  <1>8. Subs!ActiveIsPaid'
    BY <1>2, <1>3 DEF Periods, Subs!ActiveIsPaid
  <1>. QED BY <1>5, <1>6, <1>7, <1>8 DEF Periods

(* The new period of one subscription, which begins when all that its      *)
(* owner paid for is over, or less than a wait before.                     *)
LEMMA PaidKeeps ==
    ASSUME Subs!TypeOK, Periods, NEW id \in SubIds,
           NEW s \in Subs!Subscription, subs' = [subs EXCEPT ![id] = s],
           UNCHANGED today, s.status = "active", s.end = s.start + Period,
           ledger' = ledger
               \cup {[sub |-> id, start |-> s.start, end |-> s.end]},
           subs[id] # None => /\ s.account = subs[id].account
                              /\ s.offer = subs[id].offer
                              /\ subs[id].end <= s.start + Wait,
           \A j \in SubIds :
               /\ j # id /\ subs[j] # None
               /\ subs[j].account = s.account /\ subs[j].offer = s.offer
               => subs[j].status = "cancelled" /\ subs[j].end <= s.start + Wait
    PROVE  /\ Periods' /\ s # None
           /\ [sub |-> id, start |-> s.start, end |-> s.end] \notin ledger
  <1>. DEFINE n == [sub |-> id, start |-> s.start, end |-> s.end]
  <1>1. /\ \A i \in SubIds : subs'[i] = IF i = id THEN s ELSE subs[i]
        /\ s # None
        /\ Period \in Nat \ {0} /\ s.start \in Nat /\ s.end \in Nat
        /\ Wait \in Nat /\ Wait < Period
    BY PlusAssumption
       DEF Subs!TypeOK, Subs!SubscriptionsAssumption, Subs!Subscription
  <1>2. \A f \in ledger :
          /\ f.sub \in SubIds /\ subs[f.sub] # None
          /\ f.start \in Nat /\ f.end \in Nat /\ subs[f.sub].end \in Nat
          /\ f.end = f.start + Period /\ f.end <= subs[f.sub].end
    BY DEF Subs!TypeOK, Periods, PeriodsKept, Subs!Subscription
  <1>3. \A f \in ledger : /\ subs'[f.sub].account = subs[f.sub].account
                          /\ subs'[f.sub].offer = subs[f.sub].offer
    BY <1>1, <1>2
  <1>4. \A f \in ledger :
          subs'[f.sub].account = s.account /\ subs'[f.sub].offer = s.offer
          => f.end <= s.start + Wait
    <2>. SUFFICES ASSUME NEW f \in ledger, subs[f.sub].account = s.account,
                         subs[f.sub].offer = s.offer
                  PROVE  f.end <= s.start + Wait
      BY <1>3
    <2>1. subs[f.sub].end <= s.start + Wait
      BY <1>2
    <2>. QED BY <1>1, <1>2, <2>1
  <1>5. n \notin ledger
    <2>1. SUFFICES ASSUME n \in ledger PROVE FALSE
      OBVIOUS
    <2>2. s.end <= s.start + Wait
      BY <1>1, <1>4, <2>1
    <2>. QED BY <1>1, <2>2
  <1>6. PeriodsKept'
    <2>1. ASSUME NEW i \in SubIds, subs'[i] # None
          PROVE  /\ subs'[i].end = subs'[i].start + Period
                 /\ subs'[i].status # "active" => subs'[i].end <= today
      BY <1>1, <2>1 DEF Periods, PeriodsKept
    <2>2. ASSUME NEW f \in ledger'
          PROVE  /\ subs'[f.sub] # None
                 /\ f.end = f.start + Period /\ f.end <= subs'[f.sub].end
      <3>1. CASE f = n
        BY <1>1, <3>1
      <3>2. CASE f \in ledger /\ f.sub # id
        BY <1>1, <1>2, <3>2
      <3>3. CASE f \in ledger /\ f.sub = id
        <4>1. f.end <= s.start + Wait
          BY <1>1, <1>3, <1>4, <3>3
        <4>. QED BY <1>1, <1>2, <3>3, <4>1
      <3>. QED BY <3>1, <3>2, <3>3
    <2>. QED BY <2>1, <2>2 DEF PeriodsKept
  <1>7. CurrentIsLast'
    <2>. SUFFICES ASSUME NEW i \in SubIds, NEW j \in SubIds, i # j,
                         subs'[i] # None, subs'[j] # None,
                         subs'[i].account = subs'[j].account,
                         subs'[i].offer = subs'[j].offer,
                         subs'[i].status # "cancelled"
                  PROVE  subs'[j].end <= subs'[i].start + Wait
      BY DEF CurrentIsLast, Subs!SameOwner
    <2>. QED BY <1>1 DEF Periods, CurrentIsLast, Subs!SameOwner
  <1>8. Subs!PaidPeriodsDisjoint'
    <2>. SUFFICES ASSUME NEW f \in ledger', NEW g \in ledger', f # g,
                         subs'[f.sub].account = subs'[g.sub].account,
                         subs'[f.sub].offer = subs'[g.sub].offer
                  PROVE  f.end <= g.start + Wait \/ g.end <= f.start + Wait
      BY DEF Subs!PaidPeriodsDisjoint, Subs!SameOwner
    <2>1. CASE f \in ledger /\ g \in ledger
      BY <1>3, <2>1 DEF Periods, Subs!PaidPeriodsDisjoint, Subs!SameOwner
    <2>2. CASE f = n /\ g \in ledger
      BY <1>1, <1>4, <2>2
    <2>3. CASE g = n /\ f \in ledger
      BY <1>1, <1>4, <2>3
    <2>. QED BY <2>1, <2>2, <2>3
  <1>9. Subs!ActiveIsPaid'
    BY <1>1 DEF Periods, Subs!ActiveIsPaid
  <1>. QED BY <1>1, <1>5, <1>6, <1>7, <1>8, <1>9 DEF Periods

(* A fee is an amount less in the balance and an entry more.               *)
LEMMA PaidFees ==
    ASSUME Subs!TypeOK, PeriodsKept, Fees, NEW id \in SubIds,
           NEW s \in Subs!Subscription, s # None,
           subs' = [subs EXCEPT ![id] = s],
           money[s.account] >= Price[s.offer], Subs!Charge(id, s),
           UNCHANGED credited,
           subs[id] # None => /\ s.account = subs[id].account
                              /\ s.offer = subs[id].offer,
           [sub |-> id, start |-> s.start, end |-> s.end] \notin ledger
    PROVE  Fees' /\ money' \in [Accounts -> Nat]
  <1>. DEFINE n == [sub |-> id, start |-> s.start, end |-> s.end]
              p == Price[s.offer]
  <1>1. /\ \A i \in SubIds : subs'[i] = IF i = id THEN s ELSE subs[i]
        /\ ledger' = ledger \cup {n}
        /\ money' = [money EXCEPT ![s.account] = @ - p]
        /\ n.sub = id /\ s.account \in Accounts /\ p \in Nat
        /\ money \in [Accounts -> Nat]
    BY PlusAssumption
       DEF Subs!Charge, Subs!TypeOK, Subs!SubscriptionsAssumption,
                          Subs!Subscription
  <1>2. \A f \in ledger : /\ f.sub \in SubIds /\ subs[f.sub] # None
                          /\ subs'[f.sub].account = subs[f.sub].account
                          /\ subs'[f.sub].offer = subs[f.sub].offer
    BY <1>1 DEF Subs!TypeOK, PeriodsKept
  <1>3. ASSUME NEW a \in Accounts
        PROVE  /\ Total(Subs!PaidIn(a)') = money'[a] + Total(Subs!FeesOf(a)')
               /\ IsFiniteSet(Units(Subs!PaidIn(a)'))
               /\ IsFiniteSet(Units(Subs!FeesOf(a)'))
    <2>. DEFINE f == Subs!FeesOf(a)
                g == Subs!FeesOf(a)'
                T == ledger \cup {n}
    <2>1. Subs!PaidIn(a)' = Subs!PaidIn(a)
      BY DEF Subs!PaidIn
    <2>2. f \in [ledger -> Nat] /\ Subs!PaidIn(a) \in [TopUps -> Nat]
      BY <1>2, FeeTypes
    <2>3. g = [e \in ledger \cup {n} |-> IF subs'[e.sub].account = a
                                         THEN Price[subs'[e.sub].offer] ELSE 0]
      BY <1>1 DEF Subs!FeesOf
    <2>4. \A e \in ledger : g[e] = f[e]
      BY <1>2, <2>3 DEF Subs!FeesOf
    <2>5. g[n] = IF s.account = a THEN p ELSE 0
      BY <1>1, <2>3
    <2>6. g \in [T -> Nat]
      <3>1. \A e \in ledger : g[e] \in Nat
        BY <2>2, <2>4
      <3>2. g[n] \in Nat
        BY <1>1, <2>5
      <3>. QED BY <2>3, <3>1, <3>2
    <2>7. /\ Total(Subs!PaidIn(a)) = money[a] + Total(f)
          /\ IsFiniteSet(Units(Subs!PaidIn(a))) /\ IsFiniteSet(Units(f))
      BY FeesMean
    <2>a. n \notin ledger /\ T = ledger \cup {n}
      OBVIOUS
    <2>b. IsFiniteSet(Units(f)) /\ f \in [ledger -> Nat]
      BY <2>2, <2>7
    <2>. HIDE DEF f, g, n, T
    <2>8. /\ IsFiniteSet(Units(g)) /\ Total(f) \in Nat
          /\ Total(g) = Total(f) + g[n]
      BY <2>a, <2>b, <2>4, <2>6, TotalAdd
    <2>9. money'[a] = money[a] - g[n] /\ money[a] \in Nat /\ g[n] \in Nat
      <3>1. p \in Nat /\ money[a] \in Nat
        BY <1>1
      <3>2. money'[a] = IF s.account = a THEN money[a] - p ELSE money[a]
        BY <1>1
      <3>. HIDE DEF p
      <3>. QED BY <2>5, <3>1, <3>2
    <2>10. Total(Subs!PaidIn(a)) = money'[a] + Total(g)
      <3>. HIDE DEF p
      <3>. QED BY <2>7, <2>8, <2>9
    <2>. QED BY <2>1, <2>7, <2>8, <2>10 DEF g
  <1>4. money' \in [Accounts -> Nat]
    BY <1>1
  <1>. QED BY <1>3, <1>4, SubsTotal
              DEF Fees, FiniteFees, Subs!FeesAccountForMoney

(* What is left of the invariant when subscriptions, fees and money stay.  *)
LEMMA NothingPaid ==
    ASSUME Subs!TypeOK, Periods, Fees,
               UNCHANGED <<subs, ledger, money, credited>>,
           today' \in Nat, today <= today'
    PROVE  Periods' /\ Fees'
  <1>1. \A i \in SubIds : subs[i] # None => subs[i].end \in Nat
    BY DEF Subs!TypeOK, Subs!Subscription
  <1>2. today \in Nat
    BY DEF Subs!TypeOK
  <1>3. PeriodsKept'
    BY <1>1, <1>2 DEF Periods, PeriodsKept
  <1>4. CurrentIsLast' /\ Subs!PaidPeriodsDisjoint' /\ Subs!ActiveIsPaid'
    BY DEF Periods, CurrentIsLast, Subs!PaidPeriodsDisjoint, Subs!ActiveIsPaid,
           Subs!SameOwner
  <1>5. Fees'
    BY FeesKeep DEF Periods
  <1>. QED BY <1>3, <1>4, <1>5 DEF Periods

LEMMA SubsTypes ==
    ASSUME Subs!TypeOK, NEW i \in SubIds, subs[i] # None
    PROVE  /\ subs[i] \in Subs!Subscription
           /\ subs[i].account \in Accounts /\ subs[i].offer \in Subs!Offers
           /\ subs[i].status \in {"active", "payment_due", "cancelled"}
           /\ subs[i].start \in Nat /\ subs[i].end \in Nat /\ today \in Nat
           /\ Period \in Nat \ {0}
           /\ subs[i] = [offer |-> subs[i].offer, account |-> subs[i].account,
                         status |-> subs[i].status, start |-> subs[i].start,
                         end |-> subs[i].end, cancelling |-> subs[i].cancelling]
  BY PlusAssumption
     DEF Subs!TypeOK, Subs!Subscription, Subs!SubscriptionsAssumption

(* The others of the owner of one that is not cancelled are.               *)
LEMMA OthersAreOver ==
    ASSUME Subs!TypeOK, Periods, NEW id \in SubIds, subs[id] # None,
           subs[id].status # "cancelled",
           NEW j \in SubIds, j # id, subs[j] # None,
           subs[j].account = subs[id].account, subs[j].offer = subs[id].offer
    PROVE  /\ subs[j].status = "cancelled" /\ subs[j].end <= today
           /\ subs[j].end <= subs[id].start + Wait
           /\ subs[id].start <= subs[id].end
  <1>1. /\ subs[id].start \in Nat /\ subs[id].end \in Nat
        /\ Period \in Nat \ {0}
        /\ subs[j].start \in Nat /\ subs[j].end \in Nat
        /\ Wait \in Nat /\ Wait < Period
    BY SubsTypes, PlusAssumption DEF Subs!SubscriptionsAssumption
  <1>2. /\ subs[id].end = subs[id].start + Period
        /\ subs[j].end = subs[j].start + Period
        /\ subs[j].status # "active" => subs[j].end <= today
    BY DEF Periods, PeriodsKept
  <1>3. subs[j].end <= subs[id].start + Wait
    BY DEF Periods, CurrentIsLast, Subs!SameOwner
  <1>4. subs[j].status = "cancelled"
    <2>1. SUFFICES ASSUME subs[j].status # "cancelled" PROVE FALSE
      OBVIOUS
    <2>2. subs[id].end <= subs[j].start + Wait
      BY <2>1 DEF Periods, CurrentIsLast, Subs!SameOwner
    <2>. QED BY <1>1, <1>2, <1>3, <2>2
  <1>. QED BY <1>1, <1>2, <1>3, <1>4
-----------------------------------------------------------------------------
LEMMA InitPlus == Subs!Init => PlusIInv
  <1>. SUFFICES ASSUME Subs!Init PROVE PlusIInv
    OBVIOUS
  <1>1. Subs!TypeOK
    BY PlusAssumption DEF Subs!Init, Subs!TypeOK, Subs!Idle, Subs!Worker,
                          Subs!SubscriptionsAssumption
  <1>2. Periods /\ RenewersKnow
    BY DEF Subs!Init, Periods, PeriodsKept, CurrentIsLast, RenewersKnow,
       Subs!Idle,
           Subs!PaidPeriodsDisjoint, Subs!ActiveIsPaid
  <1>3. Fees
    <2>. SUFFICES ASSUME NEW a \in Accounts
                  PROVE  /\ Total(Subs!PaidIn(a))
                                = money[a] + Total(Subs!FeesOf(a))
                         /\ IsFiniteSet(Units(Subs!PaidIn(a)))
                         /\ IsFiniteSet(Units(Subs!FeesOf(a)))
      BY FeesMean
    <2>1. /\ Subs!PaidIn(a) \in [TopUps -> Nat]
          /\ \A e \in TopUps : Subs!PaidIn(a)[e] = 0
      BY DEF Subs!Init, Subs!PaidIn
    <2>2. Subs!FeesOf(a) \in [{} -> Nat]
      BY DEF Subs!Init, Subs!FeesOf
    <2>3. IsFiniteSet(Units(Subs!PaidIn(a))) /\ Total(Subs!PaidIn(a)) = 0
      BY <2>1, TotalZero
    <2>4. IsFiniteSet(Units(Subs!FeesOf(a))) /\ Total(Subs!FeesOf(a)) = 0
      BY <2>2, TotalZero
    <2>5. money[a] = 0
      BY DEF Subs!Init
    <2>. QED BY <2>3, <2>4, <2>5
  <1>. QED BY <1>1, <1>2, <1>3 DEF PlusIInv

LEMMA SubscribeStep ==
    ASSUME PlusIInv, NEW a \in Accounts, NEW o \in Subs!Offers,
               NEW k \in SubKeys,
           Subs!Subscribe(a, o, k)
    PROVE  PlusIInv'
  <1>. DEFINE s == [offer |-> o, account |-> a, status |-> "active",
                    start |-> today, end |-> today + Period,
                        cancelling |-> FALSE]
  <1>1. PICK id \in SubIds :
          /\ subs[id] = None /\ Subs!CanPay(s) /\ Subs!Charge(id, s)
          /\ subs' = [subs EXCEPT ![id] = s]
    BY DEF Subs!Subscribe
  <1>2. /\ Subs!Current(a, o) = {}
        /\ seen' = seen \cup {<<a, o, "subscribe", k>>}
        /\ UNCHANGED <<today, credited, answered, renewer, deaths>>
    BY DEF Subs!Subscribe
  <1>3. /\ s \in Subs!Subscription /\ s.status = "active"
        /\ s.end = s.start + Period /\ s.account = a /\ s.offer = o
        /\ s.start = today /\ s.end \in Nat /\ s.start \in Nat
    BY PlusAssumption DEF PlusIInv, Subs!TypeOK, Subs!Subscription,
                          Subs!SubscriptionsAssumption
  <1>4. /\ Subs!TypeOK /\ Periods /\ PeriodsKept /\ Fees /\ RenewersKnow
        /\ money[s.account] >= Price[s.offer]
        /\ ledger' = ledger
               \cup {[sub |-> id, start |-> s.start, end |-> s.end]}
    BY <1>1 DEF PlusIInv, Periods, Subs!CanPay, Subs!Charge
  <1>. HIDE DEF s
  <1>5. ASSUME NEW j \in SubIds, subs[j] # None,
               subs[j].account = s.account, subs[j].offer = s.offer
        PROVE  subs[j].status = "cancelled" /\ subs[j].end <= s.start + Wait
    <2>1. subs[j].status \in {"active", "payment_due", "cancelled"}
      BY <1>4, <1>5, SubsTypes
    <2>2. subs[j].status = "cancelled"
      BY <1>2, <1>3, <1>5, <2>1 DEF Subs!Current, Subs!Owned
    <2>3. subs[j].end <= s.start
      BY <1>3, <1>4, <1>5, <2>2 DEF PeriodsKept
    <2>4. subs[j].end \in Nat /\ Wait \in Nat
      BY <1>4, <1>5, SubsTypes, PlusAssumption DEF Subs!SubscriptionsAssumption
    <2>. QED BY <1>3, <2>2, <2>3, <2>4
  <1>6. /\ Periods' /\ s # None
        /\ [sub |-> id, start |-> s.start, end |-> s.end] \notin ledger
    BY <1>1, <1>2, <1>3, <1>4, <1>5, PaidKeeps
  <1>7. Fees' /\ money' \in [Accounts -> Nat]
    BY <1>1, <1>2, <1>3, <1>4, <1>6, PaidFees
  <1>8. Subs!TypeOK'
    BY <1>1, <1>2, <1>3, <1>4, <1>7 DEF Subs!TypeOK
  <1>9. RenewersKnow'
    BY <1>2, <1>4 DEF RenewersKnow
  <1>. QED BY <1>6, <1>7, <1>8, <1>9 DEF PlusIInv

LEMMA CancelStep ==
    ASSUME PlusIInv, NEW a \in Accounts, NEW o \in Subs!Offers,
               NEW k \in SubKeys,
           Subs!Cancel(a, o, k)
    PROVE  PlusIInv'
  <1>1. PICK id \in Subs!Owned(a, o) :
          /\ subs[id].status # "cancelled"
          /\ subs' = [subs EXCEPT ![id].cancelling = TRUE]
    BY DEF Subs!Cancel
  <1>2. /\ seen' = seen \cup {<<a, o, "cancel", k>>}
        /\ UNCHANGED <<today, money, ledger, credited, answered, renewer,
               deaths>>
    BY DEF Subs!Cancel
  <1>. DEFINE s == [subs[id] EXCEPT !.cancelling = TRUE]
  <1>3. /\ Subs!TypeOK /\ Periods /\ PeriodsKept /\ Fees /\ RenewersKnow
        /\ id \in SubIds /\ subs[id] # None
    BY DEF PlusIInv, Periods, Subs!Owned
  <1>4. /\ s \in Subs!Subscription /\ subs' = [subs EXCEPT ![id] = s]
        /\ s.start = subs[id].start /\ s.end = subs[id].end
        /\ s.account = subs[id].account /\ s.offer = subs[id].offer
        /\ s.status = subs[id].status
    BY <1>1, <1>3, SubsTypes DEF Subs!Subscription
  <1>. HIDE DEF s
  <1>5. s.status # "active" => s.end <= today
    BY <1>3, <1>4 DEF PeriodsKept
  <1>6. Periods'
    BY <1>2, <1>3, <1>4, <1>5, UnpaidKeeps
  <1>7. Fees'
    <2>1. \A f \in ledger : f.sub \in SubIds
      BY <1>3 DEF Subs!TypeOK
    <2>2. \A i \in SubIds : subs'[i] = IF i = id THEN s ELSE subs[i]
      BY <1>3, <1>4 DEF Subs!TypeOK
    <2>. QED BY <1>2, <1>3, <1>4, <2>1, <2>2, FeesKeep
  <1>8. Subs!TypeOK'
    BY <1>2, <1>3, <1>4 DEF Subs!TypeOK
  <1>9. RenewersKnow'
    BY <1>2, <1>3 DEF RenewersKnow
  <1>. QED BY <1>6, <1>7, <1>8, <1>9 DEF PlusIInv

LEMMA IdleIsWorker == Subs!Idle \in Subs!Worker
  BY DEF Subs!Worker, Subs!Idle

LEMMA RenewerTypes ==
    ASSUME Subs!TypeOK, RenewersKnow, NEW w \in Renewers
    PROVE  /\ renewer[w] \in Subs!Worker /\ Subs!Idle \in Subs!Worker
           /\ renewer[w].at \in Nat /\ renewer[w].at <= today
           /\ renewer[w].todo \in SUBSET SubIds /\ today \in Nat
           /\ renewer[w].pc = "recover" => /\ renewer[w].event \in credited
                                           /\ renewer[w].event \in TopUps
  BY DEF Subs!TypeOK, RenewersKnow, Subs!Worker, Subs!Idle

(* A call that ends or goes on knows no more than it did.                  *)
LEMMA RenewerKeeps ==
    ASSUME Subs!TypeOK, RenewersKnow, NEW w \in Renewers, NEW r \in Subs!Worker,
           renewer' = [renewer EXCEPT ![w] = r], today' = today,
           credited \subseteq credited', r.at <= today,
           r.pc = "recover" => r.event \in credited'
    PROVE  /\ renewer' \in [Renewers -> Subs!Worker] /\ RenewersKnow'
  BY DEF Subs!TypeOK, RenewersKnow

LEMMA StartRenewalStep ==
    ASSUME PlusIInv, NEW w \in Renewers, NEW o \in Subs!Offers,
           Subs!StartSweep(w, o)
    PROVE  PlusIInv'
  <1>. DEFINE r == [Subs!Idle EXCEPT !.pc = "renew", !.at = today,
                                     !.todo = Subs!DueIds(o, today)]
  <1>1. /\ renewer' = [renewer EXCEPT ![w] = r]
        /\ UNCHANGED <<today, money, subs, seen, ledger, credited, answered,
               deaths>>
    BY DEF Subs!StartSweep
  <1>2. Subs!TypeOK /\ Periods /\ Fees /\ RenewersKnow /\ today \in Nat
    BY DEF PlusIInv, Subs!TypeOK
  <1>3. r \in Subs!Worker /\ r.at <= today /\ r.pc = "renew"
    <2>1. Subs!DueIds(o, today) \in SUBSET SubIds
      BY DEF Subs!DueIds
    <2>2. r = [Subs!Idle EXCEPT !.pc = "renew", !.at = today,
                                !.todo = Subs!DueIds(o, today)]
      OBVIOUS
    <2>3. today <= today
      BY <1>2
    <2>. HIDE DEF r
    <2>. QED BY <1>2, <2>1, <2>2, <2>3, IdleIsWorker DEF Subs!Worker
  <1>. HIDE DEF r
  <1>4. renewer' \in [Renewers -> Subs!Worker] /\ RenewersKnow'
    BY <1>1, <1>2, <1>3, RenewerKeeps
  <1>5. Subs!TypeOK'
    BY <1>1, <1>2, <1>4 DEF Subs!TypeOK
  <1>6. Periods' /\ Fees'
    BY <1>1, <1>2, NothingPaid
  <1>. QED BY <1>4, <1>5, <1>6 DEF PlusIInv

LEMMA RenewStep ==
    ASSUME PlusIInv, NEW w \in Renewers, NEW id \in SubIds, Subs!Renew(w, id)
    PROVE  PlusIInv'
  <1>. DEFINE s == subs[id]
              next == [s EXCEPT !.start = s.end, !.end = s.end + Period]
              due == Subs!Due(id, renewer[w].at)
  <1>1. /\ Subs!TypeOK /\ Periods /\ PeriodsKept /\ Fees /\ RenewersKnow
        /\ Subs!Continue(w, renewer[w].todo \ {id})
        /\ UNCHANGED <<today, seen, credited, answered, deaths>>
    BY DEF PlusIInv, Periods, Subs!Renew
  <1>2. /\ renewer[w] \in Subs!Worker /\ Subs!Idle \in Subs!Worker
        /\ renewer[w].at \in Nat /\ renewer[w].at <= today
        /\ renewer[w].todo \in SUBSET SubIds /\ today \in Nat
        /\ renewer[w].pc = "renew"
    BY <1>1, RenewerTypes DEF Subs!Renew
  <1>3. renewer' \in [Renewers -> Subs!Worker] /\ RenewersKnow'
    <2>. DEFINE r == IF renewer[w].todo \ {id} = {} THEN Subs!Idle
                     ELSE [renewer[w] EXCEPT !.todo = renewer[w].todo \ {id}]
    <2>1. renewer' = [renewer EXCEPT ![w] = r]
      BY <1>1 DEF Subs!Continue
    <2>2. r \in Subs!Worker /\ r.at <= today /\ r.pc # "recover"
      BY <1>2 DEF Subs!Worker, Subs!Idle
    <2>. HIDE DEF r
    <2>. QED BY <1>1, <2>1, <2>2, RenewerKeeps
  <1>4. CASE UNCHANGED <<subs, money, ledger>>
    <2>1. Periods' /\ Fees'
      BY <1>1, <1>2, <1>4, NothingPaid
    <2>2. Subs!TypeOK'
      BY <1>1, <1>3, <1>4 DEF Subs!TypeOK
    <2>. QED BY <1>3, <2>1, <2>2 DEF PlusIInv
  <1>5. ASSUME due, UNCHANGED <<money, ledger>>,
               NEW st \in {"cancelled", "payment_due"},
               subs' = [subs EXCEPT ![id].status = st]
        PROVE  PlusIInv'
    <2>. DEFINE t == [s EXCEPT !.status = st]
    <2>1. s # None /\ s.status = "active" /\ s.end <= renewer[w].at
      BY <1>5 DEF Subs!Due
    <2>2. /\ t \in Subs!Subscription /\ subs' = [subs EXCEPT ![id] = t]
          /\ t.start = s.start /\ t.end = s.end
          /\ t.account = s.account /\ t.offer = s.offer /\ t.status = st
          /\ t.end <= today
      <3>1. /\ s \in Subs!Subscription /\ s.end \in Nat
            /\ s = [offer |-> s.offer, account |-> s.account,
                   status |-> s.status,
                    start |-> s.start, end |-> s.end,
                        cancelling |-> s.cancelling]
        BY <1>1, <2>1, SubsTypes
      <3>2. subs' = [subs EXCEPT ![id] = t]
        BY <1>5
      <3>. HIDE DEF s
      <3>3. t = [offer |-> s.offer, account |-> s.account, status |-> st,
                 start |-> s.start, end |-> s.end, cancelling |-> s.cancelling]
        BY <3>1
      <3>. HIDE DEF t
      <3>4. s.end <= today
        BY <1>2, <2>1, <3>1
      <3>. QED BY <3>1, <3>2, <3>3, <3>4 DEF Subs!Subscription
    <2>. HIDE DEF t
    <2>3. Periods'
      BY <1>1, <1>5, <2>1, <2>2, UnpaidKeeps
    <2>4. Fees'
      <3>1. \A f \in ledger : f.sub \in SubIds
        BY <1>1 DEF Subs!TypeOK
      <3>2. \A i \in SubIds : subs'[i] = IF i = id THEN t ELSE subs[i]
        BY <1>1, <2>2 DEF Subs!TypeOK
      <3>. QED BY <1>1, <1>5, <2>2, <3>1, <3>2, FeesKeep
    <2>5. Subs!TypeOK'
      BY <1>1, <1>3, <1>5, <2>2 DEF Subs!TypeOK
    <2>. QED BY <1>3, <2>3, <2>4, <2>5 DEF PlusIInv
  <1>6. CASE /\ due /\ Subs!CanPay(s)
             /\ subs' = [subs EXCEPT ![id] = next] /\ Subs!Charge(id, next)
    <2>1. s # None /\ s.status = "active"
      BY <1>6 DEF Subs!Due
    <2>2. /\ next \in Subs!Subscription /\ next.status = "active"
          /\ next.start = s.end /\ next.end = next.start + Period
          /\ next.account = s.account /\ next.offer = s.offer
          /\ s.end \in Nat /\ s.start \in Nat
      <3>1. /\ s \in Subs!Subscription /\ s.end \in Nat /\ s.start \in Nat
            /\ Period \in Nat
        BY <1>1, <2>1, SubsTypes
      <3>2. s.end + Period \in Nat
        BY <3>1
      <3>. HIDE DEF s
      <3>3. /\ next \in Subs!Subscription /\ next.start = s.end
            /\ next.end = s.end + Period /\ next.status = s.status
            /\ next.account = s.account /\ next.offer = s.offer
        <4>1. next = [s EXCEPT !.start = s.end, !.end = s.end + Period]
          OBVIOUS
        <4>. HIDE DEF next
        <4>. QED BY <3>1, <3>2, <4>1 DEF Subs!Subscription
      <3>. HIDE DEF next
      <3>. QED BY <2>1, <3>1, <3>3
    <2>3. /\ money[next.account] >= Price[next.offer]
          /\ ledger' = ledger \cup
               {[sub |-> id, start |-> next.start, end |-> next.end]}
      BY <1>6, <2>2 DEF Subs!CanPay, Subs!Charge
    <2>. HIDE DEF next
    <2>4. ASSUME NEW j \in SubIds, j # id, subs[j] # None,
                 subs[j].account = next.account, subs[j].offer = next.offer
          PROVE  subs[j].status = "cancelled"
                     /\ subs[j].end <= next.start + Wait
      <3>1. /\ subs[j].status = "cancelled" /\ subs[j].end <= s.start + Wait
            /\ s.start <= s.end
        BY <1>1, <2>1, <2>2, <2>4, OthersAreOver
      <3>2. subs[j].end \in Nat
        BY <1>1, <2>4, SubsTypes
      <3>3. Wait \in Nat
        BY PlusAssumption DEF Subs!SubscriptionsAssumption
      <3>. QED BY <2>2, <3>1, <3>2, <3>3
    <2>5. /\ Periods' /\ next # None
          /\ [sub |-> id, start |-> next.start, end |-> next.end] \notin ledger
      <3>1. s.end <= next.start + Wait
        BY <2>2, PlusAssumption DEF Subs!SubscriptionsAssumption
      <3>. QED BY <1>1, <1>6, <2>2, <2>3, <2>4, <3>1, PaidKeeps
    <2>6. Fees' /\ money' \in [Accounts -> Nat]
      BY <1>1, <1>6, <2>2, <2>3, <2>5, PaidFees
    <2>7. Subs!TypeOK'
      <3>1. /\ next.start \in Nat /\ next.end \in Nat
            /\ subs' \in [SubIds -> Subs!Subscription \cup {None}]
        BY <1>1, <1>6, <2>2 DEF Subs!TypeOK, Subs!Subscription
      <3>2. ledger' \subseteq [sub : SubIds, start : Nat, end : Nat]
        BY <1>1, <2>3, <3>1 DEF Subs!TypeOK
      <3>. QED BY <1>1, <1>3, <2>6, <3>1, <3>2 DEF Subs!TypeOK
    <2>. QED BY <1>3, <2>5, <2>6, <2>7 DEF PlusIInv
  <1>. QED BY <1>4, <1>5, <1>6 DEF Subs!Renew

LEMMA DeliverStep ==
    ASSUME PlusIInv, NEW w \in Renewers, NEW e \in TopUps, Subs!Deliver(w, e)
    PROVE  PlusIInv'
  <1>. DEFINE r ==
           [Subs!Idle EXCEPT !.pc = "recover", !.at = today, !.event = e]
              n == TopUpOf[e].amount
              b == TopUpOf[e].account
  <1>1. /\ money' = IF e \in credited THEN money
                    ELSE [money EXCEPT ![b] = @ + n]
        /\ credited' = credited \cup {e}
        /\ renewer' = [renewer EXCEPT ![w] = r]
        /\ UNCHANGED <<today, subs, seen, ledger, answered, deaths>>
    BY DEF Subs!Deliver
  <1>2. /\ Subs!TypeOK /\ Periods /\ PeriodsKept /\ Fees /\ RenewersKnow
        /\ today \in Nat /\ money \in [Accounts -> Nat]
        /\ n \in Nat /\ b \in Accounts
    BY PlusAssumption
       DEF PlusIInv, Periods, Subs!TypeOK, Subs!SubscriptionsAssumption
  <1>3. r \in Subs!Worker /\ r.at <= today /\ r.event \in credited'
    <2>2. r \in Subs!Worker /\ r.at = today /\ r.event = e
      <3>1. r = [Subs!Idle EXCEPT !.pc = "recover", !.at = today, !.event = e]
        OBVIOUS
      <3>. HIDE DEF r
      <3>. QED BY <1>2, <3>1, IdleIsWorker DEF Subs!Worker
    <2>. HIDE DEF r
    <2>. QED BY <1>1, <1>2, <2>2
  <1>. HIDE DEF r
  <1>4. renewer' \in [Renewers -> Subs!Worker] /\ RenewersKnow'
    BY <1>1, <1>2, <1>3, RenewerKeeps
  <1>5. Subs!TypeOK'
    <2>1. money' \in [Accounts -> Nat]
      BY <1>1, <1>2
    <2>. QED BY <1>1, <1>2, <1>4, <2>1 DEF Subs!TypeOK
  <1>6. Periods'
    BY <1>1, <1>2 DEF Periods, PeriodsKept, CurrentIsLast,
       Subs!PaidPeriodsDisjoint, Subs!ActiveIsPaid, Subs!SameOwner
  <1>7. CASE e \in credited
    <2>1. credited' = credited /\ money' = money
      BY <1>1, <1>7
    <2>2. Fees'
      BY <1>1, <1>2, <2>1, FeesKeep
    <2>. QED BY <1>4, <1>5, <1>6, <2>2 DEF PlusIInv
  <1>8. CASE e \notin credited
    <2>1. ASSUME NEW a \in Accounts
          PROVE  /\ Total(Subs!PaidIn(a)') = money'[a] + Total(Subs!FeesOf(a)')
                 /\ IsFiniteSet(Units(Subs!PaidIn(a)'))
                 /\ IsFiniteSet(Units(Subs!FeesOf(a)'))
      <3>. DEFINE f == Subs!PaidIn(a)
                  g == Subs!PaidIn(a)'
      <3>1. Subs!FeesOf(a)' = Subs!FeesOf(a)
        BY <1>1 DEF Subs!FeesOf
      <3>2. /\ Total(f) = money[a] + Total(Subs!FeesOf(a))
            /\ IsFiniteSet(Units(f)) /\ IsFiniteSet(Units(Subs!FeesOf(a)))
        BY <1>2, FeesMean
      <3>3. f \in [TopUps -> Nat]
        BY <1>2, FeeTypes DEF PeriodsKept
      <3>4. g = [x \in TopUps |-> IF x \in credited \cup {e}
                /\ TopUpOf[x].account = a
                                  THEN TopUpOf[x].amount ELSE 0]
        BY <1>1 DEF Subs!PaidIn
      <3>5. /\ \A x \in TopUps : x # e => g[x] = f[x]
            /\ g[e] = (IF b = a THEN n ELSE 0) /\ f[e] = 0
        BY <1>8, <3>4 DEF Subs!PaidIn
      <3>6. g \in [TopUps -> Nat]
        <4>1. \A x \in TopUps : g[x] \in Nat
          BY <1>2, <3>3, <3>5
        <4>. QED BY <3>4, <4>1
      <3>. HIDE DEF f, g, n
      <3>7. /\ IsFiniteSet(Units(g)) /\ Total(f) \in Nat
            /\ Total(g) = Total(f) - f[e] + g[e]
        BY <3>2, <3>3, <3>5, <3>6, TotalUpdate
      <3>8. money'[a] = money[a] + g[e] /\ money[a] \in Nat /\ g[e] \in Nat
        <4>1. money'[a] = IF b = a THEN money[a] + n ELSE money[a]
          BY <1>1, <1>2, <1>8
        <4>2. money[a] \in Nat
          BY <1>2
        <4>. QED BY <1>2, <3>5, <4>1, <4>2
      <3>9. Total(g) = money'[a] + Total(Subs!FeesOf(a))
        <4>1. Total(Subs!FeesOf(a)) = Total(f) - money[a]
              /\ Total(Subs!FeesOf(a)) \in Int
          <5>1. Total(Subs!FeesOf(a)) \in Nat
            BY <3>2, FS_CardinalityType DEF Total
          <5>. QED BY <3>2, <3>7, <3>8, <5>1
        <4>. QED BY <3>5, <3>7, <3>8, <4>1
      <3>. QED BY <3>1, <3>2, <3>7, <3>9 DEF g
    <2>2. Fees'
      BY <2>1, SubsTotal DEF Fees, FiniteFees, Subs!FeesAccountForMoney
    <2>. QED BY <1>4, <1>5, <1>6, <2>2 DEF PlusIInv
  <1>. QED BY <1>7, <1>8

LEMMA RecoverStep ==
    ASSUME PlusIInv, NEW w \in Renewers, Subs!Recover(w)
    PROVE  PlusIInv'
  <1>. DEFINE e == renewer[w].event
              due == {s \in Subs!Owned(TopUpOf[e].account, "plus") :
                        subs[s].status = "payment_due"}
  <1>1. /\ Subs!TypeOK /\ Periods /\ PeriodsKept /\ Fees /\ RenewersKnow
        /\ renewer[w].pc = "recover" /\ answered' = answered \cup {e}
        /\ renewer' = [renewer EXCEPT ![w] = Subs!Idle]
        /\ UNCHANGED <<today, seen, credited, deaths>>
    BY DEF PlusIInv, Periods, Subs!Recover
  <1>2. today \in Nat /\ e \in credited
    BY <1>1 DEF Subs!TypeOK, RenewersKnow
  <1>3. renewer' \in [Renewers -> Subs!Worker] /\ RenewersKnow'
    <2>1. Subs!Idle.at <= today /\ Subs!Idle.pc # "recover"
      BY <1>2 DEF Subs!Idle
    <2>. QED BY <1>1, <2>1, IdleIsWorker, RenewerKeeps
  <1>4. answered' \subseteq credited'
    BY <1>1, <1>2 DEF Subs!TypeOK
  <1>5. CASE UNCHANGED <<subs, money, ledger>>
    <2>1. Periods' /\ Fees'
      BY <1>1, <1>2, <1>5, NothingPaid
    <2>2. Subs!TypeOK'
      BY <1>1, <1>3, <1>4, <1>5 DEF Subs!TypeOK
    <2>. QED BY <1>3, <2>1, <2>2 DEF PlusIInv
  <1>6. ASSUME NEW id \in SubIds, subs[id] # None,
               subs[id].status = "payment_due", UNCHANGED <<money, ledger>>,
               subs' = [subs EXCEPT ![id].status = "cancelled"]
        PROVE  PlusIInv'
    <2>. DEFINE s == subs[id]
                t == [s EXCEPT !.status = "cancelled"]
    <2>1. /\ t \in Subs!Subscription /\ subs' = [subs EXCEPT ![id] = t]
          /\ t.start = s.start /\ t.end = s.end
          /\ t.account = s.account /\ t.offer = s.offer
          /\ t.status = "cancelled" /\ t.end <= today
      <3>1. s \in Subs!Subscription /\ t = [s EXCEPT !.status = "cancelled"]
        BY <1>1, <1>6, SubsTypes
      <3>2. subs' = [subs EXCEPT ![id] = t]
        BY <1>6
      <3>3. s.end <= today
        BY <1>1, <1>6 DEF PeriodsKept
      <3>. HIDE DEF s, t
      <3>. QED BY <3>1, <3>2, <3>3 DEF Subs!Subscription
    <2>. HIDE DEF t
    <2>2. Periods'
      BY <1>1, <1>6, <2>1, UnpaidKeeps
    <2>3. Fees'
      <3>1. \A f \in ledger : f.sub \in SubIds
        BY <1>1 DEF Subs!TypeOK
      <3>2. \A i \in SubIds : subs'[i] = IF i = id THEN t ELSE subs[i]
        BY <1>1, <2>1 DEF Subs!TypeOK
      <3>. QED BY <1>1, <1>6, <2>1, <3>1, <3>2, FeesKeep
    <2>4. Subs!TypeOK'
      BY <1>1, <1>3, <1>4, <1>6, <2>1 DEF Subs!TypeOK
    <2>. QED BY <1>3, <2>2, <2>3, <2>4 DEF PlusIInv
  <1>7. ASSUME NEW id \in SubIds, NEW at \in renewer[w].at .. today,
               today <= at + Wait, subs[id] # None,
               subs[id].status = "payment_due", Subs!Recoverable(subs[id]),
               subs' = [subs EXCEPT ![id] = Subs!Recovered(subs[id], at)],
               Subs!Charge(id, Subs!Recovered(subs[id], at))
        PROVE  PlusIInv'
    <2>. DEFINE s == subs[id]
                t == Subs!Recovered(s, at)
    <2>a. at \in Nat /\ at <= today /\ Wait \in Nat
      <3>1. renewer[w].at \in Nat
        BY <1>1 DEF Subs!TypeOK, Subs!Worker
      <3>. QED BY <1>2, <3>1, PlusAssumption DEF Subs!SubscriptionsAssumption
    <2>1. /\ t \in Subs!Subscription /\ t.status = "active"
          /\ t.start = at /\ t.end = t.start + Period
          /\ t.account = s.account /\ t.offer = s.offer
          /\ s.end <= t.start + Wait /\ t.end \in Nat
      <3>1. /\ s \in Subs!Subscription
            /\ t = [s EXCEPT !.status = "active", !.start = at,
                             !.end = at + Period]
        BY <1>1, <1>7, SubsTypes DEF Subs!Recovered
      <3>2. at + Period \in Nat
        BY <2>a, PlusAssumption DEF Subs!SubscriptionsAssumption
      <3>3. s.end <= at + Wait
        <4>1. s.end <= today /\ s.end \in Nat
          BY <1>1, <1>7, SubsTypes DEF PeriodsKept
        <4>. QED BY <1>2, <1>7, <2>a, <4>1
      <3>. HIDE DEF s, t
      <3>. QED BY <2>a, <3>1, <3>2, <3>3 DEF Subs!Subscription
    <2>2. /\ subs' = [subs EXCEPT ![id] = t] /\ Subs!Charge(id, t)
          /\ money[t.account] >= Price[t.offer]
      BY <1>7, <2>1 DEF Subs!Recoverable, Subs!CanPay
    <2>. HIDE DEF t
    <2>3. ledger' = ledger \cup {[sub |-> id, start |-> t.start, end |-> t.end]}
      BY <2>2 DEF Subs!Charge
    <2>4. ASSUME NEW j \in SubIds, j # id, subs[j] # None,
                 subs[j].account = t.account, subs[j].offer = t.offer
          PROVE  subs[j].status = "cancelled" /\ subs[j].end <= t.start + Wait
      <3>1. subs[j].status = "cancelled" /\ subs[j].end <= today
        BY <1>1, <1>7, <2>1, <2>4, OthersAreOver
      <3>2. subs[j].end \in Nat
        BY <1>1, <2>4, SubsTypes
      <3>. QED BY <1>2, <1>7, <2>a, <2>1, <3>1, <3>2
    <2>5. /\ Periods' /\ t # None
          /\ [sub |-> id, start |-> t.start, end |-> t.end] \notin ledger
      BY <1>1, <2>1, <2>2, <2>3, <2>4, PaidKeeps
    <2>6. Fees' /\ money' \in [Accounts -> Nat]
      BY <1>1, <2>1, <2>2, <2>5, PaidFees
    <2>7. Subs!TypeOK'
      <3>1. t.start \in Nat
                /\ subs' \in [SubIds -> Subs!Subscription \cup {None}]
        BY <1>1, <1>2, <2>a, <2>1, <2>2 DEF Subs!TypeOK
      <3>2. ledger' \subseteq [sub : SubIds, start : Nat, end : Nat]
        BY <1>1, <2>1, <2>3, <3>1 DEF Subs!TypeOK
      <3>. QED BY <1>1, <1>3, <1>4, <2>6, <3>1, <3>2 DEF Subs!TypeOK
    <2>. QED BY <1>3, <2>5, <2>6, <2>7 DEF PlusIInv
  <1>8. ASSUME NEW id \in due,
               ~Subs!Recoverable(subs[id]), UNCHANGED <<money, ledger>>,
               subs' = IF subs[id].cancelling
                       THEN [subs EXCEPT ![id].status = "cancelled"] ELSE subs
        PROVE  PlusIInv'
    <2>1. id \in SubIds /\ subs[id] # None /\ subs[id].status = "payment_due"
      BY <1>8 DEF Subs!Owned
    <2>. QED BY <1>5, <1>6, <1>8, <2>1
  <1>9. ASSUME NEW id \in due, NEW at \in renewer[w].at .. today,
               today <= at + Wait, Subs!Recoverable(subs[id]),
               subs' = [subs EXCEPT ![id] = Subs!Recovered(@, at)],
               Subs!Charge(id, Subs!Recovered(subs[id], at))
        PROVE  PlusIInv'
    <2>1. id \in SubIds /\ subs[id] # None /\ subs[id].status = "payment_due"
      BY <1>9 DEF Subs!Owned
    <2>. QED BY <1>7, <1>9, <2>1
  <1>. QED
    <2>1. \/ UNCHANGED <<subs, money, ledger>>
          \/ \E at \in renewer[w].at .. today, id \in due :
               \/ /\ today <= at + Wait /\ Subs!Recoverable(subs[id])
                  /\ subs' = [subs EXCEPT ![id] = Subs!Recovered(@, at)]
                  /\ Subs!Charge(id, Subs!Recovered(subs[id], at))
               \/ /\ ~Subs!Recoverable(subs[id])
                  /\ subs' = IF subs[id].cancelling
                             THEN [subs EXCEPT ![id].status = "cancelled"]
                             ELSE subs
                  /\ UNCHANGED <<money, ledger>>
      BY DEF Subs!Recover
    <2>. HIDE DEF due
    <2>. QED BY <1>5, <1>8, <1>9, <2>1

LEMMA DeathStep ==
    ASSUME PlusIInv, NEW w \in Renewers, Subs!Crash(w) PROVE PlusIInv'
  <1>1. /\ Subs!TypeOK /\ Periods /\ Fees /\ RenewersKnow /\ today \in Nat
        /\ renewer' = [renewer EXCEPT ![w] = Subs!Idle]
        /\ deaths < MaxDeaths /\ deaths' = deaths + 1
        /\ UNCHANGED <<today, money, subs, seen, ledger, credited, answered>>
    BY DEF PlusIInv, Subs!TypeOK, Subs!Crash
  <1>2. Subs!Idle.at <= today /\ Subs!Idle.pc # "recover"
    BY <1>1 DEF Subs!Idle
  <1>3. renewer' \in [Renewers -> Subs!Worker] /\ RenewersKnow'
    BY <1>1, <1>2, IdleIsWorker, RenewerKeeps
  <1>4. deaths' \in 0 .. MaxDeaths
    BY <1>1, PlusAssumption DEF Subs!TypeOK, Subs!SubscriptionsAssumption
  <1>5. Subs!TypeOK'
    BY <1>1, <1>3, <1>4 DEF Subs!TypeOK
  <1>6. Periods' /\ Fees'
    BY <1>1, NothingPaid
  <1>. QED BY <1>3, <1>5, <1>6 DEF PlusIInv

LEMMA DayStep == ASSUME PlusIInv, Subs!Tick PROVE PlusIInv'
  <1>1. /\ Subs!TypeOK /\ Periods /\ Fees /\ RenewersKnow /\ today \in Nat
        /\ today' = today + 1
        /\ UNCHANGED <<money, subs, seen, ledger, credited, answered, renewer,
               deaths>>
    BY DEF PlusIInv, Subs!TypeOK, Subs!Tick
  <1>2. today' \in Nat /\ today <= today'
    BY <1>1
  <1>3. Subs!TypeOK'
    BY <1>1, <1>2 DEF Subs!TypeOK
  <1>4. RenewersKnow'
    <2>1. \A v \in Renewers : renewer[v].at \in Nat
      BY <1>1 DEF Subs!TypeOK, Subs!Worker
    <2>. QED BY <1>1, <1>2, <2>1 DEF RenewersKnow
  <1>5. Periods' /\ Fees'
    BY <1>1, <1>2, NothingPaid
  <1>. QED BY <1>3, <1>4, <1>5 DEF PlusIInv

LEMMA NextPlus == ASSUME PlusIInv, [Subs!Next]_subsVars PROVE PlusIInv'
  <1>1. CASE UNCHANGED subsVars
    <2>1. UNCHANGED <<today, money, subs, seen, ledger, credited, answered,
              renewer,
                      deaths>>
      BY <1>1 DEF subsVars
    <2>2. Subs!TypeOK' /\ RenewersKnow' /\ today \in Nat
      BY <2>1 DEF PlusIInv, Subs!TypeOK, RenewersKnow
    <2>3. Periods' /\ Fees'
      BY <2>1, <2>2, NothingPaid DEF PlusIInv
    <2>. QED BY <2>2, <2>3 DEF PlusIInv
  <1>2. CASE Subs!Next
    BY <1>2, SubscribeStep, CancelStep, StartRenewalStep, RenewStep,
       DeliverStep,
       RecoverStep, DeathStep, DayStep DEF Subs!Next
  <1>. QED BY <1>1, <1>2

(* With sweeps, payment events, requests and deaths interleaved: what an   *)
(* account paid in is its balance and one fee per ledger entry, no time of *)
(* an offer is paid for twice but for the wait of a recovery for the lease *)
(* of the billing store, and an active subscription has a fee for exactly  *)
(* its current period (XmclPlusService, SharedHostingService).             *)
THEOREM PlusHolds == MCSpec => []PlusInv
  <1>1. MCInit => PlusIInv
    BY InitPlus DEF MCInit
  <1>2. PlusIInv /\ [MCNext]_<<part, vars, orderVars, subsVars>> => PlusIInv'
    <2>1. [MCNext]_<<part, vars, orderVars, subsVars>> => [Subs!Next]_subsVars
      BY DEF MCNext, TopUpsNext
    <2>. QED BY <2>1, NextPlus
  <1>3. PlusIInv => PlusInv
    BY DEF PlusIInv, PlusInv, Periods, Fees
  <1>. QED BY <1>1, <1>2, <1>3, PTL DEF MCSpec
-----------------------------------------------------------------------------
(* Top-up orders.  A call works on an order that exists, and a sweep goes  *)
(* over such orders.                                                       *)
WorkersKnow ==
    \A w \in Workers :
        /\ worker[w].pc \in {"call", "finish", "failed"} =>
             worker[w].order \in OrderIds /\ orders[worker[w].order] # None
        /\ \A o \in worker[w].todo : orders[o] # None

KeysKnow ==
    \A s \in Accounts \X RequestKeys :
        idempotencies[s] # None => orders[idempotencies[s].order] # None

PaidInFull ==
    \A o \in OrderIds :
        orders[o] # None /\ orders[o].status = "completed"
            => orders[o].paidTotal > 0

Accounted(a) ==
    /\ credits[a] = Total(Orders!Paid(a)) - Total(Orders!Refunded(a))
         + Total(Orders!Applied(a, "balance_adjust"))
         - Total(Orders!Applied(a, "refund"))
    /\ IsFiniteSet(Units(Orders!Paid(a)))
    /\ IsFiniteSet(Units(Orders!Refunded(a)))
    /\ IsFiniteSet(Units(Orders!Applied(a, "balance_adjust")))
    /\ IsFiniteSet(Units(Orders!Applied(a, "refund")))

Credit == /\ Orders!RefundsProportional /\ PaidInFull
          /\ \A a \in Accounts : Accounted(a)

OrdersIInv == /\ Orders!TypeOK /\ WorkersKnow /\ KeysKnow
              /\ Orders!OneOrderPerRequest /\ Credit

LEMMA OrdersTotal ==
    \A f : Orders!Units(f) = Units(f) /\ Orders!Total(f) = Total(f)
  BY DEF Orders!Units, Units, Orders!Total, Total, Orders!Cardinality,
     Cardinality

LEMMA OrderTypes ==
    ASSUME Orders!TypeOK, NEW o \in OrderIds, orders[o] # None
    PROVE  /\ orders[o] \in Orders!Order
           /\ orders[o].account \in Accounts /\ orders[o].amount \in Amounts
           /\ orders[o].amount \in Nat /\ orders[o].amount > 0
           /\ orders[o].status \in {"pending", "completed"}
           /\ orders[o].paidTotal \in Nat
  <1>1. orders[o] \in Orders!Order
    BY DEF Orders!TypeOK
  <1>2. \A n \in Amounts : n \in Nat /\ n > 0
    BY TopUpsAssumption DEF Orders!OrdersAssumption
  <1>3. /\ orders[o].account \in Accounts /\ orders[o].amount \in Amounts
        /\ orders[o].status \in {"pending", "completed"}
        /\ orders[o].paidTotal \in Nat
    BY <1>1 DEF Orders!Order
  <1>. QED BY <1>1, <1>2, <1>3

LEMMA MoneyTypes ==
    ASSUME Orders!TypeOK, NEW a \in Accounts
    PROVE  /\ Orders!Paid(a) \in [OrderIds -> Nat]
           /\ Orders!Refunded(a) \in [OrderIds -> Nat]
           /\ Orders!Applied(a, "refund") \in [AdminOperations -> Nat]
           /\ Orders!Applied(a, "balance_adjust") \in [AdminOperations -> Nat]
           /\ credits[a] \in Int
  <1>1. \A o \in OrderIds : refunds[o].cash \in Nat
    BY DEF Orders!TypeOK
  <1>2. \A p \in AdminOperations : AdminOperationOf[p].amount \in Nat
    BY TopUpsAssumption DEF Orders!OrdersAssumption, Orders!AdminOperation
  <1>3. Orders!Paid(a) \in [OrderIds -> Nat]
    <2>1. \A o \in Orders!OrdersOf(a) : o \in OrderIds
              /\ orders[o].amount \in Nat
      BY OrderTypes DEF Orders!OrdersOf, Orders!Exists
    <2>. QED BY <2>1 DEF Orders!Paid
  <1>4. Orders!Refunded(a) \in [OrderIds -> Nat]
    BY <1>1 DEF Orders!Refunded
  <1>5. /\ Orders!Applied(a, "refund") \in [AdminOperations -> Nat]
        /\ Orders!Applied(a, "balance_adjust") \in [AdminOperations -> Nat]
    BY <1>2 DEF Orders!Applied
  <1>. QED BY <1>3, <1>4, <1>5 DEF Orders!TypeOK

(* An account when one order is paid or refunded.                          *)
LEMMA OneOrder ==
    ASSUME Orders!TypeOK, NEW a \in Accounts, Accounted(a), NEW o \in OrderIds,
           UNCHANGED adminOperations,
           Orders!Paid(a)'[o] \in Nat, Orders!Refunded(a)'[o] \in Nat,
           \A y \in OrderIds : y # o =>
              /\ Orders!Paid(a)'[y] = Orders!Paid(a)[y]
              /\ Orders!Refunded(a)'[y] = Orders!Refunded(a)[y],
           credits'[a] = credits[a]
             + (Orders!Paid(a)'[o] - Orders!Paid(a)[o])
             - (Orders!Refunded(a)'[o] - Orders!Refunded(a)[o])
    PROVE  Accounted(a)'
  <1>. DEFINE f == Orders!Paid(a)
              g == Orders!Paid(a)'
              h == Orders!Refunded(a)
              k == Orders!Refunded(a)'
              x == Total(Orders!Applied(a, "balance_adjust"))
              y == Total(Orders!Applied(a, "refund"))
  <1>1. f \in [OrderIds -> Nat] /\ h \in [OrderIds -> Nat] /\ credits[a] \in Int
    BY MoneyTypes
  <1>2. /\ credits[a] = Total(f) - Total(h) + x - y
        /\ IsFiniteSet(Units(f)) /\ IsFiniteSet(Units(h))
        /\ IsFiniteSet(Units(Orders!Applied(a, "balance_adjust")))
        /\ IsFiniteSet(Units(Orders!Applied(a, "refund")))
    BY DEF Accounted
  <1>3. /\ Orders!Applied(a, "balance_adjust")'
               = Orders!Applied(a, "balance_adjust")
        /\ Orders!Applied(a, "refund")' = Orders!Applied(a, "refund")
    BY DEF Orders!Applied
  <1>4. g \in [OrderIds -> Nat] /\ k \in [OrderIds -> Nat]
    <2>1. \A z \in OrderIds : g[z] \in Nat /\ k[z] \in Nat
      BY <1>1
    <2>2. /\ g = [z \in OrderIds |-> g[z]] /\ k = [z \in OrderIds |-> k[z]]
      BY DEF Orders!Paid, Orders!Refunded
    <2>. HIDE DEF g, k
    <2>. QED BY <2>1, <2>2
  <1>5. x \in Nat /\ y \in Nat
    BY <1>2, FS_CardinalityType DEF Total
  <1>6. credits'[a] = credits[a] + (g[o] - f[o]) - (k[o] - h[o])
    OBVIOUS
  <1>7. /\ \A z \in OrderIds : z # o => g[z] = f[z]
        /\ \A z \in OrderIds : z # o => k[z] = h[z]
    OBVIOUS
  <1>8. /\ x' = x /\ y' = y
    BY <1>3
  <1>. HIDE DEF f, g, h, k
  <1>9. /\ IsFiniteSet(Units(g)) /\ Total(f) \in Nat /\ Total(g) \in Nat
        /\ Total(g) = Total(f) - f[o] + g[o]
    BY <1>1, <1>2, <1>4, <1>7, TotalUpdate
  <1>10. /\ IsFiniteSet(Units(k)) /\ Total(h) \in Nat /\ Total(k) \in Nat
         /\ Total(k) = Total(h) - h[o] + k[o]
    <2>1. /\ h \in [OrderIds -> Nat] /\ k \in [OrderIds -> Nat]
          /\ IsFiniteSet(Units(h)) /\ \A z \in OrderIds : z # o => k[z] = h[z]
      BY <1>1, <1>2, <1>4, <1>7
    <2>. QED BY <2>1, TotalUpdate
  <1>11. f[o] \in Nat /\ g[o] \in Nat /\ h[o] \in Nat /\ k[o] \in Nat
    BY <1>1, <1>4
  <1>12. credits'[a] = Total(g) - Total(k) + x - y
    <2>. HIDE DEF x, y
    <2>. QED BY <1>2, <1>5, <1>6, <1>9, <1>10, <1>11
  <1>. QED BY <1>2, <1>3, <1>9, <1>10, <1>12 DEF Accounted, g, k

(* An account when an operation is applied to it.                          *)
LEMMA OneOperation ==
    ASSUME Orders!TypeOK, NEW a \in Accounts, Accounted(a),
           NEW p \in AdminOperations, UNCHANGED <<orders, refunds>>,
           Orders!Applied(a, "balance_adjust")'[p] \in Nat,
           Orders!Applied(a, "refund")'[p] \in Nat,
           \A y \in AdminOperations : y # p =>
              /\ Orders!Applied(a, "balance_adjust")'[y]
                   = Orders!Applied(a, "balance_adjust")[y]
              /\ Orders!Applied(a, "refund")'[y]
                     = Orders!Applied(a, "refund")[y],
           credits'[a] = credits[a]
             + (Orders!Applied(a, "balance_adjust")'[p]
                  - Orders!Applied(a, "balance_adjust")[p])
             - (Orders!Applied(a, "refund")'[p] - Orders!Applied(a,
                 "refund")[p])
    PROVE  Accounted(a)'
  <1>. DEFINE f == Orders!Applied(a, "balance_adjust")
              g == Orders!Applied(a, "balance_adjust")'
              h == Orders!Applied(a, "refund")
              k == Orders!Applied(a, "refund")'
              x == Total(Orders!Paid(a))
              y == Total(Orders!Refunded(a))
  <1>1. /\ f \in [AdminOperations -> Nat] /\ h \in [AdminOperations -> Nat]
        /\ credits[a] \in Int
    BY MoneyTypes
  <1>2. /\ credits[a] = x - y + Total(f) - Total(h)
        /\ IsFiniteSet(Units(f)) /\ IsFiniteSet(Units(h))
        /\ IsFiniteSet(Units(Orders!Paid(a)))
        /\ IsFiniteSet(Units(Orders!Refunded(a)))
    BY DEF Accounted
  <1>3. Orders!Paid(a)' = Orders!Paid(a)
            /\ Orders!Refunded(a)' = Orders!Refunded(a)
    BY DEF Orders!Paid, Orders!Refunded, Orders!OrdersOf, Orders!Exists
  <1>4. g \in [AdminOperations -> Nat] /\ k \in [AdminOperations -> Nat]
    <2>1. \A z \in AdminOperations : g[z] \in Nat /\ k[z] \in Nat
      BY <1>1
    <2>2. /\ g = [z \in AdminOperations |-> g[z]]
          /\ k = [z \in AdminOperations |-> k[z]]
      BY DEF Orders!Applied
    <2>. HIDE DEF g, k
    <2>. QED BY <2>1, <2>2
  <1>5. x \in Nat /\ y \in Nat
    BY <1>2, FS_CardinalityType DEF Total
  <1>6. credits'[a] = credits[a] + (g[p] - f[p]) - (k[p] - h[p])
    OBVIOUS
  <1>7. /\ \A z \in AdminOperations : z # p => g[z] = f[z]
        /\ \A z \in AdminOperations : z # p => k[z] = h[z]
    OBVIOUS
  <1>. HIDE DEF f, g, h, k
  <1>9. /\ IsFiniteSet(Units(g)) /\ Total(f) \in Nat /\ Total(g) \in Nat
        /\ Total(g) = Total(f) - f[p] + g[p]
    BY <1>1, <1>2, <1>4, <1>7, TotalUpdate
  <1>10. /\ IsFiniteSet(Units(k)) /\ Total(h) \in Nat /\ Total(k) \in Nat
         /\ Total(k) = Total(h) - h[p] + k[p]
    <2>1. /\ h \in [AdminOperations -> Nat] /\ k \in [AdminOperations -> Nat]
          /\ IsFiniteSet(Units(h)) /\ \A z \in AdminOperations : z # p
                 => k[z] = h[z]
      BY <1>1, <1>2, <1>4, <1>7
    <2>. QED BY <2>1, TotalUpdate
  <1>11. f[p] \in Nat /\ g[p] \in Nat /\ h[p] \in Nat /\ k[p] \in Nat
    BY <1>1, <1>4
  <1>12. credits'[a] = x - y + Total(g) - Total(k)
    <2>. HIDE DEF x, y
    <2>. QED BY <1>2, <1>5, <1>6, <1>9, <1>10, <1>11
  <1>. QED BY <1>2, <1>3, <1>9, <1>10, <1>12 DEF Accounted, g, k

(* What a step that is not about money leaves of the orders.               *)
SameTerms ==
    /\ orders' \in [OrderIds -> Orders!Order \cup {None}]
    /\ \A o \in OrderIds : orders'[o] # None <=> orders[o] # None
    /\ \A o \in OrderIds : orders[o] # None =>
          /\ orders'[o].account = orders[o].account
          /\ orders'[o].amount = orders[o].amount
          /\ orders'[o].status = orders[o].status
          /\ orders'[o].paidTotal = orders[o].paidTotal
          /\ orders[o].providerOrderId # None =>
                orders'[o].providerOrderId = orders[o].providerOrderId
    /\ UNCHANGED <<credits, refunds, adminOperations, webhookEventIds,
                   idempotencies>>

(* The work a worker goes over to: on orders that exist, and which nobody  *)
(* else can still be at.                                                   *)
WorkOf(w, r) ==
    /\ r \in Orders!Worker /\ worker' = [worker EXCEPT ![w] = r]
    /\ \A o \in r.todo : orders'[o] # None
    /\ r.pc \in {"call", "finish", "failed"} =>
          r.order \in OrderIds /\ orders'[r.order] # None
    /\ r.pc = "call" => \/ orders[r.order] = None
                        \/ Orders!Claimable(orders[r.order])

LEMMA SameTermsKeep ==
    ASSUME OrdersIInv, SameTerms
    PROVE  /\ KeysKnow' /\ Orders!OneOrderPerRequest' /\ Credit'
           /\ Orders!CheckoutStays
  <1>1. /\ Orders!TypeOK /\ KeysKnow /\ Orders!OneOrderPerRequest
        /\ Orders!RefundsProportional /\ PaidInFull
        /\ \A a \in Accounts : Accounted(a)
    BY DEF OrdersIInv, Credit
  <1>2. KeysKnow'
    <2>1. ASSUME NEW s \in Accounts \X RequestKeys, idempotencies[s] # None
          PROVE  idempotencies[s].order \in OrderIds
      BY <1>1, <2>1 DEF Orders!TypeOK
    <2>. QED BY <1>1, <2>1 DEF SameTerms, KeysKnow
  <1>3. Orders!OneOrderPerRequest'
    BY <1>1 DEF SameTerms, Orders!OneOrderPerRequest, Orders!Exists
  <1>4. PaidInFull'
    BY <1>1 DEF SameTerms, PaidInFull
  <1>5. Orders!RefundsProportional'
    <2>1. ASSUME NEW o \in OrderIds, orders[o] # None, NEW n
          PROVE  Orders!CumulativeCash(orders'[o], n)
                   = Orders!CumulativeCash(orders[o], n)
      BY <2>1 DEF SameTerms, Orders!CumulativeCash
    <2>. QED BY <1>1, <2>1
                DEF SameTerms, Orders!RefundsProportional, Orders!Exists
  <1>6. ASSUME NEW a \in Accounts PROVE Accounted(a)'
    <2>1. Orders!OrdersOf(a)' = Orders!OrdersOf(a)
      BY DEF SameTerms, Orders!OrdersOf, Orders!Exists
    <2>2. /\ Orders!Paid(a)' = Orders!Paid(a)
          /\ Orders!Refunded(a)' = Orders!Refunded(a)
          /\ Orders!Applied(a, "refund")' = Orders!Applied(a, "refund")
          /\ Orders!Applied(a, "balance_adjust")'
               = Orders!Applied(a, "balance_adjust")
      <3>1. \A o \in Orders!OrdersOf(a) : orders[o] # None /\ o \in OrderIds
        BY DEF Orders!OrdersOf, Orders!Exists
      <3>. QED BY <2>1, <3>1
               DEF SameTerms, Orders!Paid, Orders!Refunded, Orders!Applied
    <2>3. credits' = credits /\ Accounted(a)
      BY <1>1 DEF SameTerms
    <2>. QED BY <2>2, <2>3 DEF Accounted
  <1>7. Orders!CheckoutStays
    BY DEF SameTerms, Orders!CheckoutStays, Orders!Exists
  <1>. QED BY <1>2, <1>3, <1>4, <1>5, <1>6, <1>7 DEF Credit

LEMMA WorkKeeps ==
    ASSUME OrdersIInv, NEW w \in Workers, NEW r, WorkOf(w, r),
           \A o \in OrderIds : orders[o] # None => orders'[o] # None
    PROVE  /\ worker' \in [Workers -> Orders!Worker] /\ WorkersKnow'
           /\ Orders!ClaimsDoNotOverlap
  <1>1. /\ worker \in [Workers -> Orders!Worker] /\ WorkersKnow
        /\ \A v \in Workers : worker[v].todo \in SUBSET OrderIds
    BY DEF OrdersIInv, Orders!TypeOK, Orders!Worker
  <1>2. \A v \in Workers : worker'[v] = IF v = w THEN r ELSE worker[v]
    BY <1>1 DEF WorkOf
  <1>3. WorkersKnow'
    <2>1. ASSUME NEW v \in Workers, v # w
          PROVE  /\ worker'[v].pc \in {"call", "finish", "failed"} =>
                       worker'[v].order \in OrderIds
                       /\ orders'[worker'[v].order] # None
                 /\ \A o \in worker'[v].todo : orders'[o] # None
      BY <1>1, <1>2, <2>1 DEF WorkersKnow
    <2>2. /\ worker'[w].pc \in {"call", "finish", "failed"} =>
                worker'[w].order \in OrderIds
                    /\ orders'[worker'[w].order] # None
          /\ \A o \in worker'[w].todo : orders'[o] # None
      BY <1>2 DEF WorkOf
    <2>. QED BY <2>1, <2>2 DEF WorkersKnow
  <1>4. Orders!ClaimsDoNotOverlap
    <2>. SUFFICES ASSUME NEW u \in Workers, NEW v \in Workers, u # v,
                         worker[u].pc \in {"call", "finish", "failed"},
                         orders[worker[u].order].attempt = u,
                         worker'[v].pc = "call",
                         worker'[v].order = worker[u].order,
                         worker[v] # worker'[v]
                  PROVE  orders[worker[u].order].age >= Recovery
      BY DEF Orders!ClaimsDoNotOverlap
    <2>1. v = w /\ worker'[v] = r
      BY <1>2
    <2>2. orders[worker[u].order] # None
      BY <1>1 DEF WorkersKnow
    <2>3. Orders!Claimable(orders[worker[u].order])
      BY <2>1, <2>2 DEF WorkOf
    <2>4. u # None
      BY TopUpsAssumption DEF Orders!OrdersAssumption
    <2>. QED BY <2>3, <2>4
             DEF Orders!Claimable, Orders!CanRecoverProviderCreation
  <1>. QED BY <1>1, <1>3, <1>4 DEF WorkOf

(* Steps that only move a claim, and a worker with it.                     *)
LEMMA ClaimMoves ==
    ASSUME OrdersIInv, SameTerms, NEW w \in Workers, NEW r, WorkOf(w, r),
           sessions' \in [OrderIds -> 0 .. MaxSessions],
           crashes' \in 0 .. MaxCrashes
    PROVE  OrdersIInv' /\ Orders!ClaimsDoNotOverlap /\ Orders!CheckoutStays
  <1>1. \A o \in OrderIds : orders[o] # None => orders'[o] # None
    BY DEF SameTerms
  <1>2. /\ worker' \in [Workers -> Orders!Worker] /\ WorkersKnow'
        /\ Orders!ClaimsDoNotOverlap
    BY <1>1, WorkKeeps
  <1>3. /\ KeysKnow' /\ Orders!OneOrderPerRequest' /\ Credit'
        /\ Orders!CheckoutStays
    BY SameTermsKeep
  <1>4. Orders!TypeOK'
    BY <1>2 DEF OrdersIInv, Orders!TypeOK, SameTerms
  <1>. QED BY <1>2, <1>3, <1>4 DEF OrdersIInv

(* When no worker moves.                                                   *)
LEMMA WorkersStay ==
    ASSUME OrdersIInv, UNCHANGED worker,
           \A o \in OrderIds : orders[o] # None => orders'[o] # None
    PROVE  /\ worker' \in [Workers -> Orders!Worker] /\ WorkersKnow'
           /\ Orders!ClaimsDoNotOverlap
  <1>1. /\ worker \in [Workers -> Orders!Worker] /\ WorkersKnow
        /\ \A v \in Workers : worker[v].todo \in SUBSET OrderIds
    BY DEF OrdersIInv, Orders!TypeOK, Orders!Worker
  <1>2. WorkersKnow'
    BY <1>1 DEF WorkersKnow
  <1>. QED BY <1>1, <1>2 DEF Orders!ClaimsDoNotOverlap

LEMMA RoundZero ==
    ASSUME NEW n \in Nat, NEW y \in Nat \ {0}
    PROVE  Orders!Round(0 * n, y) = 0
  BY DEF Orders!Round

LEMMA RoundInt ==
    ASSUME NEW x \in Nat, NEW y \in Nat \ {0}
    PROVE  Orders!Round(x, y) \in Int
  BY DEF Orders!Round

LEMMA ClaimedTerms ==
    ASSUME NEW x \in Orders!Order, NEW w \in Workers
    PROVE  LET y == Orders!Claimed(x, w) IN
           /\ y \in Orders!Order /\ y # None
           /\ y.account = x.account /\ y.amount = x.amount
           /\ y.status = x.status /\ y.paidTotal = x.paidTotal
           /\ y.providerOrderId = x.providerOrderId
  <1>1. Orders!Claimed(x, w) \in Orders!Order
    <2>1. 0 \in 0 .. Recovery
      BY TopUpsAssumption DEF Orders!OrdersAssumption
    <2>. QED BY <2>1 DEF Orders!Order, Orders!Claimed
  <1>2. None \notin Orders!Order
    BY TopUpsAssumption DEF Orders!OrdersAssumption
  <1>. QED BY <1>1, <1>2 DEF Orders!Order, Orders!Claimed

(* An order claimed for another attempt.                                   *)
LEMMA ClaimOne ==
    ASSUME Orders!TypeOK, NEW o \in OrderIds, orders[o] # None,
           NEW w \in Workers,
           orders' = [orders EXCEPT ![o] = Orders!Claimed(orders[o], w)],
           UNCHANGED <<credits, refunds, adminOperations, webhookEventIds,
                       idempotencies>>
    PROVE  SameTerms
  <1>. DEFINE y == Orders!Claimed(orders[o], w)
  <1>1. orders \in [OrderIds -> Orders!Order \cup {None}]
    BY DEF Orders!TypeOK
  <1>2. /\ y \in Orders!Order /\ y # None
        /\ y.account = orders[o].account /\ y.amount = orders[o].amount
        /\ y.status = orders[o].status /\ y.paidTotal = orders[o].paidTotal
        /\ y.providerOrderId = orders[o].providerOrderId
    BY <1>1, ClaimedTerms
  <1>3. orders' = [orders EXCEPT ![o] = y]
    OBVIOUS
  <1>. HIDE DEF y
  <1>4. \A i \in OrderIds : orders'[i] = IF i = o THEN y ELSE orders[i]
    BY <1>1, <1>3
  <1>5. orders' \in [OrderIds -> Orders!Order \cup {None}]
    BY <1>1, <1>2, <1>3
  <1>. QED BY <1>2, <1>4, <1>5 DEF SameTerms

(* A change of one order that leaves its terms alone.                      *)
LEMMA ChangeOne ==
    ASSUME Orders!TypeOK, NEW o \in OrderIds, orders[o] # None,
           NEW y \in Orders!Order, orders' = [orders EXCEPT ![o] = y],
           /\ y.account = orders[o].account /\ y.amount = orders[o].amount
           /\ y.status = orders[o].status /\ y.paidTotal = orders[o].paidTotal
           /\ orders[o].providerOrderId # None =>
                 y.providerOrderId = orders[o].providerOrderId,
           UNCHANGED <<credits, refunds, adminOperations, webhookEventIds,
                       idempotencies>>
    PROVE  SameTerms
  <1>1. /\ orders \in [OrderIds -> Orders!Order \cup {None}] /\ y # None
    BY TopUpsAssumption DEF Orders!TypeOK, Orders!OrdersAssumption
  <1>2. \A i \in OrderIds : orders'[i] = IF i = o THEN y ELSE orders[i]
    BY <1>1
  <1>3. orders' \in [OrderIds -> Orders!Order \cup {None}]
    BY <1>1
  <1>. QED BY <1>1, <1>2, <1>3 DEF SameTerms

LEMMA NothingMoves ==
    ASSUME Orders!TypeOK,
           UNCHANGED <<orders, credits, refunds, adminOperations,
               webhookEventIds,
                       idempotencies>>
    PROVE  SameTerms
  BY DEF Orders!TypeOK, SameTerms

LEMMA WorkerTypes ==
    ASSUME OrdersIInv, NEW w \in Workers
    PROVE  /\ Orders!TypeOK /\ Orders!Idle \in Orders!Worker
           /\ worker[w] \in Orders!Worker
           /\ worker[w].todo \in SUBSET OrderIds
           /\ \A o \in worker[w].todo : orders[o] # None
           /\ worker[w].pc \in {"call", "finish", "failed"} =>
                 worker[w].order \in OrderIds /\ orders[worker[w].order] # None
  <1>1. worker[w] \in Orders!Worker /\ WorkersKnow
    BY DEF OrdersIInv, Orders!TypeOK
  <1>. QED BY <1>1 DEF OrdersIInv, WorkersKnow, Orders!Worker, Orders!Idle

(* The next candidate of a sweep.                                          *)
LEMMA NextWork ==
    ASSUME OrdersIInv, SameTerms, NEW w \in Workers,
           NEW todo \in SUBSET worker[w].todo, Orders!NextCandidate(w, todo)
    PROVE  \E r : WorkOf(w, r)
  <1>. DEFINE r == IF todo = {} THEN Orders!Idle
                   ELSE [Orders!Idle EXCEPT !.pc = "sweep", !.todo = todo]
  <1>1. worker' = [worker EXCEPT ![w] = r]
    BY DEF Orders!NextCandidate
  <1>2. /\ Orders!Idle \in Orders!Worker /\ worker[w].todo \in SUBSET OrderIds
        /\ \A o \in worker[w].todo : orders'[o] # None
    BY WorkerTypes DEF SameTerms
  <1>3. /\ r \in Orders!Worker /\ r.pc \in {"idle", "sweep"}
        /\ r.todo \in SUBSET worker[w].todo
    <2>1. CASE todo = {}
      BY <1>2, <2>1 DEF Orders!Idle
    <2>2. CASE todo # {}
      <3>1. r = [Orders!Idle EXCEPT !.pc = "sweep", !.todo = todo]
        BY <2>2
      <3>. HIDE DEF r
      <3>. QED BY <1>2, <3>1 DEF Orders!Worker
    <2>. QED BY <2>1, <2>2
  <1>. HIDE DEF r
  <1>4. WorkOf(w, r)
    BY <1>1, <1>2, <1>3 DEF WorkOf
  <1>. QED BY <1>4

(* A call for an order that exists and was claimable.                      *)
LEMMA CallWork ==
    ASSUME OrdersIInv, NEW w \in Workers, NEW o \in OrderIds,
           orders'[o] # None, NEW b \in BOOLEAN, NEW todo \in SUBSET OrderIds,
           \A i \in todo : orders'[i] # None, Orders!StartCall(w, o, b, todo),
           orders[o] = None \/ Orders!Claimable(orders[o])
    PROVE  \E r : WorkOf(w, r)
  <1>. DEFINE r == [pc |-> "call", order |-> o, session |-> 0, sweep |-> b,
                    todo |-> todo]
  <1>1. worker' = [worker EXCEPT ![w] = r]
    BY DEF Orders!StartCall
  <1>2. /\ r \in Orders!Worker /\ r.pc = "call" /\ r.order = o /\ r.todo = todo
    BY DEF Orders!Worker
  <1>. HIDE DEF r
  <1>3. WorkOf(w, r)
    BY <1>1, <1>2 DEF WorkOf
  <1>. QED BY <1>3

OrdersStep ==
    OrdersIInv' /\ Orders!ClaimsDoNotOverlap /\ Orders!CheckoutStays

LEMMA ReplayStep ==
    ASSUME OrdersIInv, NEW w \in Workers, NEW a \in Accounts,
           NEW k \in RequestKeys, NEW n \in Amounts,
               Orders!ReplayOrder(w, a, k, n)
    PROVE  OrdersStep
  <1>. DEFINE o == idempotencies[<<a, k>>].order
  <1>1. /\ idempotencies[<<a, k>>] # None /\ Orders!Claimable(orders[o])
        /\ orders' = [orders EXCEPT ![o] = Orders!Claimed(orders[o], w)]
        /\ Orders!StartCall(w, o, FALSE, {})
        /\ UNCHANGED <<idempotencies, credits, refunds, webhookEventIds,
                       adminOperations, sessions, crashes>>
    BY DEF Orders!ReplayOrder
  <1>2. Orders!TypeOK /\ KeysKnow
    BY DEF OrdersIInv
  <1>3. o \in OrderIds /\ orders[o] # None
    BY <1>1, <1>2 DEF Orders!TypeOK, KeysKnow
  <1>. HIDE DEF o
  <1>4. SameTerms
    BY <1>1, <1>2, <1>3, ClaimOne
  <1>5. orders'[o] # None
    BY <1>3, <1>4 DEF SameTerms
  <1>6. \E r : WorkOf(w, r)
    <2>1. /\ {} \in SUBSET OrderIds /\ FALSE \in BOOLEAN
          /\ \A i \in {} : orders'[i] # None
      OBVIOUS
    <2>. QED BY <1>1, <1>3, <1>5, <2>1, CallWork
  <1>7. sessions' \in [OrderIds -> 0 .. MaxSessions]
            /\ crashes' \in 0 .. MaxCrashes
    BY <1>1, <1>2 DEF Orders!TypeOK
  <1>. QED BY <1>4, <1>6, <1>7, ClaimMoves DEF OrdersStep

LEMMA StartOrderSweep ==
    ASSUME OrdersIInv, NEW w \in Workers, Orders!StartSweep(w)
    PROVE  OrdersStep
  <1>. DEFINE todo == {o \in OrderIds : Orders!Stale(o)}
              r == [worker[w] EXCEPT !.pc = "sweep", !.todo = todo]
  <1>1. /\ worker' = [worker EXCEPT ![w] = r]
        /\ UNCHANGED <<orders, idempotencies, credits, refunds, webhookEventIds,
                       adminOperations, sessions, crashes>>
    BY DEF Orders!StartSweep, Orders!stateVars
  <1>2. Orders!TypeOK /\ worker[w] \in Orders!Worker
    BY WorkerTypes
  <1>3. todo \in SUBSET OrderIds /\ \A o \in todo : orders[o] # None
    BY DEF Orders!Stale, Orders!Exists
  <1>4. SameTerms
    BY <1>1, <1>2, NothingMoves
  <1>. HIDE DEF todo
  <1>5. r \in Orders!Worker /\ r.pc = "sweep" /\ r.todo = todo
    BY <1>2, <1>3 DEF Orders!Worker
  <1>. HIDE DEF r
  <1>6. WorkOf(w, r)
    BY <1>1, <1>3, <1>5 DEF WorkOf
  <1>7. sessions' \in [OrderIds -> 0 .. MaxSessions]
            /\ crashes' \in 0 .. MaxCrashes
    BY <1>1, <1>2 DEF Orders!TypeOK
  <1>. QED BY <1>4, <1>6, <1>7, ClaimMoves DEF OrdersStep

LEMMA ReconcileStep ==
    ASSUME OrdersIInv, NEW w \in Workers, Orders!Reconcile(w)
    PROVE  OrdersStep
  <1>1. PICK o \in worker[w].todo :
          IF orders[o].status = "pending" /\ Orders!Claimable(orders[o])
          THEN /\ orders' = [orders EXCEPT ![o] = Orders!Claimed(orders[o], w)]
               /\ Orders!StartCall(w, o, TRUE, worker[w].todo \ {o})
          ELSE /\ Orders!NextCandidate(w, worker[w].todo \ {o})
               /\ UNCHANGED orders
    BY DEF Orders!Reconcile
  <1>2. UNCHANGED <<idempotencies, credits, refunds, webhookEventIds,
                    adminOperations, sessions, crashes>>
    BY DEF Orders!Reconcile
  <1>3. /\ Orders!TypeOK /\ worker[w].todo \in SUBSET OrderIds
        /\ \A i \in worker[w].todo : orders[i] # None
    BY WorkerTypes
  <1>4. sessions' \in [OrderIds -> 0 .. MaxSessions]
            /\ crashes' \in 0 .. MaxCrashes
    BY <1>2, <1>3 DEF Orders!TypeOK
  <1>5. CASE orders[o].status = "pending" /\ Orders!Claimable(orders[o])
    <2>1. SameTerms
      BY <1>1, <1>2, <1>3, <1>5, ClaimOne
    <2>2. /\ worker[w].todo \ {o} \in SUBSET OrderIds /\ o \in OrderIds
          /\ orders'[o] # None
          /\ \A i \in worker[w].todo \ {o} : orders'[i] # None
          /\ TRUE \in BOOLEAN
          /\ Orders!StartCall(w, o, TRUE, worker[w].todo \ {o})
      BY <1>1, <1>3, <1>5, <2>1 DEF SameTerms
    <2>3. \E r : WorkOf(w, r)
      BY <1>5, <2>2, CallWork
    <2>. QED BY <1>4, <2>1, <2>3, ClaimMoves DEF OrdersStep
  <1>6. CASE ~(orders[o].status = "pending" /\ Orders!Claimable(orders[o]))
    <2>1. /\ UNCHANGED orders
          /\ Orders!NextCandidate(w, worker[w].todo \ {o})
          /\ worker[w].todo \ {o} \in SUBSET worker[w].todo
      BY <1>1, <1>6
    <2>2. SameTerms
      BY <1>2, <1>3, <2>1, NothingMoves
    <2>3. \E r : WorkOf(w, r)
      BY <2>1, <2>2, NextWork
    <2>. QED BY <1>4, <2>2, <2>3, ClaimMoves DEF OrdersStep
  <1>. QED BY <1>5, <1>6

LEMMA AnswerStep ==
    ASSUME OrdersIInv, NEW w \in Workers, Orders!ProviderAnswers(w)
    PROVE  OrdersStep
  <1>1. PICK s \in 1 .. MaxSessions :
          /\ sessions' = [sessions EXCEPT ![worker[w].order] =
                            IF s > @ THEN s ELSE @]
          /\ worker' = [worker EXCEPT ![w].pc = "finish", ![w].session = s]
    BY DEF Orders!ProviderAnswers
  <1>2. /\ worker[w].pc = "call"
        /\ UNCHANGED <<orders, idempotencies, credits, refunds, webhookEventIds,
                       adminOperations, crashes>>
    BY DEF Orders!ProviderAnswers, Orders!stateVars
  <1>3. /\ Orders!TypeOK /\ worker[w] \in Orders!Worker
        /\ \A o \in worker[w].todo : orders[o] # None
        /\ worker[w].order \in OrderIds /\ orders[worker[w].order] # None
    BY <1>2, WorkerTypes
  <1>4. s \in 0 .. MaxSessions /\ s \in Nat /\ MaxSessions \in Nat
    BY TopUpsAssumption DEF Orders!OrdersAssumption
  <1>5. sessions' \in [OrderIds -> 0 .. MaxSessions]
            /\ crashes' \in 0 .. MaxCrashes
    BY <1>1, <1>2, <1>3, <1>4 DEF Orders!TypeOK
  <1>6. SameTerms
    BY <1>2, <1>3, NothingMoves
  <1>. DEFINE r == [worker[w] EXCEPT !.pc = "finish", !.session = s]
  <1>7. /\ worker' = [worker EXCEPT ![w] = r] /\ r \in Orders!Worker
        /\ r.pc = "finish" /\ r.order = worker[w].order
        /\ r.todo = worker[w].todo
    BY <1>1, <1>3, <1>4 DEF Orders!Worker
  <1>. HIDE DEF r
  <1>8. WorkOf(w, r)
    BY <1>2, <1>3, <1>7 DEF WorkOf
  <1>. QED BY <1>5, <1>6, <1>8, ClaimMoves DEF OrdersStep

LEMMA RefusalStep ==
    ASSUME OrdersIInv, NEW w \in Workers, Orders!ProviderFails(w)
    PROVE  OrdersStep
  <1>1. /\ worker[w].pc = "call"
        /\ worker' = [worker EXCEPT ![w].pc = "failed"]
        /\ UNCHANGED <<orders, idempotencies, credits, refunds, webhookEventIds,
                       adminOperations, crashes>>
        /\ \/ UNCHANGED sessions
           \/ /\ sessions[worker[w].order] < MaxSessions
              /\ sessions' = [sessions EXCEPT ![worker[w].order] = @ + 1]
    BY DEF Orders!ProviderFails, Orders!stateVars
  <1>2. /\ Orders!TypeOK /\ worker[w] \in Orders!Worker
        /\ \A o \in worker[w].todo : orders[o] # None
        /\ worker[w].order \in OrderIds /\ orders[worker[w].order] # None
    BY <1>1, WorkerTypes
  <1>3. MaxSessions \in Nat
    BY TopUpsAssumption DEF Orders!OrdersAssumption
  <1>4. sessions' \in [OrderIds -> 0 .. MaxSessions]
            /\ crashes' \in 0 .. MaxCrashes
    BY <1>1, <1>2, <1>3 DEF Orders!TypeOK
  <1>5. SameTerms
    BY <1>1, <1>2, NothingMoves
  <1>. DEFINE r == [worker[w] EXCEPT !.pc = "failed"]
  <1>6. /\ worker' = [worker EXCEPT ![w] = r] /\ r \in Orders!Worker
        /\ r.pc = "failed" /\ r.order = worker[w].order
        /\ r.todo = worker[w].todo
    BY <1>1, <1>2 DEF Orders!Worker
  <1>. HIDE DEF r
  <1>7. WorkOf(w, r)
    BY <1>1, <1>2, <1>6 DEF WorkOf
  <1>. QED BY <1>4, <1>5, <1>7, ClaimMoves DEF OrdersStep

LEMMA FinalTerms ==
    ASSUME NEW x \in Orders!Order, NEW w \in Workers, NEW s \in Nat
    PROVE  LET y == Orders!Finalize(x, w, s) IN
           /\ y \in Orders!Order
           /\ y.account = x.account /\ y.amount = x.amount
           /\ y.status = x.status /\ y.paidTotal = x.paidTotal
           /\ x.providerOrderId # None => y.providerOrderId = x.providerOrderId
  <1>1. CASE x.providerOrderId = None /\ x.attempt = w
    BY <1>1 DEF Orders!Finalize, Orders!Order
  <1>2. CASE ~(x.providerOrderId = None /\ x.attempt = w)
    BY <1>2 DEF Orders!Finalize
  <1>. QED BY <1>1, <1>2

LEMMA FinishStep ==
    ASSUME OrdersIInv, NEW w \in Workers, Orders!FinishCreation(w)
    PROVE  OrdersStep
  <1>. DEFINE o == worker[w].order
              new == Orders!Finalize(orders[o], w, worker[w].session)
              y == IF worker[w].sweep /\ new # orders[o]
                   THEN [new EXCEPT !.failed = FALSE] ELSE new
  <1>1. /\ worker[w].pc = "finish" /\ orders' = [orders EXCEPT ![o] = y]
        /\ Orders!NextCandidate(w, worker[w].todo)
        /\ UNCHANGED <<idempotencies, credits, refunds, webhookEventIds,
                       adminOperations, sessions, crashes>>
    BY DEF Orders!FinishCreation
  <1>2. /\ Orders!TypeOK /\ o \in OrderIds /\ orders[o] # None
        /\ orders[o] \in Orders!Order /\ worker[w].session \in Nat
    <2>1. /\ Orders!TypeOK /\ o \in OrderIds /\ orders[o] # None
          /\ worker[w] \in Orders!Worker
      BY <1>1, WorkerTypes
    <2>. QED BY <2>1, OrderTypes DEF Orders!Worker
  <1>. HIDE DEF o
  <1>3. /\ new \in Orders!Order
        /\ new.account = orders[o].account /\ new.amount = orders[o].amount
        /\ new.status = orders[o].status /\ new.paidTotal = orders[o].paidTotal
        /\ orders[o].providerOrderId # None =>
              new.providerOrderId = orders[o].providerOrderId
    BY <1>2, FinalTerms
  <1>. HIDE DEF new
  <1>4. /\ y \in Orders!Order
        /\ y.account = orders[o].account /\ y.amount = orders[o].amount
        /\ y.status = orders[o].status /\ y.paidTotal = orders[o].paidTotal
        /\ orders[o].providerOrderId # None =>
              y.providerOrderId = orders[o].providerOrderId
    <2>1. CASE y = new
      BY <1>3, <2>1
    <2>2. CASE y = [new EXCEPT !.failed = FALSE]
      <3>. HIDE DEF y
      <3>. QED BY <1>3, <2>2 DEF Orders!Order
    <2>. QED BY <2>1, <2>2
  <1>. HIDE DEF y
  <1>5. SameTerms
    BY <1>1, <1>2, <1>4, ChangeOne
  <1>6. \E r : WorkOf(w, r)
    <2>1. worker[w].todo \in SUBSET worker[w].todo
      OBVIOUS
    <2>. QED BY <1>1, <1>5, <2>1, NextWork
  <1>7. sessions' \in [OrderIds -> 0 .. MaxSessions]
            /\ crashes' \in 0 .. MaxCrashes
    BY <1>1, <1>2 DEF Orders!TypeOK
  <1>. QED BY <1>5, <1>6, <1>7, ClaimMoves DEF OrdersStep

LEMMA ThrowStep ==
    ASSUME OrdersIInv, NEW w \in Workers, Orders!FinishThrows(w)
    PROVE  OrdersStep
  <1>. DEFINE r == IF worker[w].sweep THEN Orders!Idle
                   ELSE [worker[w] EXCEPT !.pc = "failed"]
  <1>1. /\ worker[w].pc = "finish" /\ worker' = [worker EXCEPT ![w] = r]
        /\ crashes < MaxCrashes /\ crashes' = crashes + 1
        /\ UNCHANGED <<orders, idempotencies, credits, refunds, webhookEventIds,
                       adminOperations, sessions>>
    BY DEF Orders!FinishThrows, Orders!stateVars
  <1>2. /\ Orders!TypeOK /\ worker[w] \in Orders!Worker
        /\ Orders!Idle \in Orders!Worker
        /\ \A o \in worker[w].todo : orders[o] # None
        /\ worker[w].order \in OrderIds /\ orders[worker[w].order] # None
    BY <1>1, WorkerTypes
  <1>3. sessions' \in [OrderIds -> 0 .. MaxSessions]
            /\ crashes' \in 0 .. MaxCrashes
    BY <1>1, <1>2, TopUpsAssumption DEF Orders!TypeOK, Orders!OrdersAssumption
  <1>4. SameTerms
    BY <1>1, <1>2, NothingMoves
  <1>5. /\ r \in Orders!Worker /\ r.pc # "call"
        /\ \A o \in r.todo : orders[o] # None
        /\ r.pc = "failed" => r.order = worker[w].order
        /\ r.pc \in {"idle", "failed"}
    <2>1. CASE r = Orders!Idle
      BY <1>2, <2>1 DEF Orders!Idle
    <2>2. CASE r = [worker[w] EXCEPT !.pc = "failed"]
      <3>. HIDE DEF r
      <3>. QED BY <1>2, <2>2 DEF Orders!Worker
    <2>. QED BY <2>1, <2>2
  <1>. HIDE DEF r
  <1>6. WorkOf(w, r)
    BY <1>1, <1>2, <1>5 DEF WorkOf
  <1>. QED BY <1>3, <1>4, <1>6, ClaimMoves DEF OrdersStep

LEMMA ReleaseOrderStep ==
    ASSUME OrdersIInv, NEW w \in Workers, Orders!ReleaseProviderCreation(w)
    PROVE  OrdersStep
  <1>. DEFINE o == worker[w].order
              y == [orders[o] EXCEPT !.attempt = None, !.failed = TRUE,
                  !.age = 0]
  <1>1. /\ worker[w].pc = "failed"
        /\ orders' = IF orders[o].attempt = w THEN [orders EXCEPT ![o] = y]
                     ELSE orders
        /\ Orders!NextCandidate(w, worker[w].todo)
        /\ UNCHANGED <<idempotencies, credits, refunds, webhookEventIds,
                       adminOperations, sessions, crashes>>
    BY DEF Orders!ReleaseProviderCreation
  <1>2. /\ Orders!TypeOK /\ o \in OrderIds /\ orders[o] # None
        /\ orders[o] \in Orders!Order
    <2>1. /\ Orders!TypeOK /\ o \in OrderIds /\ orders[o] # None
      BY <1>1, WorkerTypes
    <2>. QED BY <2>1, OrderTypes
  <1>. HIDE DEF o
  <1>3. /\ y \in Orders!Order
        /\ y.account = orders[o].account /\ y.amount = orders[o].amount
        /\ y.status = orders[o].status /\ y.paidTotal = orders[o].paidTotal
        /\ y.providerOrderId = orders[o].providerOrderId
    <2>1. 0 \in 0 .. Recovery
      BY TopUpsAssumption DEF Orders!OrdersAssumption
    <2>. QED BY <1>2, <2>1 DEF Orders!Order
  <1>. HIDE DEF y
  <1>4. SameTerms
    <2>1. CASE orders' = orders
      BY <1>1, <1>2, <2>1, NothingMoves
    <2>2. CASE orders' = [orders EXCEPT ![o] = y]
      BY <1>1, <1>2, <1>3, <2>2, ChangeOne
    <2>. QED BY <1>1, <2>1, <2>2
  <1>5. \E r : WorkOf(w, r)
    <2>1. worker[w].todo \in SUBSET worker[w].todo
      OBVIOUS
    <2>. QED BY <1>1, <1>4, <2>1, NextWork
  <1>6. sessions' \in [OrderIds -> 0 .. MaxSessions]
            /\ crashes' \in 0 .. MaxCrashes
    BY <1>1, <1>2 DEF Orders!TypeOK
  <1>. QED BY <1>4, <1>5, <1>6, ClaimMoves DEF OrdersStep

LEMMA CallDies ==
    ASSUME OrdersIInv, NEW w \in Workers, Orders!Crash(w) PROVE OrdersStep
  <1>1. /\ worker' = [worker EXCEPT ![w] = Orders!Idle]
        /\ crashes < MaxCrashes /\ crashes' = crashes + 1
        /\ UNCHANGED <<orders, idempotencies, credits, refunds, webhookEventIds,
                       adminOperations, sessions>>
    BY DEF Orders!Crash, Orders!stateVars
  <1>2. Orders!TypeOK /\ Orders!Idle \in Orders!Worker
    BY WorkerTypes
  <1>3. sessions' \in [OrderIds -> 0 .. MaxSessions]
            /\ crashes' \in 0 .. MaxCrashes
    BY <1>1, <1>2, TopUpsAssumption DEF Orders!TypeOK, Orders!OrdersAssumption
  <1>4. SameTerms
    BY <1>1, <1>2, NothingMoves
  <1>5. WorkOf(w, Orders!Idle)
    BY <1>1, <1>2 DEF WorkOf, Orders!Idle
  <1>. QED BY <1>3, <1>4, <1>5, ClaimMoves DEF OrdersStep

LEMMA AgeStep == ASSUME OrdersIInv, Orders!Tick PROVE OrdersStep
  <1>. DEFINE old(o) == [orders[o] EXCEPT !.age = @ + 1]
  <1>1. /\ orders' = [o \in OrderIds |->
                        IF Orders!Ageing(o) THEN old(o) ELSE orders[o]]
        /\ UNCHANGED <<idempotencies, credits, refunds, webhookEventIds,
                       adminOperations, sessions, worker, crashes>>
    BY DEF Orders!Tick
  <1>2. Orders!TypeOK /\ orders \in [OrderIds -> Orders!Order \cup {None}]
    BY DEF OrdersIInv, Orders!TypeOK
  <1>3. ASSUME NEW o \in OrderIds, Orders!Ageing(o)
        PROVE  /\ old(o) \in Orders!Order /\ old(o) # None /\ orders[o] # None
               /\ old(o).account = orders[o].account
               /\ old(o).amount = orders[o].amount
               /\ old(o).status = orders[o].status
               /\ old(o).paidTotal = orders[o].paidTotal
               /\ old(o).providerOrderId = orders[o].providerOrderId
    <2>. DEFINE x == orders[o]
                y == old(o)
    <2>1. /\ x # None /\ x \in Orders!Order /\ x.age < Recovery
          /\ y = [x EXCEPT !.age = x.age + 1]
      BY <1>2, <1>3, OrderTypes DEF Orders!Ageing, Orders!Exists
    <2>2. Recovery \in Nat /\ None \notin Orders!Order
      BY TopUpsAssumption DEF Orders!OrdersAssumption
    <2>. HIDE DEF x, y
    <2>3. x.age + 1 \in 0 .. Recovery
      BY <2>1, <2>2 DEF Orders!Order
    <2>4. /\ y \in Orders!Order /\ y # None
          /\ y.account = x.account /\ y.amount = x.amount
          /\ y.status = x.status /\ y.paidTotal = x.paidTotal
          /\ y.providerOrderId = x.providerOrderId
      BY <2>1, <2>2, <2>3 DEF Orders!Order
    <2>. QED BY <2>1, <2>4 DEF x, y
  <1>. HIDE DEF old
  <1>4. SameTerms
    BY <1>1, <1>2, <1>3 DEF SameTerms
  <1>5. /\ worker' \in [Workers -> Orders!Worker] /\ WorkersKnow'
        /\ Orders!ClaimsDoNotOverlap
    BY <1>1, <1>4, WorkersStay DEF SameTerms
  <1>6. /\ KeysKnow' /\ Orders!OneOrderPerRequest' /\ Credit'
        /\ Orders!CheckoutStays
    BY <1>4, SameTermsKeep
  <1>7. Orders!TypeOK'
    BY <1>1, <1>2, <1>4, <1>5 DEF Orders!TypeOK, SameTerms
  <1>. QED BY <1>5, <1>6, <1>7 DEF OrdersIInv, OrdersStep

LEMMA MarkStep ==
    ASSUME OrdersIInv, NEW e \in Notifications, Orders!MarkWebhook(e)
    PROVE  OrdersStep
  <1>1. /\ webhookEventIds' = webhookEventIds \cup {e}
        /\ UNCHANGED <<orders, idempotencies, credits, refunds, adminOperations,
                       sessions, worker, crashes>>
    BY DEF Orders!MarkWebhook
  <1>2. Orders!TypeOK' /\ WorkersKnow' /\ KeysKnow'
    BY <1>1 DEF OrdersIInv, Orders!TypeOK, WorkersKnow, KeysKnow
  <1>3. Orders!OneOrderPerRequest' /\ Orders!RefundsProportional' /\ PaidInFull'
    BY <1>1 DEF OrdersIInv, Credit, PaidInFull, Orders!OneOrderPerRequest,
       Orders!RefundsProportional, Orders!Exists, Orders!CumulativeCash
  <1>4. \A a \in Accounts : Accounted(a)'
    BY <1>1 DEF OrdersIInv, Credit, Accounted, Orders!Paid, Orders!Refunded,
       Orders!OrdersOf, Orders!Exists, Orders!Applied
  <1>5. Orders!ClaimsDoNotOverlap /\ Orders!CheckoutStays
    BY <1>1 DEF Orders!ClaimsDoNotOverlap, Orders!CheckoutStays
  <1>. QED BY <1>2, <1>3, <1>4, <1>5 DEF OrdersIInv, Credit, OrdersStep

LEMMA CreateStep ==
    ASSUME OrdersIInv, NEW w \in Workers, NEW a \in Accounts,
           NEW k \in RequestKeys, NEW n \in Amounts,
               Orders!CreateOrder(w, a, k, n)
    PROVE  OrdersStep
  <1>. DEFINE y == [account |-> a, amount |-> n, status |-> "pending",
                    providerOrderId |-> None, attempt |-> w, failed |-> FALSE,
                    age |-> 0, paidTotal |-> 0]
              key == <<a, k>>
              q(x) == [order |-> x, amount |-> n]
  <1>1. PICK o \in OrderIds :
          /\ orders[o] = None /\ orders' = [orders EXCEPT ![o] = y]
          /\ idempotencies' = [idempotencies EXCEPT ![key] = q(o)]
          /\ Orders!StartCall(w, o, FALSE, {})
    BY DEF Orders!CreateOrder
  <1>2. /\ idempotencies[key] = None
        /\ UNCHANGED <<credits, refunds, webhookEventIds, adminOperations,
                       sessions, crashes>>
    BY DEF Orders!CreateOrder
  <1>3. /\ Orders!TypeOK /\ KeysKnow /\ Orders!OneOrderPerRequest
        /\ Orders!RefundsProportional /\ PaidInFull
        /\ \A b \in Accounts : Accounted(b)
    BY DEF OrdersIInv, Credit
  <1>4. /\ y \in Orders!Order /\ y # None /\ y.account = a /\ y.amount = n
        /\ y.status = "pending"
    <2>1. 0 \in 0 .. Recovery /\ None \notin Orders!Order
      BY TopUpsAssumption DEF Orders!OrdersAssumption
    <2>2. y.account = a /\ y.amount = n /\ y.status = "pending"
      OBVIOUS
    <2>3. y \in Orders!Order
      BY <2>1 DEF Orders!Order
    <2>. QED BY <2>1, <2>2, <2>3
  <1>5. /\ q(o) \in [order : OrderIds, amount : Amounts]
        /\ q(o).order = o /\ q(o) # None /\ key \in Accounts \X RequestKeys
    BY TopUpsAssumption DEF Orders!OrdersAssumption
  <1>. HIDE DEF y
  <1>6. /\ \A i \in OrderIds : orders'[i] = IF i = o THEN y ELSE orders[i]
        /\ orders' \in [OrderIds -> Orders!Order \cup {None}]
    BY <1>1, <1>3, <1>4 DEF Orders!TypeOK
  <1>7. /\ \A s \in Accounts \X RequestKeys :
             idempotencies'[s] = IF s = key THEN q(o) ELSE idempotencies[s]
        /\ idempotencies' \in
             [Accounts \X RequestKeys ->
                [order : OrderIds, amount : Amounts] \cup {None}]
    BY <1>1, <1>3, <1>5 DEF Orders!TypeOK
  <1>8. \A i \in OrderIds : orders[i] # None => orders'[i] # None
    BY <1>1, <1>6
  <1>9. \E r : WorkOf(w, r)
    <2>1. /\ {} \in SUBSET OrderIds /\ FALSE \in BOOLEAN
          /\ \A i \in {} : orders'[i] # None
      OBVIOUS
    <2>2. orders'[o] # None
      BY <1>4, <1>6
    <2>. QED BY <1>1, <2>1, <2>2, CallWork
  <1>10. /\ worker' \in [Workers -> Orders!Worker] /\ WorkersKnow'
         /\ Orders!ClaimsDoNotOverlap
    BY <1>8, <1>9, WorkKeeps
  <1>11. Orders!TypeOK'
    BY <1>2, <1>3, <1>6, <1>7, <1>10 DEF Orders!TypeOK
  <1>12. \A s \in Accounts \X RequestKeys : idempotencies[s] # None =>
            /\ idempotencies[s].order \in OrderIds
            /\ idempotencies[s].order # o /\ s # key
            /\ orders[idempotencies[s].order] # None
    BY <1>1, <1>2, <1>3 DEF Orders!TypeOK, KeysKnow
  <1>13. KeysKnow'
    BY <1>4, <1>5, <1>6, <1>7, <1>12 DEF KeysKnow
  <1>14. Orders!OneOrderPerRequest'
    <2>. SUFFICES ASSUME NEW i \in OrderIds, orders'[i] # None
                  PROVE  \E s \in Accounts \X RequestKeys :
                    /\ idempotencies'[s]
                           = [order |-> i, amount |-> orders'[i].amount]
                    /\ s[1] = orders'[i].account
                    /\ \A r \in Accounts \X RequestKeys :
                          idempotencies'[r] # None /\ r # s =>
                             idempotencies'[r].order # i
      BY DEF Orders!OneOrderPerRequest, Orders!Exists
    <2>1. CASE i = o
      <3>1. orders'[i].amount = n /\ orders'[i].account = a
        BY <1>4, <1>6, <2>1
      <3>2. idempotencies'[key] = [order |-> i, amount |-> orders'[i].amount]
        BY <1>5, <1>7, <2>1, <3>1
      <3>3. key[1] = orders'[i].account
        BY <3>1
      <3>4. \A r \in Accounts \X RequestKeys :
               idempotencies'[r] # None /\ r # key
                   => idempotencies'[r].order # i
        BY <1>7, <1>12, <2>1
      <3>. HIDE DEF key
      <3>. QED BY <1>5, <3>2, <3>3, <3>4
    <2>2. CASE i # o
      <3>1. orders'[i] = orders[i] /\ orders[i] # None
        BY <1>6, <2>2
      <3>2. PICK s \in Accounts \X RequestKeys :
              /\ idempotencies[s] = [order |-> i, amount |-> orders[i].amount]
              /\ s[1] = orders[i].account
              /\ \A r \in Accounts \X RequestKeys :
                    idempotencies[r] # None /\ r # s
                        => idempotencies[r].order # i
        BY <1>3, <3>1 DEF Orders!OneOrderPerRequest, Orders!Exists
      <3>3. /\ orders[i].amount \in Amounts
            /\ None \notin [order : OrderIds, amount : Amounts]
        BY <1>3, <3>1, OrderTypes, TopUpsAssumption DEF Orders!OrdersAssumption
      <3>4. idempotencies[s] # None /\ s # key
        BY <1>2, <3>2, <3>3
      <3>5. idempotencies'[s] = idempotencies[s]
        BY <1>7, <3>4
      <3>6. \A r \in Accounts \X RequestKeys :
               idempotencies'[r] # None /\ r # s => idempotencies'[r].order # i
        BY <1>5, <1>7, <2>2, <3>2
      <3>. QED BY <3>1, <3>2, <3>5, <3>6
    <2>. QED BY <2>1, <2>2
  <1>15. PaidInFull'
    BY <1>3, <1>4, <1>6 DEF PaidInFull
  <1>16. refunds[o] = [cash |-> 0, provider |-> 0]
    BY <1>1, <1>3 DEF Orders!RefundsProportional, Orders!Exists
  <1>17. Orders!RefundsProportional'
    <2>1. \A i \in OrderIds : \A x : i # o =>
             Orders!CumulativeCash(orders'[i], x)
                 = Orders!CumulativeCash(orders[i], x)
      BY <1>6
    <2>. QED BY <1>2, <1>3, <1>4, <1>6, <1>16, <2>1
             DEF Orders!RefundsProportional, Orders!Exists
  <1>18. ASSUME NEW b \in Accounts PROVE Accounted(b)'
    <2>1. /\ Orders!Paid(b)[o] = 0 /\ Orders!Paid(b)'[o] = 0
          /\ Orders!Refunded(b)[o] = 0 /\ Orders!Refunded(b)'[o] = 0
      BY <1>1, <1>2, <1>4, <1>6, <1>16
         DEF Orders!Paid, Orders!Refunded, Orders!OrdersOf, Orders!Exists
    <2>2. \A i \in OrderIds : i # o =>
              /\ Orders!Paid(b)'[i] = Orders!Paid(b)[i]
              /\ Orders!Refunded(b)'[i] = Orders!Refunded(b)[i]
      BY <1>2, <1>6
         DEF Orders!Paid, Orders!Refunded, Orders!OrdersOf, Orders!Exists
    <2>3. credits'[b] = credits[b] /\ credits[b] \in Int
              /\ UNCHANGED adminOperations
      BY <1>2, <1>3 DEF Orders!TypeOK
    <2>4. credits'[b] = credits[b] + (Orders!Paid(b)'[o] - Orders!Paid(b)[o])
                          - (Orders!Refunded(b)'[o] - Orders!Refunded(b)[o])
      BY <2>1, <2>3
    <2>5. Orders!Paid(b)'[o] \in Nat /\ Orders!Refunded(b)'[o] \in Nat
              /\ Accounted(b)
      BY <1>3, <2>1
    <2>. QED BY <1>3, <2>2, <2>3, <2>4, <2>5, OneOrder
  <1>19. Orders!CheckoutStays
    BY <1>1, <1>6 DEF Orders!CheckoutStays, Orders!Exists
  <1>. QED BY <1>10, <1>11, <1>13, <1>14, <1>15, <1>17, <1>18, <1>19
           DEF OrdersIInv, Credit, OrdersStep

LEMMA CreditStep ==
    ASSUME OrdersIInv, NEW e \in Notifications, Orders!RecordCredit(e)
    PROVE  OrdersStep
  <1>. DEFINE n == NotificationOf[e]
              o == n.order
              x == orders[o]
              y == [x EXCEPT !.status = "completed", !.paidTotal = n.total]
  <1>1. /\ x # None /\ e \in Notifications
        /\ webhookEventIds' = webhookEventIds \cup {e}
        /\ UNCHANGED <<idempotencies, refunds, adminOperations, sessions,
               worker,
                       crashes>>
    BY DEF Orders!RecordCredit, Orders!Exists
  <1>2. /\ Orders!TypeOK /\ KeysKnow /\ Orders!OneOrderPerRequest
        /\ Orders!RefundsProportional /\ PaidInFull
        /\ \A b \in Accounts : Accounted(b)
    BY DEF OrdersIInv, Credit
  <1>3. o \in OrderIds /\ n.total \in Nat /\ n.total > 0
    BY TopUpsAssumption DEF Orders!OrdersAssumption, Orders!Notification
  <1>4. CASE UNCHANGED <<orders, credits>>
    <2>1. Orders!TypeOK' /\ WorkersKnow' /\ KeysKnow'
      BY <1>1, <1>4 DEF OrdersIInv, Orders!TypeOK, WorkersKnow, KeysKnow
    <2>2. Orders!OneOrderPerRequest' /\ Orders!RefundsProportional'
              /\ PaidInFull'
      BY <1>1, <1>2, <1>4 DEF PaidInFull, Orders!OneOrderPerRequest,
         Orders!RefundsProportional, Orders!Exists, Orders!CumulativeCash
    <2>3. \A a \in Accounts : Accounted(a)'
      BY <1>1, <1>2, <1>4 DEF Accounted, Orders!Paid, Orders!Refunded,
         Orders!OrdersOf, Orders!Exists, Orders!Applied
    <2>4. Orders!ClaimsDoNotOverlap /\ Orders!CheckoutStays
      BY <1>1, <1>4 DEF Orders!ClaimsDoNotOverlap, Orders!CheckoutStays
    <2>. QED BY <2>1, <2>2, <2>3, <2>4 DEF OrdersIInv, Credit, OrdersStep
  <1>5. ASSUME x.status = "pending",
               credits' = [credits EXCEPT ![x.account] = @ + x.amount],
               orders' = [orders EXCEPT ![o].status = "completed",
                                        ![o].paidTotal = n.total]
        PROVE  OrdersStep
    <2>1. /\ x \in Orders!Order /\ x.account \in Accounts
          /\ x.amount \in Nat /\ x.amount > 0
          /\ orders \in [OrderIds -> Orders!Order \cup {None}]
          /\ credits \in [Accounts -> Int] /\ None \notin Orders!Order
      BY <1>1, <1>2, <1>3, OrderTypes, TopUpsAssumption
         DEF Orders!TypeOK, Orders!OrdersAssumption
    <2>2. orders' = [orders EXCEPT ![o] = y]
      BY <1>3, <1>5, <2>1
    <2>. HIDE DEF x, n, o
    <2>3. /\ y \in Orders!Order /\ y # None /\ y.status = "completed"
          /\ y.paidTotal > 0 /\ y.paidTotal \in Nat
          /\ y.account = x.account /\ y.amount = x.amount
          /\ y.providerOrderId = x.providerOrderId
      BY <1>3, <2>1 DEF Orders!Order
    <2>. HIDE DEF y
    <2>4. \A i \in OrderIds : orders'[i] = IF i = o THEN y ELSE orders[i]
      BY <2>1, <2>2
    <2>5. \A i \in OrderIds : orders[i] # None <=> orders'[i] # None
      BY <1>1, <2>3, <2>4 DEF x
    <2>6. /\ worker' \in [Workers -> Orders!Worker] /\ WorkersKnow'
          /\ Orders!ClaimsDoNotOverlap
      BY <1>1, <2>5, WorkersStay
    <2>7. Orders!TypeOK'
      <3>1. credits' \in [Accounts -> Int]
        BY <1>5, <2>1
      <3>2. orders' \in [OrderIds -> Orders!Order \cup {None}]
        BY <2>1, <2>2, <2>3
      <3>. QED BY <1>1, <1>2, <2>6, <3>1, <3>2 DEF Orders!TypeOK
    <2>8. KeysKnow'
      <3>1. \A s \in Accounts \X RequestKeys :
               idempotencies[s] # None => idempotencies[s].order \in OrderIds
        BY <1>2 DEF Orders!TypeOK
      <3>. QED BY <1>1, <1>2, <2>5, <3>1 DEF KeysKnow
    <2>9. Orders!OneOrderPerRequest'
      <3>1. \A i \in OrderIds : /\ orders'[i].account = orders[i].account
                                /\ orders'[i].amount = orders[i].amount
        BY <2>3, <2>4 DEF x
      <3>. QED BY <1>1, <1>2, <2>5, <3>1
               DEF Orders!OneOrderPerRequest, Orders!Exists
    <2>10. PaidInFull'
      BY <1>2, <2>3, <2>4 DEF PaidInFull
    <2>11. refunds[o] = [cash |-> 0, provider |-> 0]
      BY <1>1, <1>2, <1>3, <1>5
         DEF Orders!RefundsProportional, Orders!Exists, x
    <2>12. Orders!RefundsProportional'
      <3>1. Orders!CumulativeCash(y, 0) = 0
        <4>1. y.amount \in Nat /\ y.paidTotal \in Nat \ {0}
          BY <2>1, <2>3
        <4>. QED BY <4>1, RoundZero DEF Orders!CumulativeCash
      <3>2. /\ refunds[o].provider = 0 /\ refunds[o].cash = 0
            /\ refunds[o].provider <= y.paidTotal /\ refunds[o].cash <= y.amount
        BY <2>1, <2>3, <2>11
      <3>3. /\ orders'[o] # None /\ orders'[o].status = "completed"
            /\ refunds'[o].provider <= orders'[o].paidTotal
            /\ refunds'[o].cash =
                 Orders!CumulativeCash(orders'[o], refunds'[o].provider)
            /\ refunds'[o].cash <= orders'[o].amount
        BY <1>1, <1>3, <2>3, <2>4, <3>1, <3>2
      <3>4. ASSUME NEW i \in OrderIds, i # o
            PROVE  orders'[i] = orders[i] /\ refunds'[i] = refunds[i]
        BY <1>1, <2>4, <3>4
      <3>5. \A i \in OrderIds : \A m : i # o =>
               Orders!CumulativeCash(orders'[i], m)
                   = Orders!CumulativeCash(orders[i], m)
        BY <3>4
      <3>. QED BY <1>2, <3>3, <3>4, <3>5
               DEF Orders!RefundsProportional, Orders!Exists
    <2>13. ASSUME NEW b \in Accounts PROVE Accounted(b)'
      <3>1. /\ Orders!Paid(b)[o] = 0
            /\ Orders!Paid(b)'[o] = IF x.account = b THEN x.amount ELSE 0
        BY <1>1, <1>3, <1>5, <2>3, <2>4
           DEF Orders!Paid, Orders!OrdersOf, Orders!Exists, x
      <3>2. /\ Orders!Refunded(b)[o] = 0 /\ Orders!Refunded(b)'[o] = 0
        BY <1>1, <1>3, <2>11 DEF Orders!Refunded
      <3>3. \A i \in OrderIds : i # o =>
                /\ Orders!Paid(b)'[i] = Orders!Paid(b)[i]
                /\ Orders!Refunded(b)'[i] = Orders!Refunded(b)[i]
        BY <1>1, <2>4
           DEF Orders!Paid, Orders!Refunded, Orders!OrdersOf, Orders!Exists
      <3>4. /\ credits'[b] = IF x.account = b THEN credits[b] + x.amount
                   ELSE credits[b]
            /\ credits[b] \in Int
        BY <1>5, <2>1
      <3>5. credits'[b] = credits[b] + (Orders!Paid(b)'[o] - Orders!Paid(b)[o])
                            - (Orders!Refunded(b)'[o] - Orders!Refunded(b)[o])
        BY <2>1, <3>1, <3>2, <3>4
      <3>6. Orders!Paid(b)'[o] \in Nat /\ Orders!Refunded(b)'[o] \in Nat
        BY <2>1, <3>1, <3>2
      <3>. QED BY <1>1, <1>2, <1>3, <3>3, <3>5, <3>6, OneOrder
    <2>14. Orders!CheckoutStays
      BY <2>3, <2>4 DEF Orders!CheckoutStays, Orders!Exists, x
    <2>. QED BY <2>6, <2>7, <2>8, <2>9, <2>10, <2>12, <2>13, <2>14
             DEF OrdersIInv, Credit, OrdersStep
  <1>. QED BY <1>4, <1>5 DEF Orders!RecordCredit

LEMMA RefundStep ==
    ASSUME OrdersIInv, NEW e \in Notifications, Orders!RecordRefund(e)
    PROVE  OrdersStep
  <1>. DEFINE n == NotificationOf[e]
              o == n.order
              x == orders[o]
              total == refunds[o].provider + n.paid
              cash == Orders!CumulativeCash(x, total)
              r == cash - refunds[o].cash
              z == [cash |-> cash, provider |-> total]
  <1>1. /\ x # None /\ x.status = "completed" /\ e \in Notifications
        /\ total <= x.paidTotal /\ r > 0 /\ cash <= x.amount
        /\ credits' = [credits EXCEPT ![x.account] = @ - r]
        /\ refunds' = [refunds EXCEPT ![o] = z]
        /\ webhookEventIds' = webhookEventIds \cup {e}
        /\ UNCHANGED <<orders, idempotencies, adminOperations, sessions, worker,
                       crashes>>
    BY DEF Orders!RecordRefund, Orders!Exists
  <1>2. /\ Orders!TypeOK /\ KeysKnow /\ Orders!OneOrderPerRequest
        /\ Orders!RefundsProportional /\ PaidInFull
        /\ \A b \in Accounts : Accounted(b)
    BY DEF OrdersIInv, Credit
  <1>3. o \in OrderIds /\ n.paid \in Nat
    BY TopUpsAssumption DEF Orders!OrdersAssumption, Orders!Notification
  <1>4. /\ x.account \in Accounts /\ x.amount \in Nat
        /\ x.paidTotal \in Nat \ {0}
        /\ refunds[o].cash \in Nat /\ refunds[o].provider \in Nat
        /\ refunds \in [OrderIds -> [cash : Nat, provider : Nat]]
        /\ credits \in [Accounts -> Int]
    BY <1>1, <1>2, <1>3, OrderTypes DEF PaidInFull, Orders!TypeOK
  <1>5. total \in Nat
    BY <1>3, <1>4
  <1>6. cash \in Int
    <2>1. total * x.amount \in Nat
      <3>. HIDE DEF total, x
      <3>. QED BY <1>4, <1>5
    <2>. QED BY <1>4, <2>1, RoundInt DEF Orders!CumulativeCash
  <1>. HIDE DEF x, total, cash, n
  <1>7. cash \in Nat /\ r \in Nat
    BY <1>1, <1>4, <1>6
  <1>. HIDE DEF o
  <1>8. z \in [cash : Nat, provider : Nat] /\ z.cash = cash
            /\ z.provider = total
    BY <1>5, <1>7
  <1>. HIDE DEF z, r
  <1>9. \A i \in OrderIds : refunds'[i] = IF i = o THEN z ELSE refunds[i]
    BY <1>1, <1>4
  <1>10. /\ worker' \in [Workers -> Orders!Worker] /\ WorkersKnow'
         /\ Orders!ClaimsDoNotOverlap
    BY <1>1, WorkersStay
  <1>11. Orders!TypeOK'
    <2>1. credits' \in [Accounts -> Int]
      BY <1>1, <1>4, <1>7
    <2>2. refunds' \in [OrderIds -> [cash : Nat, provider : Nat]]
      BY <1>1, <1>4, <1>8
    <2>. QED BY <1>1, <1>2, <2>1, <2>2 DEF Orders!TypeOK
  <1>12. KeysKnow' /\ Orders!OneOrderPerRequest' /\ PaidInFull'
    BY <1>1, <1>2
       DEF KeysKnow, PaidInFull, Orders!OneOrderPerRequest, Orders!Exists
  <1>13. Orders!RefundsProportional'
    <2>1. /\ orders'[o] = x /\ x # None /\ x.status = "completed"
          /\ refunds'[o].provider <= x.paidTotal /\ refunds'[o].cash <= x.amount
          /\ refunds'[o].cash = Orders!CumulativeCash(x, refunds'[o].provider)
      BY <1>1, <1>3, <1>8, <1>9 DEF x, cash
    <2>2. \A i \in OrderIds : orders'[i] = orders[i]
      BY <1>1
    <2>3. \A i \in OrderIds : \A m :
             Orders!CumulativeCash(orders'[i], m)
                 = Orders!CumulativeCash(orders[i], m)
      BY <1>1
    <2>4. \A i \in OrderIds : i # o => refunds'[i] = refunds[i]
      BY <1>9
    <2>. QED BY <1>2, <2>1, <2>2, <2>3, <2>4
             DEF Orders!RefundsProportional, Orders!Exists
  <1>14. ASSUME NEW b \in Accounts PROVE Accounted(b)'
    <2>1. Orders!Paid(b)' = Orders!Paid(b)
      BY <1>1 DEF Orders!Paid, Orders!OrdersOf, Orders!Exists
    <2>2. /\ Orders!Refunded(b)[o] = IF x.account = b THEN refunds[o].cash
                 ELSE 0
          /\ Orders!Refunded(b)'[o] = IF x.account = b THEN cash ELSE 0
      BY <1>1, <1>3, <1>8, <1>9
         DEF Orders!Refunded, Orders!OrdersOf, Orders!Exists, x
    <2>3. \A i \in OrderIds : i # o =>
              Orders!Refunded(b)'[i] = Orders!Refunded(b)[i]
      BY <1>1, <1>9 DEF Orders!Refunded, Orders!OrdersOf, Orders!Exists
    <2>4. /\ credits'[b] = IF x.account = b THEN credits[b] - r ELSE credits[b]
          /\ credits[b] \in Int
      BY <1>1, <1>4
    <2>5. Orders!Paid(b)[o] \in Nat
      BY <1>2, <1>3, MoneyTypes
    <2>6. credits'[b] = credits[b] + (Orders!Paid(b)'[o] - Orders!Paid(b)[o])
                          - (Orders!Refunded(b)'[o] - Orders!Refunded(b)[o])
      BY <1>4, <1>7, <2>1, <2>2, <2>4, <2>5 DEF r
    <2>7. Orders!Paid(b)'[o] \in Nat /\ Orders!Refunded(b)'[o] \in Nat
      BY <1>7, <2>1, <2>2, <2>5
    <2>. QED BY <1>1, <1>2, <1>3, <2>1, <2>3, <2>6, <2>7, OneOrder
  <1>15. Orders!CheckoutStays
    BY <1>1 DEF Orders!CheckoutStays
  <1>. QED BY <1>10, <1>11, <1>12, <1>13, <1>14, <1>15
           DEF OrdersIInv, Credit, OrdersStep

LEMMA AdminStep ==
    ASSUME OrdersIInv, NEW p \in AdminOperations, Orders!ApplyAdminOperation(p)
    PROVE  OrdersStep
  <1>. DEFINE op == AdminOperationOf[p]
              n == op.amount
              c == op.account
              k(b) == Orders!Applied(b, "balance_adjust")
              l(b) == Orders!Applied(b, "refund")
  <1>1. /\ p \notin adminOperations
        /\ adminOperations' = adminOperations \cup {p}
        /\ UNCHANGED <<orders, idempotencies, refunds, webhookEventIds,
               sessions,
                       worker, crashes>>
        /\ \/ op.action = "refund" /\ credits' = [credits EXCEPT ![c] = @ - n]
           \/ op.action = "balance_adjust"
              /\ credits' = [credits EXCEPT ![c] = @ + n]
    BY DEF Orders!ApplyAdminOperation
  <1>2. /\ Orders!TypeOK /\ KeysKnow /\ Orders!OneOrderPerRequest
        /\ Orders!RefundsProportional /\ PaidInFull
        /\ \A b \in Accounts : Accounted(b)
    BY DEF OrdersIInv, Credit
  <1>3. n \in Nat /\ c \in Accounts
    BY TopUpsAssumption DEF Orders!OrdersAssumption, Orders!AdminOperation
  <1>4. credits \in [Accounts -> Int]
    BY <1>2 DEF Orders!TypeOK
  <1>5. /\ worker' \in [Workers -> Orders!Worker] /\ WorkersKnow'
        /\ Orders!ClaimsDoNotOverlap
    BY <1>1, WorkersStay
  <1>6. Orders!TypeOK'
    <2>1. credits' \in [Accounts -> Int]
      BY <1>1, <1>3, <1>4
    <2>. QED BY <1>1, <1>2, <2>1 DEF Orders!TypeOK
  <1>7. /\ KeysKnow' /\ Orders!OneOrderPerRequest' /\ PaidInFull'
        /\ Orders!RefundsProportional'
    BY <1>1, <1>2 DEF KeysKnow, PaidInFull, Orders!OneOrderPerRequest,
       Orders!Exists, Orders!RefundsProportional, Orders!CumulativeCash
  <1>8. ASSUME NEW b \in Accounts PROVE Accounted(b)'
    <2>1. /\ k(b)[p] = 0 /\ l(b)[p] = 0
          /\ k(b)'[p] = IF c = b /\ op.action = "balance_adjust" THEN n ELSE 0
          /\ l(b)'[p] = IF c = b /\ op.action = "refund" THEN n ELSE 0
      BY <1>1 DEF Orders!Applied
    <2>2. \A i \in AdminOperations : i # p =>
              k(b)'[i] = k(b)[i] /\ l(b)'[i] = l(b)[i]
      BY <1>1 DEF Orders!Applied
    <2>3. credits[b] \in Int
      BY <1>4
    <2>. HIDE DEF k, l, n, c, op
    <2>4. credits'[b] = credits[b] + (k(b)'[p] - k(b)[p]) - (l(b)'[p] - l(b)[p])
      <3>1. CASE /\ op.action = "refund"
                 /\ credits' = [credits EXCEPT ![c] = @ - n]
        <4>1. credits'[b] = IF c = b THEN credits[b] - n ELSE credits[b]
          BY <1>4, <3>1
        <4>. QED BY <1>3, <2>1, <2>3, <3>1, <4>1
      <3>2. CASE /\ op.action = "balance_adjust"
                 /\ credits' = [credits EXCEPT ![c] = @ + n]
        <4>1. credits'[b] = IF c = b THEN credits[b] + n ELSE credits[b]
          BY <1>4, <3>2
        <4>. QED BY <1>3, <2>1, <2>3, <3>2, <4>1
      <3>. QED BY <1>1, <3>1, <3>2
    <2>5. k(b)'[p] \in Nat /\ l(b)'[p] \in Nat
      BY <1>3, <2>1
    <2>. QED BY <1>1, <1>2, <2>2, <2>4, <2>5, OneOperation DEF k, l
  <1>9. Orders!CheckoutStays
    BY <1>1 DEF Orders!CheckoutStays
  <1>. QED BY <1>5, <1>6, <1>7, <1>8, <1>9 DEF OrdersIInv, Credit, OrdersStep

LEMMA InitOrders == Orders!Init => OrdersIInv
  <1>. SUFFICES ASSUME Orders!Init PROVE OrdersIInv
    OBVIOUS
  <1>1. Orders!TypeOK
    BY TopUpsAssumption
       DEF Orders!Init, Orders!TypeOK, Orders!Idle, Orders!Worker,
           Orders!OrdersAssumption
  <1>2. WorkersKnow /\ KeysKnow /\ PaidInFull /\ Orders!OneOrderPerRequest
    BY DEF Orders!Init, Orders!Idle, WorkersKnow, KeysKnow, PaidInFull,
       Orders!OneOrderPerRequest, Orders!Exists
  <1>3. Orders!RefundsProportional
    BY DEF Orders!Init, Orders!RefundsProportional, Orders!Exists
  <1>4. ASSUME NEW a \in Accounts PROVE Accounted(a)
    <2>1. /\ \A o \in OrderIds : Orders!Paid(a)[o] = 0
                 /\ Orders!Refunded(a)[o] = 0
          /\ \A p \in AdminOperations : /\ Orders!Applied(a, "refund")[p] = 0
                                        /\ Orders!Applied(a,
                                               "balance_adjust")[p] = 0
      BY DEF Orders!Init, Orders!Paid, Orders!Refunded, Orders!OrdersOf,
         Orders!Exists, Orders!Applied
    <2>2. /\ Orders!Paid(a) \in [OrderIds -> Nat]
          /\ Orders!Refunded(a) \in [OrderIds -> Nat]
          /\ Orders!Applied(a, "refund") \in [AdminOperations -> Nat]
          /\ Orders!Applied(a, "balance_adjust") \in [AdminOperations -> Nat]
      BY <1>1, MoneyTypes
    <2>3. IsFiniteSet(Units(Orders!Paid(a))) /\ Total(Orders!Paid(a)) = 0
      BY <2>1, <2>2, TotalZero
    <2>4. IsFiniteSet(Units(Orders!Refunded(a)))
              /\ Total(Orders!Refunded(a)) = 0
      BY <2>1, <2>2, TotalZero
    <2>5. /\ IsFiniteSet(Units(Orders!Applied(a, "refund")))
          /\ Total(Orders!Applied(a, "refund")) = 0
      BY <2>1, <2>2, TotalZero
    <2>6. /\ IsFiniteSet(Units(Orders!Applied(a, "balance_adjust")))
          /\ Total(Orders!Applied(a, "balance_adjust")) = 0
      BY <2>1, <2>2, TotalZero
    <2>7. credits[a] = 0
      BY DEF Orders!Init
    <2>. QED BY <2>3, <2>4, <2>5, <2>6, <2>7 DEF Accounted
  <1>. QED BY <1>1, <1>2, <1>3, <1>4 DEF OrdersIInv, Credit

LEMMA OrdersNext == ASSUME OrdersIInv, Orders!Next PROVE OrdersStep
  <1>1. ASSUME NEW w \in Workers, Orders!Request(w) PROVE OrdersStep
    BY <1>1, CreateStep, ReplayStep DEF Orders!Request
  <1>2. ASSUME NEW w \in Workers, Orders!Continue(w) PROVE OrdersStep
    BY <1>2, ReconcileStep, AnswerStep, RefusalStep, FinishStep,
       ReleaseOrderStep
       DEF Orders!Continue
  <1>. QED BY <1>1, <1>2, StartOrderSweep, ThrowStep, CallDies, CreditStep,
              MarkStep, RefundStep, AdminStep, AgeStep DEF Orders!Next

LEMMA OrdersRest == ASSUME OrdersIInv, UNCHANGED orderVars PROVE OrdersStep
  <1>1. UNCHANGED <<orders, idempotencies, credits, refunds, webhookEventIds,
                    adminOperations, sessions, worker, crashes>>
    BY DEF orderVars
  <1>2. Orders!TypeOK
    BY DEF OrdersIInv
  <1>3. SameTerms
    BY <1>1, <1>2, NothingMoves
  <1>4. /\ worker' \in [Workers -> Orders!Worker] /\ WorkersKnow'
        /\ Orders!ClaimsDoNotOverlap
    BY <1>1, WorkersStay
  <1>5. /\ KeysKnow' /\ Orders!OneOrderPerRequest' /\ Credit'
        /\ Orders!CheckoutStays
    BY <1>3, SameTermsKeep
  <1>6. Orders!TypeOK'
    BY <1>1, <1>2 DEF Orders!TypeOK
  <1>. QED BY <1>4, <1>5, <1>6 DEF OrdersIInv, OrdersStep

LEMMA NextOrders ==
    ASSUME OrdersIInv, [MCNext]_<<part, vars, orderVars, subsVars>>
    PROVE  OrdersStep
  <1>1. Orders!Next \/ UNCHANGED orderVars
    BY DEF MCNext, TopUpsNext, Orders!PromptNext
  <1>. QED BY <1>1, OrdersNext, OrdersRest

(* However requests, sweeps, failures and events of the provider           *)
(* interleave: every order belongs to one request, each balance is what    *)
(* was paid, each order once, less what was refunded of it, and repeated   *)
(* refunds take back exactly their rounded share (BillingService).         *)
THEOREM OrdersHold == MCSpec => []OrdersInv
  <1>1. MCInit => OrdersIInv
    BY InitOrders DEF MCInit
  <1>2. OrdersIInv /\ [MCNext]_<<part, vars, orderVars, subsVars>>
            => OrdersIInv'
    BY NextOrders DEF OrdersStep
  <1>3. OrdersIInv => OrdersInv
    <2>. SUFFICES ASSUME OrdersIInv PROVE OrdersInv
      OBVIOUS
    <2>1. Orders!BalanceIsPaidLessRefunded
      BY OrdersTotal DEF OrdersIInv, Credit, Accounted,
         Orders!BalanceIsPaidLessRefunded
    <2>. QED BY <2>1 DEF OrdersIInv, OrdersInv, Credit
  <1>. QED BY <1>1, <1>2, <1>3, PTL DEF MCSpec

(* A fee is only ever taken for a subscription that is not being cancelled. *)
LEMMA ChargesFew ==
    ASSUME [Subs!Next]_subsVars PROVE Subs!NeverChargesCancelled
  <1>1. CASE ledger' = ledger
    BY <1>1 DEF Subs!NeverChargesCancelled
  <1>2. ASSUME NEW i \in SubIds, NEW f, f.sub = i, ledger' = ledger \cup {f},
               subs[i] # None => ~subs[i].cancelling
        PROVE  Subs!NeverChargesCancelled
    BY <1>2 DEF Subs!NeverChargesCancelled
  <1>3. ASSUME NEW a, NEW o, NEW k, Subs!Subscribe(a, o, k)
        PROVE  Subs!NeverChargesCancelled
    BY <1>2, <1>3 DEF Subs!Subscribe, Subs!Charge
  <1>4. ASSUME NEW w, NEW i \in SubIds, Subs!Renew(w, i)
        PROVE  Subs!NeverChargesCancelled
    BY <1>1, <1>2, <1>4 DEF Subs!Renew, Subs!Charge
  <1>5. ASSUME NEW w, Subs!Recover(w) PROVE Subs!NeverChargesCancelled
    BY <1>1, <1>2, <1>5
       DEF Subs!Recover, Subs!Charge, Subs!Recoverable, Subs!Owned
  <1>. QED BY <1>1, <1>3, <1>4, <1>5
           DEF Subs!Next, subsVars, Subs!Cancel, Subs!StartSweep, Subs!Deliver,
               Subs!Crash, Subs!Tick

(* While a first attempt may still be under way nobody else asks the       *)
(* provider, a checkout that was recorded is never replaced, and what is   *)
(* cancelled is not charged again, whatever interleaves.                   *)
THEOREM PaymentStepsHold == MCSpec => PaymentSteps
  <1>1. MCInit => OrdersIInv
    BY InitOrders DEF MCInit
  <1>2. OrdersIInv /\ [MCNext]_<<part, vars, orderVars, subsVars>>
            => OrdersIInv'
    BY NextOrders DEF OrdersStep
  <1>3. OrdersIInv /\ [MCNext]_<<part, vars, orderVars, subsVars>>
        => [/\ Orders!ClaimsDoNotOverlap /\ Orders!CheckoutStays
            /\ Subs!NeverChargesCancelled]_<<orderVars, subsVars>>
    <2>1. [MCNext]_<<part, vars, orderVars, subsVars>> => [Subs!Next]_subsVars
      BY DEF MCNext, TopUpsNext
    <2>. QED BY <2>1, NextOrders, ChargesFew DEF OrdersStep
  <1>. QED BY <1>1, <1>2, <1>3, PTL DEF MCSpec, PaymentSteps
=============================================================================
