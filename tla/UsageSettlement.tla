--------------------------- MODULE UsageSettlement ---------------------------
(***************************************************************************)
(* `UsageSettlementService` (src/src/usageSettlement.ts): a producer       *)
(* reserves cash for a metered resource, then settles one usage event      *)
(* against the reservation or releases it.  Requests and events are        *)
(* delivered in any order and any number of times.                         *)
(*                                                                         *)
(* A request or event is named by its content, which is what the stored    *)
(* fingerprints compare; its idempotency key and event id are part of it.  *)
(* Amounts stand for rate times quantity.  A refusal throws inside the     *)
(* transaction, so it changes nothing (module BillingStore): the status    *)
(* "expired" that `settle` assigns before it throws never reaches the      *)
(* store, and only the clock tells that an authorization has expired.      *)
(***************************************************************************)
EXTENDS Integers, FiniteSets

CONSTANTS Producers, Accounts, Sources, Keys, EventIds, AuthIds,
          Requests, RequestOf,   \* authorization requests, by content
          Usages, UsageOf,       \* usage events, by content
          Deposit,               \* availableMinor of each account at first
          None,
          MaxNow                 \* bound: the last time of the clock

NoSequence == 0

Request == [account : Accounts, source : Sources, key : Keys, amount : Nat,
            interval : Nat \ {0}, expiresAt : Nat \ {0}]

(* start and end are positive times; sequence is NoSequence when omitted.  *)
Usage == [eventId : EventIds, key : Keys, auth : AuthIds, account : Accounts,
          source : Sources, charge : Nat, start : Nat \ {0},
          end : Nat \ {0}, sequence : Nat]

(* granted is rate times expectedQuantity, which the record keeps.         *)
Authorization ==
    [account : Accounts, producer : Producers, source : Sources,
     granted : Nat, reserved : Nat, interval : Nat, expiresAt : Nat,
     status : {"authorized", "released"}, settled : BOOLEAN]

(* What is kept of an event, by its id.                                    *)
SettlementRecord ==
    [usage : Usages, status : {"settled", "rejected"}, charged : Nat]

UsageAssumption ==
    /\ RequestOf \in [Requests -> Request]
    /\ UsageOf \in [Usages -> Usage]
    /\ \A u \in Usages : UsageOf[u].start < UsageOf[u].end
    /\ Deposit \in Nat /\ MaxNow \in Nat
    /\ None \notin Requests \cup Usages \cup AuthIds \cup EventIds
    /\ None \notin Authorization \cup SettlementRecord

VARIABLES now, balances, authorizations,
          authorizeKeys, releaseKeys, settleKeys,  \* state.idempotencies
          settlements,                             \* settlementsByEventId
          streams,                                 \* cursor of each stream
          charged, released                        \* ledger totals

vars == <<now, balances, authorizations, authorizeKeys, releaseKeys,
          settleKeys, settlements, streams, charged, released>>

TypeOK ==
    /\ now \in Nat
    /\ balances \in [Accounts -> [available : Int, reserved : Nat]]
    /\ authorizations \in [AuthIds -> Authorization \cup {None}]
    /\ authorizeKeys \in
         [Producers \X Keys -> [request : Requests, auth : AuthIds] \cup {None}]
    /\ releaseKeys \in [Producers \X Keys -> AuthIds \cup {None}]
    /\ settleKeys \in [Producers \X Keys -> Usages \cup {None}]
    /\ settlements \in
         [EventIds -> SettlementRecord \cup {None}]
    /\ streams \in [Accounts \X Sources -> [sequence : Nat, end : Nat]]
    /\ charged \in [Accounts -> Nat] /\ released \in [Accounts -> Nat]

Init ==
    /\ now = 0
    /\ balances = [a \in Accounts |-> [available |-> Deposit, reserved |-> 0]]
    /\ authorizations = [i \in AuthIds |-> None]
    /\ authorizeKeys = [s \in Producers \X Keys |-> None]
    /\ releaseKeys = [s \in Producers \X Keys |-> None]
    /\ settleKeys = [s \in Producers \X Keys |-> None]
    /\ settlements = [e \in EventIds |-> None]
    /\ streams = [s \in Accounts \X Sources |->
                    [sequence |-> NoSequence, end |-> 0]]
    /\ charged = [a \in Accounts |-> 0]
    /\ released = [a \in Accounts |-> 0]
-----------------------------------------------------------------------------

(* `authorize` for a new key: the amount moves from available to reserved. *)
Authorize(p, r) ==
    LET req == RequestOf[r] IN
    /\ req.expiresAt > now
    /\ authorizeKeys[<<p, req.key>>] = None
    /\ balances[req.account].available >= req.amount
    /\ \E i \in AuthIds :
        /\ authorizations[i] = None
        /\ authorizations' = [authorizations EXCEPT ![i] =
             [account |-> req.account, producer |-> p, source |-> req.source,
              granted |-> req.amount, reserved |-> req.amount,
              interval |-> req.interval, expiresAt |-> req.expiresAt,
              status |-> "authorized", settled |-> FALSE]]
        /\ authorizeKeys' = [authorizeKeys EXCEPT ![<<p, req.key>>] =
             [request |-> r, auth |-> i]]
    /\ balances' = [balances EXCEPT ![req.account] =
         [available |-> @.available - req.amount,
          reserved |-> @.reserved + req.amount]]
    /\ UNCHANGED <<now, releaseKeys, settleKeys, settlements, streams,
                   charged, released>>

(* Fault for a mutation run: a settled authorization still counts.         *)
Open_ByStatus(auth) == auth.status = "authorized"

Open(auth) == auth.status = "authorized" /\ ~auth.settled

(* Fault for a mutation run: the authorization is not marked as released.  *)
Release_Forgets(p, i, k) ==
    LET auth == authorizations[i] IN
    /\ releaseKeys[<<p, k>>] = None
    /\ auth # None /\ auth.producer = p
    /\ balances' = [balances EXCEPT ![auth.account] =
         [available |-> @.available + auth.reserved,
          reserved |-> @.reserved - auth.reserved]]
    /\ released' = [released EXCEPT ![auth.account] = @ + auth.reserved]
    /\ releaseKeys' = [releaseKeys EXCEPT ![<<p, k>>] = i]
    /\ UNCHANGED <<now, authorizations, authorizeKeys, settleKeys,
                   settlements, streams, charged>>

(* `release`: what is still reserved returns to the balance; a second      *)
(* release, or one after a settlement, is only remembered.                 *)
Release(p, i, k) ==
    LET auth == authorizations[i] IN
    /\ releaseKeys[<<p, k>>] = None
    /\ auth # None /\ auth.producer = p
    /\ IF Open(auth)
       THEN /\ balances' = [balances EXCEPT ![auth.account] =
                 [available |-> @.available + auth.reserved,
                  reserved |-> @.reserved - auth.reserved]]
            /\ released' = [released EXCEPT ![auth.account] =
                 @ + auth.reserved]
            /\ authorizations' = [authorizations EXCEPT
                 ![i].reserved = 0, ![i].status = "released"]
       ELSE UNCHANGED <<balances, released, authorizations>>
    /\ releaseKeys' = [releaseKeys EXCEPT ![<<p, k>>] = i]
    /\ UNCHANGED <<now, authorizeKeys, settleKeys, settlements, streams,
                   charged>>

(* Fault for a mutation run: order is checked by sequence only.            *)
InOrder_BySequence(u, cursor) ==
    IF u.sequence # NoSequence
    THEN cursor.sequence = NoSequence \/ u.sequence > cursor.sequence
    ELSE cursor.sequence = NoSequence

(* The usage continues its stream: no overlap with what was settled before *)
(* and a growing sequence, required from its first use on.                 *)
InOrder(u, cursor) ==
    /\ u.start >= cursor.end
    /\ IF u.sequence # NoSequence
       THEN cursor.sequence = NoSequence \/ u.sequence > cursor.sequence
       ELSE cursor.sequence = NoSequence

(* The checks of `settle` on a new event before it is charged.             *)
Accepted(p, u, auth) ==
    /\ auth # None /\ auth.producer = p
    /\ auth.account = u.account /\ auth.source = u.source
    /\ Open(auth)
    /\ auth.expiresAt > now
    /\ u.end - u.start <= auth.interval
    /\ InOrder(u, streams[<<u.account, u.source>>])

Settlement(x, status, amount) ==
    [usage |-> x, status |-> status, charged |-> amount]

(* The event is known under its id: only the key is recorded.              *)
SettleReplay(p, x) ==
    LET u == UsageOf[x] IN
    /\ settleKeys[<<p, u.key>>] = None
    /\ settlements[u.eventId] # None
    /\ settlements[u.eventId].usage = x
    /\ settleKeys' = [settleKeys EXCEPT ![<<p, u.key>>] = x]
    /\ UNCHANGED <<now, balances, authorizations, authorizeKeys, releaseKeys,
                   settlements, streams, charged, released>>

(* Fault for a mutation run: "stop_required" closes the authorization.     *)
SettleRejected_Closes(p, x) ==
    LET u == UsageOf[x]
        auth == authorizations[u.auth] IN
    /\ settleKeys[<<p, u.key>>] = None /\ settlements[u.eventId] = None
    /\ Accepted(p, u, auth)
    /\ u.charge > auth.reserved
    /\ authorizations' = [authorizations EXCEPT ![u.auth].status = "released"]
    /\ settlements' = [settlements EXCEPT ![u.eventId] =
                         Settlement(x, "rejected", 0)]
    /\ settleKeys' = [settleKeys EXCEPT ![<<p, u.key>>] = x]
    /\ UNCHANGED <<now, balances, authorizeKeys, releaseKeys, streams,
                   charged, released>>

(* The charge exceeds the reservation: "stop_required".  Nothing is        *)
(* charged and the authorization stays open.                               *)
SettleRejected(p, x) ==
    LET u == UsageOf[x]
        auth == authorizations[u.auth] IN
    /\ settleKeys[<<p, u.key>>] = None /\ settlements[u.eventId] = None
    /\ Accepted(p, u, auth)
    /\ u.charge > auth.reserved
    /\ settlements' = [settlements EXCEPT ![u.eventId] =
                         Settlement(x, "rejected", 0)]
    /\ settleKeys' = [settleKeys EXCEPT ![<<p, u.key>>] = x]
    /\ UNCHANGED <<now, balances, authorizations, authorizeKeys, releaseKeys,
                   streams, charged, released>>

(* Fault for a mutation run: the rest of the reservation is lost.          *)
Settle_KeepsRest(p, x) ==
    LET u == UsageOf[x]
        auth == authorizations[u.auth] IN
    /\ settleKeys[<<p, u.key>>] = None /\ settlements[u.eventId] = None
    /\ Accepted(p, u, auth)
    /\ u.charge <= auth.reserved
    /\ balances' = [balances EXCEPT ![u.account].reserved = @ - auth.reserved]
    /\ charged' = [charged EXCEPT ![u.account] = @ + u.charge]
    /\ authorizations' = [authorizations EXCEPT
         ![u.auth].reserved = 0, ![u.auth].settled = TRUE]
    /\ settlements' = [settlements EXCEPT ![u.eventId] =
                         Settlement(x, "settled", u.charge)]
    /\ settleKeys' = [settleKeys EXCEPT ![<<p, u.key>>] = x]
    /\ UNCHANGED <<now, authorizeKeys, releaseKeys, streams, released>>

(* The event is charged and the rest of the reservation returned.          *)
Settle(p, x) ==
    LET u == UsageOf[x]
        auth == authorizations[u.auth]
        unused == auth.reserved - u.charge IN
    /\ settleKeys[<<p, u.key>>] = None /\ settlements[u.eventId] = None
    /\ Accepted(p, u, auth)
    /\ u.charge <= auth.reserved
    /\ balances[u.account].reserved >= auth.reserved
    /\ balances' = [balances EXCEPT ![u.account] =
         [available |-> @.available + unused,
          reserved |-> @.reserved - auth.reserved]]
    /\ charged' = [charged EXCEPT ![u.account] = @ + u.charge]
    /\ released' = [released EXCEPT ![u.account] = @ + unused]
    /\ authorizations' = [authorizations EXCEPT
         ![u.auth].reserved = 0, ![u.auth].settled = TRUE]
    /\ streams' = [streams EXCEPT ![<<u.account, u.source>>] =
         [sequence |-> IF u.sequence # NoSequence THEN u.sequence
                       ELSE @.sequence,
          end |-> u.end]]
    /\ settlements' = [settlements EXCEPT ![u.eventId] =
                         Settlement(x, "settled", u.charge)]
    /\ settleKeys' = [settleKeys EXCEPT ![<<p, u.key>>] = x]
    /\ UNCHANGED <<now, authorizeKeys, releaseKeys>>

Tick ==
    /\ now < MaxNow
    /\ now' = now + 1
    /\ UNCHANGED <<balances, authorizations, authorizeKeys, releaseKeys,
                   settleKeys, settlements, streams, charged, released>>

Next ==
    \/ \E p \in Producers :
        \/ \E r \in Requests : Authorize(p, r)
        \/ \E i \in AuthIds, k \in Keys : Release(p, i, k)
        \/ \E x \in Usages : \/ SettleReplay(p, x)
                             \/ SettleRejected(p, x)
                             \/ Settle(p, x)
    \/ Tick

Spec == Init /\ [][Next]_vars
-----------------------------------------------------------------------------

Granted == {i \in AuthIds : authorizations[i] # None}

SettledEvents ==
    {e \in EventIds : settlements[e] # None /\ settlements[e].status = "settled"}

UsageSettled(e) == UsageOf[settlements[e].usage]

(* The total of amounts in Nat, as the number of their units.              *)
Units(amount) == UNION {{x} \X (1..amount[x]) : x \in DOMAIN amount}

Total(amount) == Cardinality(Units(amount))

(* What the authorizations of an account hold, what they were granted, and *)
(* what the events of the account were charged.                            *)
HeldFor(a) ==
    [i \in AuthIds |->
       IF /\ i \in Granted /\ authorizations[i].account = a
          /\ Open(authorizations[i])
       THEN authorizations[i].reserved ELSE 0]

GrantedTo(a) ==
    [i \in AuthIds |->
       IF i \in Granted /\ authorizations[i].account = a
       THEN authorizations[i].granted ELSE 0]

ChargedTo(a) ==
    [e \in EventIds |->
       IF e \in SettledEvents /\ UsageSettled(e).account = a
       THEN settlements[e].charged ELSE 0]

(* The reserved part of a balance is what its open authorizations hold, so *)
(* no order of settlements, releases and expiries can strand or free it    *)
(* twice; and `settle` never meets its "reservation_state_conflict".       *)
ReservedIsHeld ==
    \A a \in Accounts : balances[a].reserved = Total(HeldFor(a))

(* Each reservation ends in exactly one way: what was granted is held,     *)
(* or charged by one settled event and the rest released.                  *)
ChargesMatchEvents ==
    \A a \in Accounts :
        /\ charged[a] = Total(ChargedTo(a))
        /\ charged[a] + released[a] + balances[a].reserved = Total(GrantedTo(a))
        /\ balances[a].available + balances[a].reserved + charged[a] = Deposit

(* An authorization pays for one event at most, and never more than was    *)
(* reserved for it.                                                        *)
OneEventPerAuthorization ==
    \A d, e \in SettledEvents :
        LET auth == authorizations[UsageSettled(e).auth] IN
        /\ auth.settled /\ settlements[e].charged <= auth.granted
        /\ d # e => UsageSettled(d).auth # UsageSettled(e).auth

SameStream(u, v) == u.account = v.account /\ u.source = v.source

(* Late, repeated or reordered events never bill the same time of a source *)
(* twice, whichever authorizations and producers they come from, and       *)
(* sequence numbers follow the time.                                       *)
IntervalsDisjoint ==
    \A d, e \in SettledEvents :
        LET u == UsageSettled(d)
            v == UsageSettled(e) IN
        d # e /\ SameStream(u, v) =>
            \/ u.end <= v.start /\ (v.sequence # NoSequence => u.sequence < v.sequence)
            \/ v.end <= u.start /\ (u.sequence # NoSequence => v.sequence < u.sequence)

(* Usage: an authorization pays for one event, and no time of a source is  *)
(* billed twice, in whatever order events arrive.                          *)
UsageInv == IntervalsDisjoint /\ OneEventPerAuthorization

(* Holds: what a balance holds back is what its open authorizations        *)
(* reserve; what was granted is held, or charged by one event and the rest *)
(* released.                                                               *)
HoldsInv ==
    /\ TypeOK
    /\ ReservedIsHeld
    /\ ChargesMatchEvents
=============================================================================
