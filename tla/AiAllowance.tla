----------------------------- MODULE AiAllowance -----------------------------
(***************************************************************************)
(* `AllowanceMeter` (src/src/allowanceMetering.ts) as /v1/chat/completions *)
(* (src/src/routes/chatCompletions.ts) uses it: units of the allowances of *)
(* one account are reserved before the provider is called, and settled by  *)
(* the usage it reports.                                                   *)
(*                                                                         *)
(* A source is one period of one subscription.  Sources are numbered in    *)
(* the order in which they end.  Each call of the meter is a transaction   *)
(* of the billing store, so it is one step (MongoBillingStore).            *)
(***************************************************************************)
EXTENDS Integers, FiniteSetsExt, Functions

CONSTANTS Requests, UsageIds, None,
          NumSources,
          Starts, Ends,   \* the period of each source
          Limit,          \* units of a source
          MaxUnits,       \* bound: units of a request
          StaleAfter,     \* one hour
          MaxTime         \* bound: the clock

Sources == 1 .. NumSources

AllowanceAssumption ==
    /\ NumSources \in Nat /\ Limit \in Nat /\ MaxUnits \in Nat \ {0}
    /\ StaleAfter \in Nat /\ MaxTime \in Nat
    /\ Starts \in [Sources -> Nat] /\ Ends \in [Sources -> Nat]
    /\ \A s, t \in Sources : s < t => Ends[s] <= Ends[t]
    /\ None \notin UsageIds

VARIABLES reservations,  \* state.aiAllowanceReservations
          usage,         \* state.allowanceUsage
          settled,       \* state.idempotencies: who settled a usage id
          call,          \* the requests
          now

vars == <<reservations, usage, settled, call, now>>

Times == 0 .. MaxTime
NoReservation == [maximum |-> 0]
Reservation == [maximum : 1 .. MaxUnits, created : Times,
                units : [Sources -> 0 .. Limit]]
Nothing == [s \in Sources |-> 0]
New == [pc |-> "new"]
Done == [pc |-> "done"]

TypeOK ==
    /\ reservations \in [Requests -> Reservation \cup {NoReservation}]
    /\ usage \in [Sources -> 0 .. Limit]
    /\ settled \in [UsageIds -> Requests \cup {None}]
    /\ call \in [Requests -> [pc : {"calling"}] \cup {New, Done} \cup
                             [pc : {"settling"}, units : 0 .. MaxUnits + 1,
                              id : UsageIds]]
    /\ now \in Times

Init ==
    /\ reservations = [r \in Requests |-> NoReservation]
    /\ usage = Nothing /\ settled = [i \in UsageIds |-> None]
    /\ call = [r \in Requests |-> New]
    /\ now = 0
-----------------------------------------------------------------------------

(* activeSources                                                           *)
Active == {s \in Sources : Starts[s] <= now /\ now < Ends[s]}

(* Fault for a mutation run: reservations are never given up.              *)
Fresh_All == reservations

(* The reservations that are not stale.                                    *)
Fresh ==
    [r \in Requests |->
        IF /\ reservations[r] # NoReservation
           /\ reservations[r].created < now - StaleAfter
        THEN NoReservation ELSE reservations[r]]

Holders(res) == {r \in Requests : res[r] # NoReservation}

(* reservedBySource                                                        *)
Reserved(res, s) ==
    MapThenSumSet(LAMBDA r : res[r].units[s], Holders(res))

(* Fault for a mutation run: what is reserved counts as available.         *)
Available_Unspent(s) == Max({0, Limit - usage[s]})

Available(s) == Max({0, Limit - usage[s] - Reserved(Fresh, s)})

Least(m, n) == IF m < n THEN m ELSE n

(* Fault for a mutation run: each source gives what the request needs.     *)
Allotment_Whole(n) ==
    [s \in Sources |-> IF s \in Active THEN Least(Available(s), n) ELSE 0]

(* The sources give what they can in the order in which they end.          *)
Allotment(n) ==
    [s \in Sources |->
        IF s \in Active
        THEN Least(Available(s),
                   Max({0, n - MapThenSumSet(Available,
                                             {t \in Active : t < s})}))
        ELSE 0]

Enough(n) == MapThenSumSet(Available, Active) >= n

(* reserveAi                                                               *)
Reserve(r, n) ==
    /\ call[r] = New
    /\ IF Enough(n)
       THEN /\ reservations' =
                  [Fresh EXCEPT ![r] = [maximum |-> n, created |-> now,
                                        units |-> Allotment(n)]]
            /\ call' = [call EXCEPT ![r] = [pc |-> "calling"]]
       ELSE /\ reservations' = Fresh
            /\ call' = [call EXCEPT ![r] = Done]
    /\ UNCHANGED <<usage, settled, now>>

(* The provider fails, or does not say what was used: releaseAi.           *)
Release(r) ==
    /\ call[r].pc = "calling"
    /\ reservations' = [reservations EXCEPT ![r] = NoReservation]
    /\ call' = [call EXCEPT ![r] = Done]
    /\ UNCHANGED <<usage, settled, now>>

(* The provider answers; it may use more than was asked for, and repeat an *)
(* id.                                                                     *)
Answer(r, n, i) ==
    /\ call[r].pc = "calling"
    /\ call' = [call EXCEPT ![r] = [pc |-> "settling", units |-> n, id |-> i]]
    /\ UNCHANGED <<reservations, usage, settled, now>>

(* Fault for a mutation run: the reservation is charged.                   *)
Charge_Reserved(res, n) == res.units

(* The part of n units that falls on each source.                          *)
Charge(res, n) ==
    [s \in Sources |->
        Least(res.units[s],
              Max({0, n - MapThenSumSet(LAMBDA t : res.units[t],
                                        {t \in Sources : t < s})}))]

MaySettle(r) ==
    /\ settled[call[r].id] = None
    /\ reservations[r] # NoReservation
    /\ call[r].units <= reservations[r].maximum

(* settleAi: a usage that may not be settled is an error, and the          *)
(* reservation stays.                                                      *)
Settle(r) ==
    /\ call[r].pc = "settling"
    /\ IF MaySettle(r)
       THEN /\ usage' = [s \in Sources |-> usage[s] +
                            Charge(reservations[r], call[r].units)[s]]
            /\ reservations' = [reservations EXCEPT ![r] = NoReservation]
            /\ settled' = [settled EXCEPT ![call[r].id] = r]
       ELSE UNCHANGED <<usage, reservations, settled>>
    /\ call' = [call EXCEPT ![r] = Done]
    /\ UNCHANGED now

(* The isolate ends, or an error is not one of those that release.         *)
Dies(r) ==
    /\ call[r].pc \in {"calling", "settling"}
    /\ call' = [call EXCEPT ![r] = Done]
    /\ UNCHANGED <<reservations, usage, settled, now>>

Tick ==
    /\ now < MaxTime
    /\ now' = now + 1
    /\ UNCHANGED <<reservations, usage, settled, call>>

Next ==
    \/ \E r \in Requests :
          \/ \E n \in 1 .. MaxUnits : Reserve(r, n)
          \/ \E n \in 0 .. MaxUnits + 1, i \in UsageIds : Answer(r, n, i)
          \/ Release(r) \/ Settle(r) \/ Dies(r)
    \/ Tick

Spec == Init /\ [][Next]_vars
-----------------------------------------------------------------------------

(* What is used and what is reserved never exceed the allowance, also when *)
(* a reservation is given up under a request that is still running and its *)
(* units are reserved again.                                               *)
NotOverdrawn ==
    \A s \in Sources : usage[s] + Reserved(reservations, s) <= Limit

(* A request that is running holds all the units it may come to use, until *)
(* they are taken from it as stale.                                        *)
ReservedInFull ==
    \A r \in Holders(reservations) :
        MapThenSumSet(LAMBDA s : reservations[r].units[s], Sources)
            = reservations[r].maximum

(* A usage is charged in full, over whichever sources were reserved for it *)
(* and however the period changed meanwhile.                               *)
ChargesInFull ==
    \A r \in Requests :
        Settle(r) /\ settled' # settled =>
            MapThenSumSet(LAMBDA s : usage'[s] - usage[s], Sources)
                = call[r].units

(* A request is refused for what is spent or held by requests of the last  *)
(* hour alone: one that died does not hold its units for ever.             *)
RefusesForCause ==
    \A r \in Requests, n \in 1 .. MaxUnits :
        Reserve(r, n) /\ call'[r] = Done =>
            MapThenSumSet(LAMBDA s : Limit - usage[s], Active) <
                n + MapThenSumSet(
                        LAMBDA q : reservations[q].maximum,
                        {q \in Holders(reservations) :
                            reservations[q].created >= now - StaleAfter})
=============================================================================
