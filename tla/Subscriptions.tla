---------------------------- MODULE Subscriptions ----------------------------
(***************************************************************************)
(* Monthly subscriptions: `XmclPlusService` (src/src/xmclPlus.ts) and the  *)
(* commercial part of `SharedHostingService` (src/src/sharedHosting.ts).   *)
(* Both charge a fee from the cash balance when a subscription is made and *)
(* again at each renewal; what a cron sweep cannot charge becomes          *)
(* "payment_due".  A paid top-up tries to bring XMCL Plus back.            *)
(*                                                                         *)
(* A sweep reads the ids that are due and then renews them one transaction *)
(* at a time, so sweeps of several isolates, requests and payment webhooks *)
(* interleave between those transactions (module BillingStore).  A         *)
(* calendar month is Period ticks.                                         *)
(***************************************************************************)
EXTENDS Integers, FiniteSets

CONSTANTS Accounts, SubIds, Workers,
          Keys,                  \* idempotency keys of the requests
          Price,                 \* monthly fee of each offer
          Period,
          Wait,                  \* bound: a wait for the lease of the store
          TopUps, TopUpOf,       \* payment events: account and amount
          None,
          MaxNow,                \* bound: the last time of the clock
          MaxCrashes             \* bound: workers that die in the middle

Offers == {"plus", "hosting"}

Subscription ==
    [offer : Offers, account : Accounts,
     status : {"active", "payment_due", "cancelled"},
     start : Nat, end : Nat, cancelling : BOOLEAN]

SubscriptionsAssumption ==
    /\ Price \in [Offers -> Nat \ {0}]
    /\ Period \in Nat \ {0} /\ Wait \in Nat /\ Wait < Period
    /\ MaxNow \in Nat /\ MaxCrashes \in Nat
    /\ TopUpOf \in [TopUps -> [account : Accounts, amount : Nat \ {0}]]
    /\ None \notin Subscription

VARIABLES now, balances, subs,
          seen,        \* state.idempotencies: requests that succeeded
          ledger,      \* the base fee entries, by subscription and period
          credited,    \* state.webhookEventIds
          answered,    \* payment events the provider need not deliver again
          worker,
          crashes

vars == <<now, balances, subs, seen, ledger, credited, answered, worker,
          crashes>>

(* A sweep ("renew") over the ids `todo`, for the time `at` it was started *)
(* with; or the recovery that follows a payment event ("recover") credited *)
(* at the time `at`.                                                       *)
Worker == [pc : {"idle", "renew", "recover"}, at : Nat, todo : SUBSET SubIds,
           event : TopUps \cup {None}]

TypeOK ==
    /\ now \in Nat
    /\ balances \in [Accounts -> Nat]
    /\ subs \in [SubIds -> Subscription \cup {None}]
    /\ seen \subseteq Accounts \X Offers \X {"subscribe", "cancel"} \X Keys
    /\ ledger \subseteq [sub : SubIds, start : Nat, end : Nat]
    /\ credited \subseteq TopUps /\ answered \subseteq credited
    /\ worker \in [Workers -> Worker]
    /\ crashes \in 0 .. MaxCrashes

Idle == [pc |-> "idle", at |-> 0, todo |-> {}, event |-> None]

Init ==
    /\ now = 0
    /\ balances = [a \in Accounts |-> 0]
    /\ subs = [s \in SubIds |-> None]
    /\ seen = {} /\ ledger = {} /\ credited = {} /\ answered = {}
    /\ worker = [w \in Workers |-> Idle]
    /\ crashes = 0
-----------------------------------------------------------------------------

Owned(a, offer) ==
    {s \in SubIds : /\ subs[s] # None
                    /\ subs[s].account = a /\ subs[s].offer = offer}

(* Fault for a mutation run: the balance is not looked at.                 *)
CanPay_InDebt(s) == TRUE

CanPay(s) == balances[s.account] >= Price[s.offer]

(* `charge`, `chargeBaseFee`: the fee of the period the subscription has.  *)
Charge(id, s) ==
    /\ balances' = [balances EXCEPT ![s.account] = @ - Price[s.offer]]
    /\ ledger' = ledger \cup {[sub |-> id, start |-> s.start, end |-> s.end]}

(* Fault for a mutation run: a subscription that is due does not count.    *)
Current_ActiveOnly(a, offer) ==
    {s \in Owned(a, offer) : subs[s].status = "active"}

(* The subscriptions that stand in the way of another one.                 *)
Current(a, offer) ==
    {s \in Owned(a, offer) : subs[s].status \in {"active", "payment_due"}}

(* `subscribe`, new key: the first period starts and is paid now.          *)
Subscribe(a, offer, k) ==
    /\ <<a, offer, "subscribe", k>> \notin seen
    /\ Current(a, offer) = {}
    /\ \E id \in SubIds :
        LET s == [offer |-> offer, account |-> a, status |-> "active",
                  start |-> now, end |-> now + Period, cancelling |-> FALSE] IN
        /\ subs[id] = None
        /\ CanPay(s)
        /\ Charge(id, s)
        /\ subs' = [subs EXCEPT ![id] = s]
    /\ seen' = seen \cup {<<a, offer, "subscribe", k>>}
    /\ UNCHANGED <<now, credited, answered, worker, crashes>>

(* `cancel`, new key: it only takes effect when the period ends.           *)
Cancel(a, offer, k) ==
    /\ <<a, offer, "cancel", k>> \notin seen
    /\ \E id \in Owned(a, offer) :
        /\ subs[id].status # "cancelled"
        /\ subs' = [subs EXCEPT ![id].cancelling = TRUE]
    /\ seen' = seen \cup {<<a, offer, "cancel", k>>}
    /\ UNCHANGED <<now, balances, ledger, credited, answered, worker, crashes>>

Due(id, at) ==
    /\ subs[id] # None
    /\ subs[id].status = "active" /\ subs[id].end <= at

DueIds(offer, at) == {s \in SubIds : Due(s, at) /\ subs[s].offer = offer}

(* `renewDue`: reads what is due at the time the cron was scheduled for.   *)
StartSweep(w, offer) ==
    /\ worker[w].pc = "idle"
    /\ DueIds(offer, now) # {}
    /\ worker' = [worker EXCEPT ![w] =
         [Idle EXCEPT !.pc = "renew", !.at = now,
                      !.todo = DueIds(offer, now)]]
    /\ UNCHANGED <<now, balances, subs, seen, ledger, credited, answered,
                   crashes>>

Continue(w, todo) ==
    worker' = [worker EXCEPT ![w] =
        IF todo = {} THEN Idle ELSE [@ EXCEPT !.todo = todo]]

(* Fault for a mutation run: charged before the period is moved on.        *)
Renew_ChargesFirst(w, id) ==
    /\ worker[w].pc = "renew" /\ id \in worker[w].todo
    /\ LET s == subs[id] IN
        /\ Due(id, worker[w].at) /\ ~s.cancelling /\ CanPay(s)
        /\ Charge(id, s)
        /\ subs' = [subs EXCEPT ![id].start = s.end,
                                ![id].end = s.end + Period]
    /\ Continue(w, worker[w].todo \ {id})
    /\ UNCHANGED <<now, seen, credited, answered, crashes>>

(* `renew`: the outcome of the renewal is decided by the subscription as   *)
(* it is now.                                                              *)
Renew(w, id) ==
    /\ worker[w].pc = "renew" /\ id \in worker[w].todo
    /\ LET s == subs[id]
           next == [s EXCEPT !.start = s.end, !.end = s.end + Period] IN
        \/ /\ ~Due(id, worker[w].at)
           /\ UNCHANGED <<subs, balances, ledger>>
        \/ /\ Due(id, worker[w].at) /\ s.cancelling
           /\ subs' = [subs EXCEPT ![id].status = "cancelled"]
           /\ UNCHANGED <<balances, ledger>>
        \/ /\ Due(id, worker[w].at) /\ ~s.cancelling /\ ~CanPay(s)
           /\ subs' = [subs EXCEPT ![id].status = "payment_due"]
           /\ UNCHANGED <<balances, ledger>>
        \/ /\ Due(id, worker[w].at) /\ ~s.cancelling /\ CanPay(s)
           /\ subs' = [subs EXCEPT ![id] = next]
           /\ Charge(id, next)
    /\ Continue(w, worker[w].todo \ {id})
    /\ UNCHANGED <<now, seen, credited, answered, crashes>>

(* Fault for a mutation run: a repeated delivery is answered at once.      *)
Deliver_FirstOnly(w, e) ==
    /\ worker[w].pc = "idle" /\ e \notin credited
    /\ balances' = [balances EXCEPT ![TopUpOf[e].account] =
                      @ + TopUpOf[e].amount]
    /\ credited' = credited \cup {e}
    /\ worker' = [worker EXCEPT ![w] =
         [Idle EXCEPT !.pc = "recover", !.at = now, !.event = e]]
    /\ UNCHANGED <<now, subs, seen, ledger, answered, crashes>>

(* A payment event: it credits the account once, and every delivery of it  *)
(* goes on to `recoverPaymentDue`.                                         *)
Deliver(w, e) ==
    /\ worker[w].pc = "idle" /\ e \notin answered
    /\ balances' = IF e \in credited THEN balances
                   ELSE [balances EXCEPT ![TopUpOf[e].account] =
                           @ + TopUpOf[e].amount]
    /\ credited' = credited \cup {e}
    /\ worker' = [worker EXCEPT ![w] =
         [Idle EXCEPT !.pc = "recover", !.at = now, !.event = e]]
    /\ UNCHANGED <<now, subs, seen, ledger, answered, crashes>>

(* Faults for the mutation runs: a recovery that pays for the past, and    *)
(* one that overlooks a cancellation.                                      *)
Recovered_Backdated(s, at) == [s EXCEPT !.status = "active"]

Recoverable_AlsoCancelling(s) == CanPay(s)

(* The subscription starts over at the time the webhook took.              *)
Recovered(s, at) ==
    [s EXCEPT !.status = "active", !.start = at, !.end = at + Period]

Recoverable(s) == ~s.cancelling /\ CanPay(s)

(* `recoverPaymentDue` of XMCL Plus; shared hosting has no such operation. *)
(* The webhook takes the time after the credit, and before the transaction *)
(* that uses it waits for the lease.                                       *)
Recover(w) ==
    /\ worker[w].pc = "recover"
    /\ \E at \in worker[w].at .. now :
        LET e == worker[w].event
            due == {s \in Owned(TopUpOf[e].account, "plus") :
                      subs[s].status = "payment_due"} IN
        /\ now <= at + Wait
        /\ IF due = {} THEN UNCHANGED <<subs, balances, ledger>>
           ELSE \E id \in due :
             \/ /\ Recoverable(subs[id])
                /\ subs' = [subs EXCEPT ![id] = Recovered(@, at)]
                /\ Charge(id, Recovered(subs[id], at))
             \/ /\ ~Recoverable(subs[id])
                /\ subs' = IF subs[id].cancelling
                           THEN [subs EXCEPT ![id].status = "cancelled"]
                           ELSE subs
                /\ UNCHANGED <<balances, ledger>>
        /\ answered' = answered \cup {e}
    /\ worker' = [worker EXCEPT ![w] = Idle]
    /\ UNCHANGED <<now, seen, credited, crashes>>

(* The isolate dies, or the store refuses the next transaction.            *)
Crash(w) ==
    /\ worker[w].pc # "idle" /\ crashes < MaxCrashes
    /\ crashes' = crashes + 1
    /\ worker' = [worker EXCEPT ![w] = Idle]
    /\ UNCHANGED <<now, balances, subs, seen, ledger, credited, answered>>

Tick ==
    /\ now < MaxNow
    /\ now' = now + 1
    /\ UNCHANGED <<balances, subs, seen, ledger, credited, answered, worker,
                   crashes>>

Next ==
    \/ \E a \in Accounts, o \in Offers, k \in Keys :
           Subscribe(a, o, k) \/ Cancel(a, o, k)
    \/ \E w \in Workers :
        \/ \E o \in Offers : StartSweep(w, o)
        \/ \E id \in SubIds : Renew(w, id)
        \/ \E e \in TopUps : Deliver(w, e)
        \/ Recover(w)
        \/ Crash(w)
    \/ Tick

Spec == Init /\ [][Next]_vars

(* The cron runs again and again, the provider delivers an event until it  *)
(* is answered, and a call that is not cut off runs to its end.            *)
Fairness ==
    \A w \in Workers :
        /\ \A o \in Offers : SF_vars(StartSweep(w, o))
        /\ \A id \in SubIds : WF_vars(Renew(w, id))
        /\ \A e \in TopUps : SF_vars(Deliver(w, e))
        /\ WF_vars(Recover(w))

FairSpec == Spec /\ Fairness
-----------------------------------------------------------------------------

(* The total of amounts in Nat, as the number of their units.              *)
Units(amount) == UNION {{x} \X (1..amount[x]) : x \in DOMAIN amount}

Total(amount) == Cardinality(Units(amount))

(* What an account paid in, and the fees it was charged.                   *)
PaidIn(a) ==
    [e \in TopUps |-> IF e \in credited /\ TopUpOf[e].account = a
                     THEN TopUpOf[e].amount ELSE 0]

FeesOf(a) ==
    [f \in ledger |-> IF subs[f.sub].account = a
                     THEN Price[subs[f.sub].offer] ELSE 0]

(* No fee is charged twice and none is lost: with sweeps, webhooks and     *)
(* requests interleaved, what the account paid in is its balance plus one  *)
(* fee per ledger entry.                                                   *)
FeesAccountForMoney ==
    \A a \in Accounts : Total(PaidIn(a)) = balances[a] + Total(FeesOf(a))

SameOwner(i, j) ==
    subs[i].account = subs[j].account /\ subs[i].offer = subs[j].offer

(* No time is paid for twice, but for the wait of a recovery for the lease *)
(* (a sweep may find the end of the period in it): the paid periods of an  *)
(* account for one offer do not overlap by more, across renewals,          *)
(* recoveries, and a cancelled subscription followed by a new one.         *)
PaidPeriodsDisjoint ==
    \A f, g \in ledger :
        f # g /\ SameOwner(f.sub, g.sub) =>
            f.end <= g.start + Wait \/ g.end <= f.start + Wait

(* What `BillingEntitlementReader` grants has been paid for: an active     *)
(* subscription has a fee entry for exactly its current period.            *)
ActiveIsPaid ==
    \A s \in SubIds :
        subs[s] # None /\ subs[s].status = "active" =>
            [sub |-> s, start |-> subs[s].start, end |-> subs[s].end] \in ledger

(* A cancelled subscription is never charged again, whether the sweep that *)
(* finds it had read it before the cancellation or a payment recovers it.  *)
NeverChargesCancelled ==
    \A f \in ledger' \ ledger : subs[f.sub] # None => ~subs[f.sub].cancelling

(* XMCL Plus is recovered by a payment that covers it, although the        *)
(* recovery is a separate transaction its webhook may not live to run.     *)
PaymentRecoversPlus ==
    \A s \in SubIds, e \in TopUps :
        /\ subs[s] # None /\ subs[s].offer = "plus"
        /\ subs[s].status = "payment_due"
        /\ e \in credited \ answered
        /\ TopUpOf[e].account = subs[s].account
        ~> \/ subs[s] # None /\ subs[s].status # "payment_due"
           \/ subs[s] # None /\ balances[subs[s].account] < Price["plus"]
=============================================================================
