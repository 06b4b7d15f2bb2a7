----------------------------- MODULE MCPayments -------------------------------
(* Model-checking instances of what changes balances: top-ups              *)
(* (BillingOrders), usage (UsageSettlement) and subscriptions              *)
(* (Subscriptions).  Each is an atomic client of the billing store, and a  *)
(* behaviour exercises one of them, in one scope.                          *)
EXTENDS UsageSettlement, TLC

CONSTANTS Parts,   \* those that a run looks at
          w1, w2, o1, o2, paid1, paidAgain1, paid2, underpaid1,
          refundA, refundB, refundC, other, adjust, takeBack, a1, s1, s2

(* Usage: authorizations of 3 for one source that expire at different      *)
(* times, and events that overlap, exceed the reservation, cost nothing,   *)
(* or reuse an id or a key.                                                *)
UsageRequests ==
    LET Req(k, amount, expiry) ==
        [account |-> a1, source |-> "s", key |-> k, amount |-> amount,
         interval |-> 2, expiresAt |-> expiry] IN
    [r1 |-> Req("k1", 3, 2), r2 |-> Req("k2", 3, 1), r3 |-> Req("k1", 2, 2)]

UsageEvents ==
    LET Use(e, k, i, charge, start, end, seq) ==
        [eventId |-> e, key |-> k, auth |-> i, account |-> a1, source |-> "s",
         charge |-> charge, start |-> start, end |-> end, sequence |-> seq] IN
    [u1      |-> Use("e1", "k1", "i1", 2, 1, 3, 1),
     u1again |-> Use("e1", "k2", "i2", 2, 1, 3, 1),
     u2      |-> Use("e2", "k2", "i2", 3, 3, 4, 2),
     u3      |-> Use("e3", "k3", "i2", 1, 2, 4, 3),
     big     |-> Use("e2", "k3", "i1", 4, 3, 4, 2),
     free    |-> Use("e3", "k3", "i2", 0, 4, 5, 3),
     late    |-> Use("e3", "k1", "i2", 1, 4, 6, 0)]

MCRequests == DOMAIN UsageRequests
MCUsages == DOMAIN UsageEvents

ASSUME UsageAssumption
-----------------------------------------------------------------------------
(* Top-ups.  The provider adds tax, so a payment of 10 is a total of 11.   *)
CONSTANTS Workers,   \* requests and sweeps in flight
          Recovery,  \* ticks after which an attempt is taken for dead
          RequestKeys, Amounts, OrderIds, Notifications, NotificationOf,
          AdminOperations, AdminOperationOf, MaxSafeInteger, MaxSessions,
          MaxCrashes

MCNotifications ==
    LET Event(kind, o, paid, total) ==
            [kind |-> kind, order |-> o, paid |-> paid, total |-> total] IN
    (paid1 :> Event("completed", o1, 10, 11))
    @@ (paidAgain1 :> Event("completed", o1, 10, 11))
    @@ (paid2 :> Event("completed", o2, 10, 10))
    @@ (underpaid1 :> Event("completed", o1, 9, 11))
    @@ (refundA :> Event("refunded", o1, 5, 11))
    @@ (refundB :> Event("refunded", o1, 1, 11))
    @@ (refundC :> Event("refunded", o1, 5, 11))
    @@ (other :> Event("other", o1, 1, 1))

MCAdminOperations ==
    (adjust :> [action |-> "balance_adjust", account |-> a1, amount |-> 5])
    @@ (takeBack :> [action |-> "refund", account |-> a1, amount |-> 5])

MCNotificationIds == DOMAIN MCNotifications
MCAdminOperationIds == DOMAIN MCAdminOperations

VARIABLES orders, idempotencies, credits, refunds, webhookEventIds,
          adminOperations, sessions, worker, crashes

orderVars == <<orders, idempotencies, credits, refunds, webhookEventIds,
               adminOperations, sessions, worker, crashes>>

Orders == INSTANCE BillingOrders WITH balances <- credits

ASSUME TopUpsAssumption == Orders!OrdersAssumption
-----------------------------------------------------------------------------
(* Subscriptions: payments that cover a few fees, so that some renewals    *)
(* find too little money.                                                  *)
CONSTANTS SubIds, Renewers, SubKeys, Price, Period, Wait, TopUps, TopUpOf,
          MaxMonths, MaxDeaths

Prices == [plus |-> 2, hosting |-> 3]

MCTopUps == {5, 3}

TopUpAmounts == [n \in MCTopUps |-> [account |-> a1, amount |-> n]]

VARIABLES today, money, subs, seen, ledger, credited, answered, renewer, deaths

subsVars == <<today, money, subs, seen, ledger, credited, answered, renewer,
              deaths>>

Subs == INSTANCE Subscriptions
    WITH now <- today, balances <- money, Workers <- Renewers,
        worker <- renewer,
         crashes <- deaths, Keys <- SubKeys, MaxNow <- MaxMonths,
         MaxCrashes <- MaxDeaths

ASSUME PlusAssumption == Subs!SubscriptionsAssumption
-----------------------------------------------------------------------------
VARIABLE part

MCInit ==
    part \in Parts /\ Orders!Init /\ Init /\ Subs!Init

(* Two workers compete for one checkout; or all events, with one worker;   *)
(* or calls that end in time.                                              *)
TopUpsNext ==
    /\ UNCHANGED <<part, vars, subsVars>>
    /\ \/ /\ part = "checkouts" /\ Orders!Next
          /\ webhookEventIds' \subseteq {paid1} /\ adminOperations' = {}
          /\ orders'[o2] = None
       \/ /\ part = "events" /\ Orders!Next
          /\ worker'[w2] = Orders!Idle /\ crashes' = 0
          /\ \A o \in OrderIds : sessions'[o] <= 1
       \/ /\ part = "prompt" /\ Orders!PromptNext
          /\ webhookEventIds' \subseteq {paid1} /\ adminOperations' = {}
          /\ orders'[o2] = None

MCNext ==
    \/ TopUpsNext
    \/ part = "usage" /\ Next /\ UNCHANGED <<part, orderVars, subsVars>>
    \/ part = "renewals" /\ Subs!Next /\ UNCHANGED <<part, orderVars, vars>>

MCSpec == MCInit /\ [][MCNext]_<<part, vars, orderVars, subsVars>>

(* The fairness of each component, in the parts about its liveness.        *)
MCFairness ==
    /\ WF_orderVars(part = "prompt" /\ Orders!Tick /\ Orders!Prompt)
    /\ \A w \in Workers :
        /\ SF_orderVars(part = "prompt" /\ Orders!StartSweep(w))
        /\ WF_orderVars(part = "prompt" /\ Orders!Continue(w))
        /\ \A o \in OrderIds :
             SF_orderVars(/\ part = "prompt" /\ Orders!ProviderAnswers(w)
                          /\ worker[w].order = o)
    /\ \A w \in Renewers :
        /\ \A o \in Subs!Offers :
             SF_subsVars(part = "renewals" /\ Subs!StartSweep(w, o))
        /\ \A id \in SubIds :
               WF_subsVars(part = "renewals" /\ Subs!Renew(w, id))
        /\ \A e \in TopUps :
               SF_subsVars(part = "renewals" /\ Subs!Deliver(w, e))
        /\ WF_subsVars(part = "renewals" /\ Subs!Recover(w))

MCFairSpec == MCSpec /\ MCFairness

Symmetry ==
    Permutations(Workers) \cup Permutations(SubIds) \cup Permutations(SubKeys)
-----------------------------------------------------------------------------
(* Top-up orders: one order per request, a balance that is what was paid   *)
(* less what was refunded, and refunds that take back their share.         *)
OrdersInv ==
    /\ Orders!TypeOK
    /\ Orders!OneOrderPerRequest
    /\ Orders!BalanceIsPaidLessRefunded
    /\ Orders!RefundsProportional

(* The provider is asked for one checkout at a time, the checkout that a   *)
(* customer holds is not replaced by an answer that is late, and a         *)
(* cancelled subscription is never charged again.                          *)
PaymentSteps ==
    [][/\ Orders!ClaimsDoNotOverlap
       /\ Orders!CheckoutStays
       /\ Subs!NeverChargesCancelled]_<<orderVars, subsVars>>

(* Subscriptions: what an account paid in is its balance and one fee per   *)
(* ledger entry, no time of an offer is paid for twice but for the wait of *)
(* a recovery, and an active subscription has a fee for exactly its        *)
(* current period.                                                         *)
PlusInv ==
    /\ Subs!TypeOK
    /\ Subs!FeesAccountForMoney
    /\ Subs!PaidPeriodsDisjoint
    /\ Subs!ActiveIsPaid

(* When calls end in time, an order whose attempt died or failed gets its  *)
(* checkout by a later sweep.                                              *)
PromptOrdersGetCheckout ==
    \A o \in OrderIds :
        part = "prompt" /\ Orders!Exists(o)
            ~> Orders!Exists(o) /\ orders[o].providerOrderId # None

(* Orders get their checkouts, and a payment that covers XMCL Plus         *)
(* recovers it.                                                            *)
PaymentsProgress == PromptOrdersGetCheckout /\ Subs!PaymentRecoversPlus
=============================================================================
