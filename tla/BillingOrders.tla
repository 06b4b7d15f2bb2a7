---------------------------- MODULE BillingOrders ----------------------------
(***************************************************************************)
(* Top-up orders: `BillingService` (src/src/billing.ts) and `WaffoService` *)
(* (src/src/waffo.ts).  An order is claimed in one transaction, the        *)
(* payment provider is called outside any transaction, and a second        *)
(* transaction records the checkout.  A sweep retries orders whose attempt *)
(* is older than the recovery time.  Signed webhooks credit and refund the *)
(* balance; they arrive in any order and any number of times.              *)
(*                                                                         *)
(* Each transaction of `BillingStore` is one step (module BillingStore).   *)
(* A caller that fails between two transactions leaves what it committed:  *)
(* that is Crash, a lost reply of the store included.                      *)
(***************************************************************************)
EXTENDS Integers, FiniteSets

CONSTANTS Accounts,
          RequestKeys,      \* idempotency keys a client sends with an order
          Amounts,          \* amountMinor of an order
          OrderIds,
          Workers,          \* requests and sweeps in flight
          Notifications,    \* webhook event ids
          NotificationOf,   \* their signed content
          AdminOperations,  \* operation ids
          AdminOperationOf, \* their content
          None,
          Recovery,         \* providerCreationRecoveryMs, in ticks
          MaxSafeInteger,   \* Number.MAX_SAFE_INTEGER
          MaxSessions,      \* bound: checkouts the provider opens per order
          MaxCrashes        \* bound: workers that die in the middle

Notification ==
    [kind : {"completed", "refunded", "other"}, order : OrderIds,
     paid : Nat \ {0}, total : Nat \ {0}]

AdminOperation ==
    [action : {"refund", "balance_adjust"}, account : Accounts,
     amount : Nat \ {0}]

(* attempt stands for providerCreation.attemptId: a worker makes one       *)
(* attempt at a time, so the worker's name identifies it.  age counts from *)
(* providerCreation.startedAt, or else providerCreationFailure.failedAt.   *)
Order ==
    [account : Accounts, amount : Amounts, status : {"pending", "completed"},
     providerOrderId : Nat \cup {None}, attempt : Workers \cup {None},
     failed : BOOLEAN, age : 0 .. Recovery, paidTotal : Nat]

OrdersAssumption ==
    /\ Amounts \subseteq Nat \ {0}
    /\ Recovery \in Nat \ {0}
    /\ MaxSafeInteger \in Nat /\ MaxSessions \in Nat /\ MaxCrashes \in Nat
    /\ NotificationOf \in [Notifications -> Notification]
    /\ AdminOperationOf \in [AdminOperations -> AdminOperation]
    /\ None \notin Workers \cup OrderIds \cup Accounts \cup Nat
    /\ None \notin Order \cup [order : OrderIds, amount : Amounts]

VARIABLES
    orders,         \* state.orders
    idempotencies,  \* order id and fingerprint of each account and key
    balances,       \* availableMinor of each account
    refunds,        \* per order: cash refunded, and provider money refunded
    webhookEventIds,
    adminOperations,
    sessions,       \* external: checkouts the provider opened for an order
    worker,
    crashes

stateVars == <<orders, idempotencies, balances, refunds, webhookEventIds,
               adminOperations>>
vars == <<stateVars, sessions, worker, crashes>>

(* pc: "call" - claimed, the provider has not answered; "finish" - it has; *)
(* "failed" - in the catch block; "sweep" - between two candidates.        *)
Worker ==
    [pc : {"idle", "call", "finish", "failed", "sweep"},
     order : OrderIds \cup {None}, session : Nat, sweep : BOOLEAN,
     todo : SUBSET OrderIds]

TypeOK ==
    /\ orders \in [OrderIds -> Order \cup {None}]
    /\ idempotencies \in
         [Accounts \X RequestKeys ->
            [order : OrderIds, amount : Amounts] \cup {None}]
    /\ balances \in [Accounts -> Int]
    /\ refunds \in [OrderIds -> [cash : Nat, provider : Nat]]
    /\ webhookEventIds \subseteq Notifications
    /\ adminOperations \subseteq AdminOperations
    /\ sessions \in [OrderIds -> 0 .. MaxSessions]
    /\ worker \in [Workers -> Worker]
    /\ crashes \in 0 .. MaxCrashes

Idle == [pc |-> "idle", order |-> None, session |-> 0, sweep |-> FALSE,
         todo |-> {}]

Init ==
    /\ orders = [o \in OrderIds |-> None]
    /\ idempotencies = [s \in Accounts \X RequestKeys |-> None]
    /\ balances = [a \in Accounts |-> 0]
    /\ refunds = [o \in OrderIds |-> [cash |-> 0, provider |-> 0]]
    /\ webhookEventIds = {}
    /\ adminOperations = {}
    /\ sessions = [o \in OrderIds |-> 0]
    /\ worker = [w \in Workers |-> Idle]
    /\ crashes = 0
-----------------------------------------------------------------------------

Exists(o) == orders[o] # None

CanRecoverProviderCreation(order) == order.age >= Recovery

(* Faults for the mutation runs: a claim that ignores a running attempt,   *)
(* one that confuses ids, a checkout recorded for a superseded attempt, a  *)
(* sweep that forgets failed attempts.                                     *)
Claimable_AnyAttempt(order) == order.providerOrderId = None

Claimed_ForAccount(order, w) ==
    [order EXCEPT !.attempt = order.account, !.age = 0]

Finalize_AnyAttempt(order, w, session) ==
    [order EXCEPT !.providerOrderId = session, !.attempt = None]

Stale_OnlyAttempts(o) ==
    /\ Exists(o)
    /\ orders[o].status = "pending" /\ orders[o].providerOrderId = None
    /\ orders[o].attempt # None /\ orders[o].age >= Recovery

(* An order that may be (re)claimed: it has no checkout and no attempt that *)
(* is still inside the recovery time.                                      *)
Claimable(order) ==
    /\ order.providerOrderId = None
    /\ order.attempt # None => CanRecoverProviderCreation(order)

Claimed(order, w) == [order EXCEPT !.attempt = w, !.age = 0]

StartCall(w, o, sweep, todo) ==
    worker' = [worker EXCEPT ![w] =
        [pc |-> "call", order |-> o, session |-> 0, sweep |-> sweep,
         todo |-> todo]]

(* Fault for a mutation run: the claim does not look its key up.           *)
CreateOrder_AlwaysNew(w, a, k, n) ==
    /\ worker[w].pc = "idle"
    /\ \E o \in OrderIds :
        /\ orders[o] = None
        /\ orders' = [orders EXCEPT ![o] =
             [account |-> a, amount |-> n, status |-> "pending",
              providerOrderId |-> None, attempt |-> w, failed |-> FALSE,
              age |-> 0, paidTotal |-> 0]]
        /\ idempotencies' = [idempotencies EXCEPT ![<<a, k>>] =
             [order |-> o, amount |-> n]]
        /\ StartCall(w, o, FALSE, {})
    /\ UNCHANGED <<balances, refunds, webhookEventIds, adminOperations,
                   sessions, crashes>>

(* `createOrder`, claim transaction, for an unknown idempotency key.       *)
CreateOrder(w, a, k, n) ==
    /\ worker[w].pc = "idle"
    /\ idempotencies[<<a, k>>] = None
    /\ \E o \in OrderIds :
        /\ orders[o] = None
        /\ orders' = [orders EXCEPT ![o] =
             [account |-> a, amount |-> n, status |-> "pending",
              providerOrderId |-> None, attempt |-> w, failed |-> FALSE,
              age |-> 0, paidTotal |-> 0]]
        /\ idempotencies' = [idempotencies EXCEPT ![<<a, k>>] =
             [order |-> o, amount |-> n]]
        /\ StartCall(w, o, FALSE, {})
    /\ UNCHANGED <<balances, refunds, webhookEventIds, adminOperations,
                   sessions, crashes>>

(* The same for a known key: it resumes the order when the amount agrees   *)
(* and the order is claimable; otherwise it only reads the order.          *)
ReplayOrder(w, a, k, n) ==
    /\ worker[w].pc = "idle"
    /\ idempotencies[<<a, k>>] # None
    /\ idempotencies[<<a, k>>].amount = n
    /\ LET o == idempotencies[<<a, k>>].order IN
        /\ Claimable(orders[o])
        /\ orders' = [orders EXCEPT ![o] = Claimed(@, w)]
        /\ StartCall(w, o, FALSE, {})
    /\ UNCHANGED <<idempotencies, balances, refunds, webhookEventIds,
                   adminOperations, sessions, crashes>>

(* `stalePendingProviderOrders`.                                           *)
Stale(o) ==
    /\ Exists(o)
    /\ orders[o].status = "pending" /\ orders[o].providerOrderId = None
    /\ orders[o].attempt # None \/ orders[o].failed
    /\ orders[o].age >= Recovery

(* `reconcilePendingOrders` reads the stale orders once; by the time it    *)
(* comes to one of them the order may have moved on.                       *)
StartSweep(w) ==
    /\ worker[w].pc = "idle"
    /\ \E o \in OrderIds : Stale(o)
    /\ worker' = [worker EXCEPT ![w].pc = "sweep",
                                ![w].todo = {o \in OrderIds : Stale(o)}]
    /\ UNCHANGED <<stateVars, sessions, crashes>>

NextCandidate(w, todo) ==
    worker' = [worker EXCEPT ![w] =
        IF todo = {} THEN Idle
        ELSE [Idle EXCEPT !.pc = "sweep", !.todo = todo]]

(* `reconcilePendingProviderOrder`, claim transaction.                     *)
Reconcile(w) ==
    /\ worker[w].pc = "sweep"
    /\ \E o \in worker[w].todo :
        IF orders[o].status = "pending" /\ Claimable(orders[o])
        THEN /\ orders' = [orders EXCEPT ![o] = Claimed(@, w)]
             /\ StartCall(w, o, TRUE, worker[w].todo \ {o})
        ELSE /\ NextCandidate(w, worker[w].todo \ {o})
             /\ UNCHANGED orders
    /\ UNCHANGED <<idempotencies, balances, refunds, webhookEventIds,
                   adminOperations, sessions, crashes>>

(* External: the provider opens a checkout for the order, or answers with  *)
(* one it opened for the same request before.                              *)
ProviderAnswers(w) ==
    /\ worker[w].pc = "call"
    /\ LET o == worker[w].order IN
        \E s \in 1 .. MaxSessions :
            /\ s <= sessions[o] + 1
            /\ sessions' = [sessions EXCEPT ![o] = IF s > @ THEN s ELSE @]
            /\ worker' = [worker EXCEPT ![w].pc = "finish", ![w].session = s]
    /\ UNCHANGED <<stateVars, crashes>>

(* The provider refuses, or its answer is lost or unusable.                *)
ProviderFails(w) ==
    /\ worker[w].pc = "call"
    /\ LET o == worker[w].order IN
        \/ UNCHANGED sessions
        \/ /\ sessions[o] < MaxSessions
           /\ sessions' = [sessions EXCEPT ![o] = @ + 1]
    /\ worker' = [worker EXCEPT ![w].pc = "failed"]
    /\ UNCHANGED <<stateVars, crashes>>

(* The order once attempt w answers with a checkout: unchanged when it has *)
(* one already or the attempt was superseded.                              *)
Finalize(order, w, session) ==
    IF order.providerOrderId = None /\ order.attempt = w
    THEN [order EXCEPT !.providerOrderId = session, !.attempt = None]
    ELSE order

(* Second transaction of either caller.  Only the sweep also clears        *)
(* providerCreationFailure.                                                *)
FinishCreation(w) ==
    /\ worker[w].pc = "finish"
    /\ LET o == worker[w].order
           new == Finalize(orders[o], w, worker[w].session) IN
        orders' = [orders EXCEPT ![o] =
            IF worker[w].sweep /\ new # orders[o]
            THEN [new EXCEPT !.failed = FALSE] ELSE new]
    /\ NextCandidate(w, worker[w].todo)
    /\ UNCHANGED <<idempotencies, balances, refunds, webhookEventIds,
                   adminOperations, sessions, crashes>>

(* The second transaction throws: `createOrder` goes to its catch block,   *)
(* the sweep ends and leaves its claim behind.                             *)
FinishThrows(w) ==
    /\ worker[w].pc = "finish"
    /\ crashes < MaxCrashes
    /\ crashes' = crashes + 1
    /\ worker' = [worker EXCEPT ![w] =
        IF worker[w].sweep THEN Idle ELSE [@ EXCEPT !.pc = "failed"]]
    /\ UNCHANGED <<stateVars, sessions>>

(* `releaseProviderCreation` and `recordProviderCreationFailure`.          *)
ReleaseProviderCreation(w) ==
    /\ worker[w].pc = "failed"
    /\ LET o == worker[w].order IN
        orders' = IF orders[o].attempt = w
                  THEN [orders EXCEPT ![o] = [@ EXCEPT !.attempt = None,
                                                      !.failed = TRUE,
                                                      !.age = 0]]
                  ELSE orders
    /\ NextCandidate(w, worker[w].todo)
    /\ UNCHANGED <<idempotencies, balances, refunds, webhookEventIds,
                   adminOperations, sessions, crashes>>

Crash(w) ==
    /\ worker[w].pc # "idle"
    /\ crashes < MaxCrashes
    /\ crashes' = crashes + 1
    /\ worker' = [worker EXCEPT ![w] = Idle]
    /\ UNCHANGED <<stateVars, sessions>>
-----------------------------------------------------------------------------

(* Fault for a mutation run: a second event of a paid order credits again. *)
RecordCredit_EachEvent(e) ==
    LET n == NotificationOf[e]
        order == orders[n.order] IN
    /\ n.kind = "completed" /\ e \notin webhookEventIds
    /\ Exists(n.order) /\ order.providerOrderId # None
    /\ n.paid = order.amount /\ n.total >= order.amount
    /\ balances' = [balances EXCEPT ![order.account] = @ + order.amount]
    /\ orders' = [orders EXCEPT ![n.order].status = "completed",
                                ![n.order].paidTotal = n.total]
    /\ webhookEventIds' = webhookEventIds \cup {e}
    /\ UNCHANGED <<idempotencies, refunds, adminOperations, sessions, worker,
                   crashes>>

(* `recordProviderCredit` for a verified "order completed" event.  The     *)
(* customer can pay only through the stored checkout, so the order has one *)
(* (external).  An event that is known, or that does not match the order,  *)
(* changes nothing.                                                        *)
RecordCredit(e) ==
    LET n == NotificationOf[e]
        order == orders[n.order] IN
    /\ n.kind = "completed" /\ e \notin webhookEventIds
    /\ Exists(n.order) /\ order.providerOrderId # None
    /\ n.paid = order.amount /\ n.total >= order.amount
    /\ \/ /\ order.status = "completed"
          /\ UNCHANGED <<orders, balances>>
       \/ /\ order.status = "pending"
          /\ balances[order.account] <= MaxSafeInteger - order.amount
          /\ balances' = [balances EXCEPT ![order.account] = @ + order.amount]
          /\ orders' = [orders EXCEPT ![n.order].status = "completed",
                                      ![n.order].paidTotal = n.total]
    /\ webhookEventIds' = webhookEventIds \cup {e}
    /\ UNCHANGED <<idempotencies, refunds, adminOperations, sessions, worker,
                   crashes>>

(* `markWebhookDuplicate`: any other event is only remembered.             *)
MarkWebhook(e) ==
    /\ NotificationOf[e].kind = "other" /\ e \notin webhookEventIds
    /\ webhookEventIds' = webhookEventIds \cup {e}
    /\ UNCHANGED <<orders, idempotencies, balances, refunds, adminOperations,
                   sessions, worker, crashes>>

(* Math.round(x / y) for positive x and y.                                 *)
Round(x, y) == (2 * x + y) \div (2 * y)

(* The cash share of a provider refund total.                              *)
CumulativeCash(order, total) == Round(total * order.amount, order.paidTotal)

(* Fault for a mutation run: every refund is rounded on its own.           *)
RecordRefund_EachRounded(e) ==
    LET n == NotificationOf[e]
        o == n.order
        refunded == CumulativeCash(orders[o], n.paid)
        cash == refunds[o].cash + refunded IN
    /\ n.kind = "refunded" /\ e \notin webhookEventIds
    /\ Exists(o) /\ orders[o].status = "completed"
    /\ refunds[o].provider + n.paid <= orders[o].paidTotal
    /\ refunded > 0 /\ cash <= orders[o].amount
    /\ balances' = [balances EXCEPT ![orders[o].account] = @ - refunded]
    /\ refunds' = [refunds EXCEPT ![o] =
         [cash |-> cash, provider |-> @.provider + n.paid]]
    /\ webhookEventIds' = webhookEventIds \cup {e}
    /\ UNCHANGED <<orders, idempotencies, adminOperations, sessions, worker,
                   crashes>>

(* `recordWaffoRefund`: the refund is what the rounded cumulative share    *)
(* adds to what was refunded before; it may leave a negative balance.      *)
RecordRefund(e) ==
    LET n == NotificationOf[e]
        o == n.order
        total == refunds[o].provider + n.paid
        cash == CumulativeCash(orders[o], total)
        refunded == cash - refunds[o].cash IN
    /\ n.kind = "refunded" /\ e \notin webhookEventIds
    /\ Exists(o) /\ orders[o].status = "completed"
    /\ total <= orders[o].paidTotal
    /\ refunded > 0 /\ cash <= orders[o].amount
    /\ balances' = [balances EXCEPT ![orders[o].account] = @ - refunded]
    /\ refunds' = [refunds EXCEPT ![o] = [cash |-> cash, provider |-> total]]
    /\ webhookEventIds' = webhookEventIds \cup {e}
    /\ UNCHANGED <<orders, idempotencies, adminOperations, sessions, worker,
                   crashes>>

(* `applyAdminOperation`: a known operation returns its stored completion. *)
ApplyAdminOperation(p) ==
    LET op == AdminOperationOf[p] IN
    /\ p \notin adminOperations
    /\ \/ /\ op.action = "refund" /\ balances[op.account] >= op.amount
          /\ balances' = [balances EXCEPT ![op.account] = @ - op.amount]
       \/ /\ op.action = "balance_adjust"
          /\ balances[op.account] <= MaxSafeInteger - op.amount
          /\ balances' = [balances EXCEPT ![op.account] = @ + op.amount]
    /\ adminOperations' = adminOperations \cup {p}
    /\ UNCHANGED <<orders, idempotencies, refunds, webhookEventIds, sessions,
                   worker, crashes>>

(* Time passes for every attempt and failure.                              *)
Ageing(o) ==
    /\ Exists(o) /\ orders[o].age < Recovery
    /\ orders[o].attempt # None \/ orders[o].failed

Tick ==
    /\ \E o \in OrderIds : Ageing(o)
    /\ orders' = [o \in OrderIds |->
        IF Ageing(o) THEN [orders[o] EXCEPT !.age = @ + 1] ELSE orders[o]]
    /\ UNCHANGED <<idempotencies, balances, refunds, webhookEventIds,
                   adminOperations, sessions, worker, crashes>>

Request(w) == \E a \in Accounts, k \in RequestKeys, n \in Amounts :
                  CreateOrder(w, a, k, n) \/ ReplayOrder(w, a, k, n)

Continue(w) ==
    \/ Reconcile(w)
    \/ ProviderAnswers(w) \/ ProviderFails(w)
    \/ FinishCreation(w) \/ ReleaseProviderCreation(w)

Next ==
    \/ \E w \in Workers : \/ Request(w) \/ StartSweep(w) \/ Continue(w)
                          \/ FinishThrows(w) \/ Crash(w)
    \/ \E e \in Notifications :
           RecordCredit(e) \/ MarkWebhook(e) \/ RecordRefund(e)
    \/ \E p \in AdminOperations : ApplyAdminOperation(p)
    \/ Tick

Spec == Init /\ [][Next]_vars

(* The cron starts the sweep again and again, a call that is not cut off   *)
(* runs on, and the provider does not refuse an order for ever.            *)
Fairness ==
    /\ \A w \in Workers :
        /\ SF_vars(StartSweep(w))
        /\ WF_vars(Continue(w))
        /\ \A o \in OrderIds :
             SF_vars(ProviderAnswers(w) /\ worker[w].order = o)

(* Liveness is stated for calls that end within the recovery time: no      *)
(* attempt whose worker still runs becomes recoverable.                    *)
Prompt ==
    \A w \in Workers :
        LET o == worker[w].order IN
        worker[w].pc \in {"call", "finish", "failed"} /\ orders[o].attempt = w
        => orders[o].age + 1 < Recovery

PromptNext == Next /\ (Tick => Prompt)

PromptSpec ==
    Init /\ [][PromptNext]_vars /\ Fairness /\ WF_vars(Tick /\ Prompt)
-----------------------------------------------------------------------------

(* The total of amounts in Nat, as the number of their units.              *)
Units(amount) == UNION {{x} \X (1..amount[x]) : x \in DOMAIN amount}

Total(amount) == Cardinality(Units(amount))

OrdersOf(a) == {o \in OrderIds : Exists(o) /\ orders[o].account = a}

(* What the paid orders of an account credited, what was refunded of its   *)
(* orders, and what administrators did to its balance.                     *)
Paid(a) ==
    [o \in OrderIds |-> IF o \in OrdersOf(a) /\ orders[o].status = "completed"
                       THEN orders[o].amount ELSE 0]

Refunded(a) ==
    [o \in OrderIds |-> IF o \in OrdersOf(a) THEN refunds[o].cash ELSE 0]

Applied(a, action) ==
    [p \in AdminOperations |->
       IF /\ p \in adminOperations
          /\ AdminOperationOf[p].account = a
          /\ AdminOperationOf[p].action = action
       THEN AdminOperationOf[p].amount ELSE 0]

(* Money is neither created nor lost: whatever the order, repetition or    *)
(* interruption of requests, sweeps and webhooks, the balance of an account *)
(* is each of its paid orders once, less what was refunded of them, and    *)
(* each operation of an administrator once.                                *)
BalanceIsPaidLessRefunded ==
    \A a \in Accounts :
        balances[a] = Total(Paid(a)) - Total(Refunded(a))
          + Total(Applied(a, "balance_adjust")) - Total(Applied(a, "refund"))

(* Partial refunds do not drift: after any sequence of them the cash taken *)
(* back is the rounded share of the provider total, and never more than    *)
(* the order credited.                                                     *)
RefundsProportional ==
    \A o \in OrderIds :
        IF Exists(o) /\ orders[o].status = "completed"
        THEN /\ refunds[o].provider <= orders[o].paidTotal
             /\ refunds[o].cash = CumulativeCash(orders[o], refunds[o].provider)
             /\ refunds[o].cash <= orders[o].amount
        ELSE refunds[o] = [cash |-> 0, provider |-> 0]

(* "Waffo converts cumulative taxed refunds without rounding drift": a     *)
(* refund that fits within what was paid is recorded.  The code refuses it *)
(* when its rounded share of the cash is zero (billing.ts:704-709), and    *)
(* then forgets the provider money it refunded.                            *)
RefundsDoNotDrift ==
    \A e \in Notifications \ webhookEventIds :
        LET n == NotificationOf[e]
            total == refunds[n.order].provider + n.paid IN
        /\ n.kind = "refunded"
        /\ Exists(n.order) /\ orders[n.order].status = "completed"
        /\ total <= orders[n.order].paidTotal
        => CumulativeCash(orders[n.order], total) > refunds[n.order].cash

(* A retried request resumes its order: every order belongs to exactly one *)
(* request key of its account, with the amount of that request.            *)
OneOrderPerRequest ==
    \A o \in OrderIds : Exists(o) =>
        \E s \in Accounts \X RequestKeys :
            /\ idempotencies[s] = [order |-> o, amount |-> orders[o].amount]
            /\ s[1] = orders[o].account
            /\ \A r \in Accounts \X RequestKeys :
                   idempotencies[r] # None /\ r # s => idempotencies[r].order # o

(* While a first attempt may still be under way nobody else asks the       *)
(* provider for the order: two workers work on one order only after the    *)
(* attempt of one of them outlived the recovery time.                      *)
ClaimsDoNotOverlap ==
    \A v, w \in Workers :
        LET o == worker[v].order IN
        /\ v # w /\ worker[v].pc \in {"call", "finish", "failed"}
        /\ orders[o].attempt = v
        /\ worker'[w].pc = "call" /\ worker'[w].order = o
        /\ worker[w] # worker'[w]
        => orders[o].age >= Recovery

(* The customer is only ever given one checkout for an order: once it has  *)
(* one, a slow, superseded or repeated attempt cannot replace it.          *)
CheckoutStays ==
    \A o \in OrderIds :
        Exists(o) /\ orders[o].providerOrderId # None
        => orders'[o].providerOrderId = orders[o].providerOrderId

(* An attempt that died or failed is taken up by a later sweep, until the  *)
(* order has its checkout.                                                 *)
OrdersGetCheckout ==
    \A o \in OrderIds :
        Exists(o) ~> Exists(o) /\ orders[o].providerOrderId # None
=============================================================================
