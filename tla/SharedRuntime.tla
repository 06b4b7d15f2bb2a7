---------------------------- MODULE SharedRuntime ----------------------------
(***************************************************************************)
(* Hourly charges of a shared-hosting service: `settleRuntime` of          *)
(* `SharedHostingService` (src/src/sharedHosting.ts) together with its     *)
(* callers in `SharedHostingScheduler` (src/src/sharedHostingScheduler.ts).*)
(*                                                                         *)
(* Billing and scheduler are two stores.  Each caller reads the service,   *)
(* settles in a billing transaction, and then updates the service in a     *)
(* scheduler transaction; other callers, crashes and the node's retries    *)
(* come in between.  One service of one subscription is modelled; its      *)
(* assignments are numbered, and Hour ticks make an hour.                  *)
(***************************************************************************)
EXTENDS Integers, FiniteSets

CONSTANTS Workers,          \* calls in flight
          Hour,
          Price,            \* hourlyAmountMinor
          Deposits,         \* what availableMinor may be at first
          Lag,              \* how late a scheduled sweep may run
          None,
          MaxClock,         \* bound: the last time of the clock
          MaxAssignments,   \* bound: starts of the service
          MaxCrashes        \* bound: calls that die in the middle

(* Hours are counted from 1, and the last is begun when the clock ends.    *)
Assignments == 1 .. MaxAssignments
MaxHours == 1 + MaxClock \div Hour
Hours == 1 .. MaxHours

(* What the ledger answers, and keeps to answer it again.                  *)
Reply == [status : {"settled", "payment_due"}, hours : 0 .. MaxHours,
          startedAt : Nat]

(* `runtime` of a service.                                                 *)
Running == [startedAt : Nat, settledHours : 0 .. MaxHours]

(* How far an assignment was charged, as the ledger has it.                *)
Watermark == [assignment : Assignments, startedAt : Nat, settledHours : Hours]

RuntimeAssumption ==
    /\ Hour \in Nat \ {0} /\ Price \in Nat \ {0}
    /\ Deposits \subseteq Nat /\ Lag \in Nat
    /\ MaxClock \in Nat /\ MaxAssignments \in Nat \ {0}
    /\ MaxCrashes \in Nat
    /\ None \notin Nat \cup Reply \cup Running \cup Watermark

VARIABLES
    clock,
    balance, subscription,   \* billing: availableMinor, subscription status
    watermark,               \* sharedRuntimeWatermarks of the service
    replies,                 \* state.idempotencies of "shared_runtime"
    charged,                 \* "shared_runtime_fee" entries per hour
    service,                 \* scheduler: the service record
    worker,
    crashes,
    overtaken    \* history: settlements that came after a later one

billing == <<balance, subscription, watermark, replies, charged>>
vars == <<clock, billing, service, worker, crashes, overtaken>>

(* What a call has read and what it was told by the settlement.            *)
Call == [pc : {"idle", "settle", "update"},
         kind : {"started", "sweep", "stopped"},
         assignment : 0 .. MaxAssignments, startedAt : Nat,
         settledHours : 0 .. MaxHours, settledAt : Nat,
         reply : Reply \cup {None}]

TypeOK ==
    /\ clock \in Nat /\ balance \in Nat
    /\ subscription \in {"active", "payment_due"}
    /\ watermark \in Watermark \cup {None}
    /\ replies \in [Assignments \X Hours -> Reply \cup {None}]
    /\ charged \in [Assignments \X Hours -> Nat]
    /\ service \in
         [status : {"ready", "starting", "running", "stopping"},
          assignment : 0 .. MaxAssignments, runtime : Running \cup {None}]
    /\ worker \in [Workers -> Call]
    /\ crashes \in 0 .. MaxCrashes
    /\ overtaken \in Nat

Idle == [pc |-> "idle", kind |-> "sweep", assignment |-> 0, startedAt |-> 0,
         settledHours |-> 0, settledAt |-> 0, reply |-> None]

Init ==
    /\ clock = 0 /\ balance \in Deposits /\ subscription = "active"
    /\ watermark = None
    /\ replies = [s \in Assignments \X Hours |-> None]
    /\ charged = [s \in Assignments \X Hours |-> 0]
    /\ service = [status |-> "ready", assignment |-> 0, runtime |-> None]
    /\ worker = [w \in Workers |-> Idle]
    /\ crashes = 0 /\ overtaken = 0
-----------------------------------------------------------------------------

Begin(w, kind, startedAt, settledHours, settledAt) ==
    worker' = [worker EXCEPT ![w] =
        [pc |-> "settle", kind |-> kind, assignment |-> service.assignment,
         startedAt |-> startedAt, settledHours |-> settledHours,
         settledAt |-> settledAt, reply |-> None]]

(* `start`: the service is assigned to a node.                             *)
Start ==
    /\ service.status = "ready" /\ subscription = "active"
    /\ service.assignment < MaxAssignments
    /\ service' = [service EXCEPT !.status = "starting",
                                  !.assignment = @ + 1]
    /\ UNCHANGED <<clock, billing, worker, crashes, overtaken>>

(* `stop`, or a node that drains.                                          *)
Stop ==
    /\ service.status \in {"starting", "running"}
    /\ service' = [service EXCEPT !.status = "stopping"]
    /\ UNCHANGED <<clock, billing, worker, crashes, overtaken>>

(* `reportStarted`: the node reports, again when it got no answer.  The    *)
(* time of the call becomes the start of the runtime.                      *)
ReportStarted(w) ==
    /\ worker[w].pc = "idle" /\ service.status = "starting"
    /\ Begin(w, "started", clock, 0, clock)
    /\ UNCHANGED <<clock, billing, service, crashes, overtaken>>

(* `reportStoppedAndSynced`: without a runtime there is nothing to settle. *)
ReportStopped(w) ==
    /\ worker[w].pc = "idle" /\ service.status = "stopping"
    /\ IF service.runtime = None
       THEN worker' = [worker EXCEPT ![w] =
              [Idle EXCEPT !.pc = "update", !.kind = "stopped",
                           !.assignment = service.assignment]]
       ELSE Begin(w, "stopped", service.runtime.startedAt,
                  service.runtime.settledHours, clock)
    /\ UNCHANGED <<clock, billing, service, crashes, overtaken>>

(* `settleRunningRuntime`, for the time the cron was scheduled for.        *)
Sweep(w) ==
    /\ worker[w].pc = "idle"
    /\ service.status = "running" /\ service.runtime # None
    /\ \E late \in 0 .. Lag :
        /\ clock - late >= service.runtime.startedAt
        /\ Begin(w, "sweep", service.runtime.startedAt,
                 service.runtime.settledHours, clock - late)
    /\ UNCHANGED <<clock, billing, service, crashes, overtaken>>

(* Fault for a mutation run: an hour counts from the end of the last.      *)
ElapsedHours_Begun(startedAt, settledAt) ==
    1 + (settledAt - startedAt) \div Hour

(* Math.max(1, Math.ceil(...)).                                            *)
ElapsedHours(startedAt, settledAt) ==
    LET hours == (settledAt - startedAt + Hour - 1) \div Hour IN
    IF hours < 1 THEN 1 ELSE hours

Marked(call) == watermark # None /\ watermark.assignment = call.assignment

(* "shared_runtime_conflict" or "idempotency_conflict".                    *)
Conflict(call) ==
    \/ Marked(call) /\ watermark.startedAt # call.startedAt
    \/ LET key == <<call.assignment,
                    ElapsedHours(call.startedAt, call.settledAt)>> IN
       replies[key] # None /\ replies[key].startedAt # call.startedAt

(* Fault for a mutation run: a settlement that goes by the caller's copy.  *)
SettledHours_OfCaller(call) == call.settledHours

(* The ledger's own watermark counts; the caller's copy only without one.  *)
SettledHours(call) ==
    IF Marked(call) THEN watermark.settledHours ELSE call.settledHours

(* Fault for a mutation run: the balance is not looked at.                 *)
Refused_ByStatus(amount) == subscription # "active"

Refused(amount) == subscription # "active" \/ balance < amount

(* The ledger has settled a later assignment, or a later hour of this one, *)
(* by the time this call commits.                                          *)
Overtaken(call, elapsed) ==
    /\ watermark # None
    /\ \/ watermark.assignment > call.assignment
       \/ Marked(call) /\ elapsed < watermark.settledHours

(* `settleRuntime`: one billing transaction.  It answers from the reply    *)
(* recorded for the same hour, refuses to charge ("payment_due"), or       *)
(* charges every hour after the watermark and moves the watermark.         *)
Settle(w) ==
    LET call == worker[w]
        elapsed == ElapsedHours(call.startedAt, call.settledAt)
        settled == SettledHours(call)
        due == {h \in Hours : settled < h /\ h <= elapsed}
        key == <<call.assignment, elapsed>>
        amount == Cardinality(due) * Price
        Answer(status, hours) ==
            [status |-> status, hours |-> hours,
             startedAt |-> call.startedAt]
        Record(reply) ==
            /\ replies' = [replies EXCEPT ![key] = reply]
            /\ worker' = [worker EXCEPT ![w].pc = "update",
                                        ![w].reply = reply] IN
    /\ call.pc = "settle"
    /\ ~Conflict(call)
    /\ \/ /\ replies[key] # None
          /\ worker' = [worker EXCEPT ![w].pc = "update",
                                      ![w].reply = replies[key]]
          /\ UNCHANGED <<billing, overtaken>>
       \/ /\ replies[key] = None
          /\ Refused(amount)
          /\ subscription' = "payment_due"
          /\ Record(Answer("payment_due", settled))
          /\ UNCHANGED <<balance, watermark, charged, overtaken>>
       \/ /\ replies[key] = None
          /\ ~Refused(amount)
          /\ balance' = balance - amount
          /\ charged' = [s \in Assignments \X Hours |->
               IF s[1] = call.assignment /\ s[2] \in due
               THEN charged[s] + 1 ELSE charged[s]]
          /\ watermark' = [assignment |-> call.assignment,
                           startedAt |-> call.startedAt,
                           settledHours |-> elapsed]
          /\ Record(Answer("settled", elapsed))
          /\ overtaken' = IF Overtaken(call, elapsed) THEN overtaken + 1
                          ELSE overtaken
          /\ UNCHANGED subscription
    /\ UNCHANGED <<clock, service, crashes>>

(* The settlement throws, and the call with it.                            *)
SettleConflict(w) ==
    /\ worker[w].pc = "settle" /\ Conflict(worker[w])
    /\ worker' = [worker EXCEPT ![w] = Idle]
    /\ UNCHANGED <<clock, billing, service, crashes, overtaken>>

SameAssignment(call) == service.assignment = call.assignment

(* Fault for a mutation run: the service runs whatever the ledger says.    *)
Started_Always(call) ==
    [service EXCEPT !.status = "running",
                    !.runtime = [startedAt |-> call.settledAt,
                                 settledHours |-> call.reply.hours]]

(* The scheduler transaction of `reportStarted`.                           *)
Started(call) ==
    [service EXCEPT
        !.status = IF call.reply.status = "payment_due" THEN "stopping"
                   ELSE "running",
        !.runtime = IF call.reply.status = "payment_due" THEN @
                    ELSE [startedAt |-> call.settledAt,
                          settledHours |-> call.reply.hours]]

(* Fault for a mutation run: a sweep that charged nothing goes on first.   *)
MustStop_AfterCharge(call) ==
    /\ call.reply.status = "payment_due"
    /\ call.reply.hours > call.settledHours
    /\ service.status \in {"starting", "running"}

(* `enforcePaymentDue` after a sweep was refused.                          *)
MustStop(call) ==
    /\ call.reply.status = "payment_due"
    /\ service.status \in {"starting", "running"}

MaxOf(x, y) == IF x > y THEN x ELSE y

(* The second transaction of each caller, which does nothing (or throws)   *)
(* when the service has moved on.                                          *)
Update(w) ==
    LET call == worker[w] IN
    /\ call.pc = "update"
    /\ service' =
         CASE /\ call.kind = "started" /\ service.status = "starting"
              /\ SameAssignment(call)
                -> Started(call)
           [] /\ call.kind = "stopped" /\ service.status = "stopping"
              /\ SameAssignment(call)
                -> [service EXCEPT !.status = "ready", !.runtime = None]
           [] /\ call.kind = "sweep" /\ MustStop(call)
                -> [service EXCEPT !.status = "stopping"]
           [] /\ call.kind = "sweep" /\ call.reply.status = "settled"
              /\ call.reply.hours > call.settledHours
              /\ service.status = "running" /\ SameAssignment(call)
                -> [service EXCEPT !.runtime.settledHours =
                      MaxOf(@, call.reply.hours)]
           [] OTHER -> service
    /\ worker' = [worker EXCEPT ![w] = Idle]
    /\ UNCHANGED <<clock, billing, crashes, overtaken>>

(* The isolate dies, or a store refuses the next transaction.              *)
Crash(w) ==
    /\ worker[w].pc # "idle" /\ crashes < MaxCrashes
    /\ crashes' = crashes + 1
    /\ worker' = [worker EXCEPT ![w] = Idle]
    /\ UNCHANGED <<clock, billing, service, overtaken>>

(* Time passes while calls are at work: one that read the service may      *)
(* settle after calls that began later.                                    *)
Tick ==
    /\ clock < MaxClock
    /\ clock' = clock + 1
    /\ UNCHANGED <<billing, service, worker, crashes, overtaken>>

Next ==
    \/ Start \/ Stop
    \/ \E w \in Workers :
        \/ ReportStarted(w) \/ ReportStopped(w) \/ Sweep(w)
        \/ Settle(w) \/ SettleConflict(w) \/ Update(w)
        \/ Crash(w)
    \/ Tick

Spec == Init /\ [][Next]_vars

(* The cron runs again and again, and a call that is not cut off ends.     *)
Fairness ==
    \A w \in Workers :
        /\ SF_vars(Sweep(w))
        /\ WF_vars(Settle(w) \/ SettleConflict(w) \/ Update(w))

FairSpec == Spec /\ Fairness
-----------------------------------------------------------------------------

ChargedHours(a) == {h \in Hours : charged[<<a, h>>] > 0}

(* "Repeating an hour is safe" (billingRuntime.ts:66), "the deterministic  *)
(* idempotency scope makes retries safe" (sharedHosting.ts:238): no hour   *)
(* of an assignment is charged twice.                                      *)
HoursChargedOnce ==
    \A s \in Assignments \X Hours : charged[s] <= 1

(* An hour is charged again only when a settlement comes after a later one *)
(* and moves the watermark back, and then once at most.                    *)
ChargedOncePerTurn ==
    \A s \in Assignments \X Hours : charged[s] <= 1 + overtaken

(* Missed sweeps are caught up without gaps, and nothing is charged before *)
(* its hour has begun: an assignment is charged for hours 1 .. n only, and *)
(* no more than have begun since its start.                                *)
HoursContiguous ==
    \A a \in Assignments :
        /\ \A h \in ChargedHours(a) : \A g \in 1 .. h : g \in ChargedHours(a)
        /\ \A h \in ChargedHours(a) :
              h > 1 /\ watermark # None /\ watermark.assignment = a
              => (h - 1) * Hour < clock - watermark.startedAt

(* A service never runs unpaid: the first hour of a running assignment is  *)
(* in the ledger, and the scheduler's copy never runs ahead of the ledger. *)
RunningIsPaid ==
    service.status = "running" =>
        /\ 1 \in ChargedHours(service.assignment)
        /\ service.runtime.settledHours <=
             Cardinality(ChargedHours(service.assignment))

(* Once the ledger has refused an hour of a running service the service is *)
(* stopped, although the sweep that was refused may die before it does so. *)
RefusedServiceStops ==
    \A a \in Assignments :
        /\ service.status = "running" /\ service.assignment = a
        /\ \E h \in Hours : /\ replies[<<a, h>>] # None
                            /\ replies[<<a, h>>].status = "payment_due"
        ~> service.status # "running" \/ service.assignment # a

(* "... makes retries safe if the scheduler loses the response after the   *)
(* ledger commit" (sharedHosting.ts:238): while no call is in flight, the  *)
(* node's report of a starting service would be settled, not refused.      *)
StartReportIsAccepted ==
    service.status = "starting" /\ (\A w \in Workers : worker[w].pc = "idle")
    => ~Conflict([Idle EXCEPT !.assignment = service.assignment,
                              !.startedAt = clock, !.settledAt = clock])
=============================================================================
