---------------------------- MODULE WorkerSessions ----------------------------
(***************************************************************************)
(* What the worker on a hosted server says, and what becomes of it:        *)
(* `WorkerRequestAuthenticator` (src/src/workerAuth.ts),                   *)
(* `WorkerRuntimeService` (src/src/worker/service.ts), its repository      *)
(* (src/src/workerRepository.ts) and its routes (src/src/routes/worker.ts).*)
(*                                                                         *)
(* There is one lease and one worker.  The worker sends what it did not    *)
(* hear was accepted again, under a new nonce; a request may be delayed    *)
(* and duplicated.  Every call of a handler to the repository, to Billing, *)
(* to ServerControl or to the events is a step.  A refusal changes nothing *)
(* and is a return to Idle.  That a request is signed and less than thirty *)
(* seconds old is taken for granted.                                       *)
(***************************************************************************)
EXTENDS Integers, Sequences, FiniteSets

CONSTANTS Calls,     \* handlers at work
          Events,    \* what the worker has to say, in the order of n
          None,
          Registered, \* whether the worker is, at the start
          MaxSessions, \* bound: registrations
          MaxSends,  \* bound: requests
          MaxFaults  \* bound: failures, lost answers, ends of isolates and
                     \* of sessions

Follows == [starting |-> {"starting", "running", "stopping", "failed"},
            running |-> {"running", "stopping", "stopped", "failed"},
            stopping |-> {"stopping", "stopped", "failed"},
            stopped |-> {"stopped"},
            failed |-> {"failed"}]
Statuses == DOMAIN Follows
Scopes == {"usage", "runtime", "heartbeat", "operation"}
Observed == {"runtime", "heartbeat"}

WorkerAssumption ==
    /\ Events \subseteq [scope : Scopes, n : Nat \ {0}, status : Statuses \cup {None}]
    /\ \A e \in Events : (e.scope \in Observed) = (e.status # None)
    /\ Registered \in BOOLEAN
    /\ {MaxSessions, MaxSends, MaxFaults} \subseteq Nat

VARIABLES lease,     \* the status of the lease, at ServerControl
          live,      \* the session that is not invalidated; 0: none
          issued,    \* sessions so far
          known,     \* the token that the worker has
          sent, nonces,
          audit,     \* repository.audits
          cursor,    \* repository.cursors
          stop,      \* repository.stops
          billing,   \* what Billing decided on an event
          published, \* events published and operations received
          announced, \* runtime.stopped.v1 is published
          told,      \* what the worker heard of an event
          calls, faults

vars == <<lease, live, issued, known, sent, nonces, audit, cursor, stop,
          billing, published, announced, told, calls, faults>>
wire == <<known, sent, nonces>>
sessions == <<lease, live, issued>>

Registration == [scope |-> "register", n |-> 1, status |-> None]
Usage == {e \in Events : e.scope = "usage"}
Verdicts == {"continue", "stop"}
Idle == [pc |-> "idle"]
Call == [pc : {"lease", "replace", "stopped?", "claim", "act", "mark", "ask",
               "announce", "complete", "release"},
         event : Events \cup {Registration}, verdict : Verdicts \cup {"accepted"}]

TypeOK ==
    /\ lease \in {"reserved", "active", "closed"}
    /\ issued \in 0 .. MaxSends + 1 /\ {live, known} \subseteq 0 .. issued
    /\ sent \in Seq([event : Events \cup {Registration}, token : 0 .. issued,
                     knew : BOOLEAN]) /\ Len(sent) <= MaxSends
    /\ nonces \subseteq 1 .. Len(sent)
    /\ audit \in [Events -> {"none", "pending", "accepted"} \cup Verdicts]
    /\ cursor \in [Scopes -> [last : Nat, status : Statuses]]
    /\ {stop, announced} \subseteq BOOLEAN
    /\ billing \in [Usage -> {"none"} \cup Verdicts]
    /\ published \subseteq Events
    /\ told \in [Events -> {"nothing", "accepted"} \cup Verdicts]
    /\ calls \in [Calls -> Call \cup {Idle}]
    /\ faults \in 0 .. MaxFaults

Init ==
    /\ lease = IF Registered THEN "active" ELSE "reserved"
    /\ live = (IF Registered THEN 1 ELSE 0) /\ issued = live /\ known = live
    /\ sent = <<>> /\ nonces = {}
    /\ audit = [e \in Events |-> "none"]
    /\ cursor = [s \in Scopes |-> [last |-> 0, status |-> "starting"]]
    /\ stop = FALSE /\ announced = FALSE
    /\ billing = [e \in Usage |-> "none"] /\ published = {}
    /\ told = [e \in Events |-> "nothing"]
    /\ calls = [c \in Calls |-> Idle] /\ faults = 0
-----------------------------------------------------------------------------
Fault == faults < MaxFaults /\ faults' = faults + 1

(* The lease is activated and closed by ServerControl.                     *)
Lease ==
    /\ \/ lease = "reserved" /\ lease' \in {"active", "closed"}
       \/ lease = "active" /\ lease' = "closed"
    /\ UNCHANGED <<live, issued, wire, audit, cursor, stop, billing, published,
                   announced, told, calls, faults>>

Expire ==
    /\ live # 0 /\ live' = 0 /\ Fault
    /\ UNCHANGED <<lease, issued, wire, audit, cursor, stop, billing, published,
                   announced, told, calls>>

(* The worker registers, or says what it did not yet hear was accepted; of *)
(* a scope, one event after the other.                                     *)
Sayable ==
    {e \in Events : /\ known # 0 /\ told[e] = "nothing"
                    /\ \A f \in Events : f.scope = e.scope /\ f.n < e.n
                                         => told[f] # "nothing"}

Registers == Cardinality({k \in 1 .. Len(sent) : sent[k].event = Registration})

Send ==
    /\ Len(sent) < MaxSends
    /\ \E e \in Sayable \cup (IF Registers < MaxSessions THEN {Registration} ELSE {}) :
          sent' = Append(sent, [event |-> e, token |-> known,
                                knew |-> \E u \in Usage : told[u] = "stop"])
    /\ UNCHANGED <<sessions, known, nonces, audit, cursor, stop, billing,
                   published, announced, told, calls, faults>>
-----------------------------------------------------------------------------
At(c, pc) == calls[c].pc = pc
Go(c, pc) == calls' = [calls EXCEPT ![c].pc = pc]
End(c) == calls' = [calls EXCEPT ![c] = Idle]

(* The worker hears the answer, or does not.                               *)
Tell(e, answer) ==
    \/ told' = [told EXCEPT ![e] = answer] /\ UNCHANGED faults
    \/ Fault /\ UNCHANGED told

(* authenticate and authenticateBootstrap: a session that is not           *)
(* invalidated and did not expire, and a nonce that was not seen.          *)
Authenticate(c) ==
    /\ calls[c] = Idle
    /\ \E k \in 1 .. Len(sent) :
          /\ k \notin nonces
          /\ sent[k].event # Registration => sent[k].token = live
          /\ nonces' = nonces \cup {k}
          /\ calls' = [calls EXCEPT ![c] = [pc |-> "lease", event |-> sent[k].event,
                                            verdict |-> "accepted"]]
    /\ UNCHANGED <<sessions, known, sent, audit, cursor, stop, billing,
                   published, announced, told, faults>>

(* assertLeaseActive; a runtime event needs a lease that is not closed.    *)
Admits(e) == IF e.scope = "runtime" THEN lease # "closed" ELSE lease = "active"

CheckLease(c) ==
    /\ At(c, "lease")
    /\ LET e == calls[c].event
       IN  CASE ~Admits(e) -> End(c)
             [] Admits(e) /\ e = Registration -> Go(c, "replace")
             [] Admits(e) /\ e.scope = "usage" -> Go(c, "stopped?")
             [] OTHER -> Go(c, "claim")
    /\ UNCHANGED <<sessions, wire, audit, cursor, stop, billing, published,
                   announced, told, faults>>

(* replaceSession, of the lease as it was read.                            *)
Replace(c) ==
    /\ At(c, "replace")
    /\ issued' = issued + 1 /\ live' = issued'
    /\ \/ known' = issued' /\ UNCHANGED faults
       \/ Fault /\ UNCHANGED known
    /\ End(c)
    /\ UNCHANGED <<lease, sent, nonces, audit, cursor, stop, billing, published,
                   announced, told>>

CheckStop(c) ==
    /\ At(c, "stopped?")
    /\ IF stop THEN End(c) ELSE Go(c, "claim")
    /\ UNCHANGED <<sessions, wire, audit, cursor, stop, billing, published,
                   announced, told, faults>>
-----------------------------------------------------------------------------
(* Fault for a mutation run: a claim that is pending is given again.       *)
Open_Pending(e) == audit[e] \in {"none", "pending"}

Open(e) == audit[e] = "none"
InOrder(e) ==
    CASE e.scope = "operation" -> TRUE
      [] e.scope = "usage" -> e.n > cursor[e.scope].last
      [] OTHER -> /\ e.n >= cursor[e.scope].last
                  /\ e.status \in Follows[cursor[e.scope].status]

(* claimAudit: an event that was completed is answered as it was then.     *)
Claim(c) ==
    /\ At(c, "claim")
    /\ LET e == calls[c].event
       IN  \/ /\ Open(e) /\ InOrder(e)
              /\ audit' = [audit EXCEPT ![e] = "pending"]
              /\ Go(c, IF e.scope = "heartbeat" THEN "complete" ELSE "act")
              /\ UNCHANGED <<told, faults>>
           \/ /\ ~(Open(e) /\ InOrder(e))
              /\ IF Open(e) \/ audit[e] = "pending" THEN UNCHANGED <<told, faults>>
                 ELSE Tell(e, audit[e])
              /\ End(c) /\ UNCHANGED audit
    /\ UNCHANGED <<sessions, wire, cursor, stop, billing, published, announced>>

(* Billing decides on an event once, and repeats what it decided.          *)
Decisions(e) == IF billing[e] = "none" THEN Verdicts ELSE {billing[e]}

(* Fault for a mutation run: the stop is not remembered.                   *)
AfterSettle_Unmarked(verdict) == "complete"

AfterSettle(verdict) == IF verdict = "stop" THEN "mark" ELSE "complete"

Settle(c) ==
    /\ At(c, "act") /\ calls[c].event.scope = "usage"
    /\ \/ \E verdict \in Decisions(calls[c].event) :
             /\ billing' = [billing EXCEPT ![calls[c].event] = verdict]
             /\ \/ /\ calls' = [calls EXCEPT ![c].pc = AfterSettle(verdict),
                                             ![c].verdict = verdict]
                   /\ UNCHANGED faults
                \/ Fault /\ Go(c, "release")
       \/ Fault /\ Go(c, "release") /\ UNCHANGED billing
    /\ UNCHANGED <<sessions, wire, audit, cursor, stop, published, announced, told>>

(* events.publish and operations.receive.                                  *)
Publish(c) ==
    /\ At(c, "act") /\ calls[c].event.scope # "usage"
    /\ \/ /\ published' = published \cup {calls[c].event}
          /\ \/ /\ Go(c, IF calls[c].event.status = "stopped" THEN "ask"
                         ELSE "complete")
                /\ UNCHANGED faults
             \/ Fault /\ Go(c, "release")
       \/ Fault /\ Go(c, "release") /\ UNCHANGED published
    /\ UNCHANGED <<sessions, wire, audit, cursor, stop, billing, announced, told>>

MarkStop(c) ==
    /\ At(c, "mark")
    /\ \/ /\ stop' = TRUE
          /\ \/ Go(c, "complete") /\ UNCHANGED faults
             \/ Fault /\ Go(c, "release")
       \/ Fault /\ Go(c, "release") /\ UNCHANGED stop
    /\ UNCHANGED <<sessions, wire, audit, cursor, billing, published, announced,
                   told>>

AskStop(c) ==
    /\ At(c, "ask")
    /\ Go(c, IF stop THEN "announce" ELSE "complete")
    /\ UNCHANGED <<sessions, wire, audit, cursor, stop, billing, published,
                   announced, told, faults>>

Announce(c) ==
    /\ At(c, "announce")
    /\ \/ /\ announced' = TRUE
          /\ \/ Go(c, "complete") /\ UNCHANGED faults
             \/ Fault /\ Go(c, "release")
       \/ Fault /\ Go(c, "release") /\ UNCHANGED announced
    /\ UNCHANGED <<sessions, wire, audit, cursor, stop, billing, published, told>>

(* completeAudit and the answer.  The handler of a heartbeat releases      *)
(* nothing.                                                                *)
Moved(at, e) ==
    IF e.scope = "operation" THEN at
    ELSE [last |-> e.n, status |-> IF e.status = None THEN at.status ELSE e.status]

Complete(c) ==
    /\ At(c, "complete")
    /\ LET e == calls[c].event
       IN  \/ /\ audit' = [audit EXCEPT ![e] = calls[c].verdict]
              /\ cursor' = [cursor EXCEPT ![e.scope] = Moved(@, e)]
              /\ Tell(e, calls[c].verdict)
              /\ End(c)
           \/ /\ Fault
              /\ IF e.scope = "heartbeat" THEN End(c) ELSE Go(c, "release")
              /\ UNCHANGED <<audit, cursor, told>>
    /\ UNCHANGED <<sessions, wire, stop, billing, published, announced>>

Release(c) ==
    /\ At(c, "release")
    /\ \/ /\ audit' = [audit EXCEPT ![calls[c].event] =
                           IF @ = "pending" THEN "none" ELSE @]
          /\ UNCHANGED faults
       \/ Fault /\ UNCHANGED audit
    /\ End(c)
    /\ UNCHANGED <<sessions, wire, cursor, stop, billing, published, announced, told>>

(* The isolate ends.                                                       *)
Die(c) ==
    /\ calls[c] # Idle /\ Fault /\ End(c)
    /\ UNCHANGED <<sessions, wire, audit, cursor, stop, billing, published,
                   announced, told>>

Next ==
    \/ Lease \/ Expire \/ Send
    \/ \E c \in Calls :
          \/ Authenticate(c) \/ CheckLease(c) \/ Replace(c) \/ CheckStop(c)
          \/ Claim(c) \/ Settle(c) \/ Publish(c) \/ MarkStop(c) \/ AskStop(c)
          \/ Announce(c) \/ Complete(c) \/ Release(c) \/ Die(c)

Spec == Init /\ [][Next]_vars
-----------------------------------------------------------------------------
(* Of the calls with one event, at most one is past its claim, whatever is *)
(* sent again while it works: an event is being settled, published or      *)
(* released by one call, and its audit says so.                            *)
Working(c) == calls[c].pc \in {"act", "mark", "ask", "announce", "complete", "release"}
OneCallPerEvent ==
    /\ \A c, d \in Calls : Working(c) /\ Working(d) /\ c # d
                           => calls[c].event # calls[d].event
    /\ \A c \in Calls : Working(c) => audit[calls[c].event] = "pending"

(* What the worker heard is so: usage that is "accepted" was decided by    *)
(* Billing, with the action that the worker was told, and an event that is *)
(* accepted was published, however many requests it took.                  *)
AcceptedIsDone ==
    \A e \in Events : told[e] # "nothing" =>
        CASE e.scope = "usage" -> told[e] = billing[e]
          [] e.scope = "heartbeat" -> TRUE
          [] OTHER -> e \in published

(* "returns stop_required for insufficient balance and publishes stopped   *)
(* only after observation" (worker/service.test.ts:213): once a worker was *)
(* told to stop, and says that it has, runtime.stopped.v1 is published     *)
(* before its report is accepted, so that ServerControl ends the lease.    *)
StopAnnounced ==
    \A e \in Events :
        e.status = "stopped" /\ e.scope = "runtime" /\ told[e] = "accepted"
        /\ (\A k \in 1 .. Len(sent) : sent[k].event = e => sent[k].knew)
        => announced

(* After Billing refused one event, no other event of the lease is brought *)
(* to it: a worker that goes on is refused until it stops.                 *)
RefusedOnce ==
    \A e, f \in Usage : billing[e] = "stop" /\ billing[f] # "none" => f.n <= e.n

(* The safety of the worker's sessions and reports.                        *)
Inv == TypeOK /\ OneCallPerEvent /\ AcceptedIsDone /\ StopAnnounced /\ RefusedOnce
=============================================================================
