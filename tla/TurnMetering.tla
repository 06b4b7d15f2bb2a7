----------------------------- MODULE TurnMetering -----------------------------
(***************************************************************************)
(* `TurnCredentialMeter` and `runTurnMeteringSweep`                        *)
(* (src/src/turnMetering.ts), with /v1/rtc/official                        *)
(* (src/src/routes/rtc.ts): a credential is issued, bytes are relayed with *)
(* it, and sweeps ask the provider's analytics how many.                   *)
(*                                                                         *)
(* Calls of the meter are transactions of the billing store and so are one *)
(* step; the calls to the provider are not, and sweeps overlap.  There is  *)
(* one account.  A source is a period of its subscription.  The clock      *)
(* counts the minutes by which the analytics file bytes.                   *)
(***************************************************************************)
EXTENDS Integers, FiniteSets

CONSTANTS Credentials, Sweeps, None,
          NumSources, Starts, Ends,  \* the period of each source
          Limit,       \* turnEgressBytesPerPeriod
          Ttl,         \* CREDENTIAL_TTL_SECONDS
          Delay,       \* ANALYTICS_DELAY_MS
          Window,      \* FINALIZATION_WINDOW_MS
          MaxRun,      \* bound: the time that a sweep may take
          MaxFailures, \* bound: the sweeps that fail
          MaxBytes,    \* bound: the bytes of a credential
          MaxTime      \* bound: the clock

Sources == 1 .. NumSources
Times == 0 .. MaxTime
Minutes == 0 .. MaxTime + Ttl

(* A sweep is started every five minutes and the window is two hours: one  *)
(* that ends in time is started after the analytics are complete.          *)
TurnAssumption ==
    /\ IsFiniteSet(Credentials) /\ None \notin Credentials \cup Times
    /\ {NumSources, Limit, Ttl, Delay, Window, MaxRun, MaxFailures, MaxBytes,
        MaxTime} \subseteq Nat
    /\ Starts \in [Sources -> Nat] /\ Ends \in [Sources -> Nat]
    /\ Ttl > 0 /\ Delay + MaxFailures + MaxRun < Window

VARIABLES issuance,  \* state.turnCredentialIssuances; pruned ones stay here
          usage,     \* state.allowanceUsage
          route,     \* the requests for credentials
          until,     \* when a credential that was handed out ends
          relayed,   \* the analytics: bytes relayed before a minute
          sweep, started, failures,
          now

vars == <<issuance, usage, route, until, relayed, sweep, started, failures,
          now>>

NotIssued == [state |-> "none"]
Issuance == [state : {"live", "released", "pruned"}, source : Sources,
             issued : Times, expires : Nat, observed : 0 .. MaxBytes]
Idle == [at |-> None]
Bytes == 0 .. MaxBytes

TypeOK ==
    /\ issuance \in [Credentials -> Issuance \cup {NotIssued}]
    /\ usage \in [Sources -> Nat]
    /\ route \in [Credentials -> {"new", "authorized", "given", "lost"}]
    /\ until \in [Credentials -> Minutes]
    /\ relayed \in [Credentials -> [Minutes -> Bytes]]
    /\ sweep \in [Sweeps -> [at : Times, todo : SUBSET Credentials,
                             doing : Credentials \cup {None},
                             answer : Bytes] \cup {Idle}]
    /\ started \in Times \cup {None} /\ failures \in 0 .. MaxFailures
    /\ now \in Times

Init ==
    /\ issuance = [c \in Credentials |-> NotIssued]
    /\ usage = [s \in Sources |-> 0]
    /\ route = [c \in Credentials |-> "new"]
    /\ until = [c \in Credentials |-> 0]
    /\ relayed = [c \in Credentials |-> [t \in Minutes |-> 0]]
    /\ sweep = [w \in Sweeps |-> Idle]
    /\ started = None /\ failures = 0 /\ now = 0
-----------------------------------------------------------------------------

Live(c) == issuance[c].state = "live"
Least(m, n) == IF m < n THEN m ELSE n

(* authorize                                                               *)
Authorize(c) ==
    /\ route[c] = "new"
    /\ \E s \in Sources :
          /\ Starts[s] <= now /\ now < Ends[s]
          /\ ~\E d \in Credentials : Live(d) /\ issuance[d].expires > now
          /\ usage[s] < Limit
          /\ issuance' = [issuance EXCEPT ![c] =
                 [state |-> "live", source |-> s, issued |-> now,
                  expires |-> now + Ttl, observed |-> 0]]
    /\ route' = [route EXCEPT ![c] = "authorized"]
    /\ UNCHANGED <<usage, until, relayed, sweep, started, failures, now>>

(* The provider made the credential, which ends later than the issuance if *)
(* it took a while, and the client has it.                                 *)
HandOut(c) ==
    /\ route[c] = "authorized"
    /\ route' = [route EXCEPT ![c] = "given"]
    /\ until' = [until EXCEPT ![c] = now + Ttl]
    /\ UNCHANGED <<issuance, usage, relayed, sweep, started, failures, now>>

(* It did not: release.                                                    *)
Release(c) ==
    /\ route[c] = "authorized"
    /\ route' = [route EXCEPT ![c] = "lost"]
    /\ issuance' = IF Live(c)
                   THEN [issuance EXCEPT ![c].state = "released"]
                   ELSE issuance
    /\ UNCHANGED <<usage, until, relayed, sweep, started, failures, now>>

(* The isolate ends, or the client does not get the answer.                *)
Lose(c) ==
    /\ route[c] = "authorized"
    /\ route' = [route EXCEPT ![c] = "lost"]
    /\ UNCHANGED <<issuance, usage, until, relayed, sweep, started, failures,
           now>>

(* The client relays a byte.                                               *)
Relay(c) ==
    /\ route[c] = "given" /\ now < until[c]
    /\ relayed[c][MaxTime + Ttl] < MaxBytes
    /\ relayed' = [relayed EXCEPT ![c] =
                       [t \in Minutes |-> @[t] + IF t > now THEN 1 ELSE 0]]
    /\ UNCHANGED <<issuance, usage, route, until, sweep, started, failures,
           now>>
-----------------------------------------------------------------------------

(* Fault for a mutation run: a credential that expired is not asked about. *)
Due_Unexpired(at) ==
    {c \in Credentials :
        Live(c) /\ issuance[c].issued < at - Delay /\ issuance[c].expires > at}

(* dueForAnalytics                                                         *)
Due(at) ==
    {c \in Credentials :
        /\ Live(c) /\ issuance[c].issued < at - Delay
        /\ issuance[c].expires + Window > at}

(* A sweep is started at its time.                                         *)
Start(w) ==
    /\ sweep[w] = Idle /\ started # now
    /\ sweep' = [sweep EXCEPT ![w] =
                     [at |-> now, todo |-> Due(now), doing |-> None,
                      answer |-> 0]]
    /\ started' = now
    /\ UNCHANGED <<issuance, usage, route, until, relayed, failures, now>>

Asks(w, todo, c, answer) ==
    sweep' = [sweep EXCEPT ![w] = [at |-> sweep[w].at, todo |-> todo,
                                   doing |-> c, answer |-> answer]]

(* The bytes of the minutes after that of issue (datetimeMinute_gt) and    *)
(* before the end (datetimeMinute_lt).                                     *)
Counted(c, end) == relayed[c][end] - relayed[c][issuance[c].issued + 1]

(* queryCredentialEgress                                                   *)
Query(w, c) ==
    /\ sweep[w] # Idle /\ sweep[w].doing = None /\ c \in sweep[w].todo
    /\ Asks(w, sweep[w].todo \ {c}, c,
            Counted(c, Least(sweep[w].at - Delay, issuance[c].expires)))
    /\ UNCHANGED <<issuance, usage, route, until, relayed, started, failures,
           now>>

(* A query fails, or the isolate ends: the rest of the sweep is not done.  *)
Fail(w) ==
    /\ sweep[w] # Idle /\ failures < MaxFailures
    /\ sweep' = [sweep EXCEPT ![w] = Idle]
    /\ failures' = failures + 1
    /\ UNCHANGED <<issuance, usage, route, until, relayed, started, now>>

(* Faults for mutation runs: what a sweep counts is added whatever was     *)
(* observed; a count that is lower is taken as a correction; the bounds of *)
(* the query are left out of the count.                                    *)
Delta_Exclusive(c, n) == n - issuance[c].observed - 1
Delta_All(c, n) == n
Delta_Signed(c, n) == n - issuance[c].observed

Delta(c, n) ==
    IF n > issuance[c].observed THEN n - issuance[c].observed ELSE 0

(* settle                                                                  *)
Settle(w) ==
    /\ sweep[w] # Idle /\ sweep[w].doing # None
    /\ LET c == sweep[w].doing
           n == sweep[w].answer
       IN  IF Live(c) /\ Delta(c, n) # 0
           THEN /\ usage' = [usage EXCEPT ![issuance[c].source] =
                                 @ + Delta(c, n)]
                /\ issuance' = [issuance EXCEPT ![c].observed = n]
           ELSE UNCHANGED <<usage, issuance>>
    /\ Asks(w, sweep[w].todo, None, 0)
    /\ UNCHANGED <<route, until, relayed, started, failures, now>>

(* pruneFinalized, which ends the sweep.                                   *)
Prune(w) ==
    /\ sweep[w] # Idle /\ sweep[w].doing = None /\ sweep[w].todo = {}
    /\ issuance' = [c \in Credentials |->
           IF Live(c) /\ issuance[c].expires + Window <= sweep[w].at
           THEN [issuance[c] EXCEPT !.state = "pruned"] ELSE issuance[c]]
    /\ sweep' = [sweep EXCEPT ![w] = Idle]
    /\ UNCHANGED <<usage, route, until, relayed, started, failures, now>>

(* Sweeps are started on time and do not run for longer than MaxRun.       *)
Tick ==
    /\ now < MaxTime /\ started = now
    /\ \A w \in Sweeps : sweep[w] # Idle => now - sweep[w].at < MaxRun
    /\ now' = now + 1
    /\ UNCHANGED <<issuance, usage, route, until, relayed, sweep, started,
           failures>>

Next ==
    \/ \E c \in Credentials :
          \/ Authorize(c) \/ HandOut(c) \/ Release(c) \/ Lose(c) \/ Relay(c)
          \/ \E w \in Sweeps : Query(w, c)
    \/ \E w \in Sweeps : Start(w) \/ Fail(w) \/ Settle(w) \/ Prune(w)
    \/ Tick

Spec == Init /\ [][Next]_vars
-----------------------------------------------------------------------------

(* The total of amounts in Nat, as the number of their units.              *)
Units(amount) == UNION {{x} \X (1..amount[x]) : x \in DOMAIN amount}

Total(amount) == Cardinality(Units(amount))

Observed(s) ==
    [c \in Credentials |->
       IF issuance[c] # NotIssued /\ issuance[c].source = s
       THEN issuance[c].observed ELSE 0]

(* A byte is charged once, to the period in which its credential was       *)
(* issued: whatever the order in which sweeps that overlap come to settle  *)
(* what they were told.                                                    *)
ChargedOnce == \A s \in Sources : usage[s] = Total(Observed(s))

(* What has been charged is never taken back by a sweep that is late.      *)
KeepsCharges == \A s \in Sources : usage'[s] >= usage[s]

(* When a credential is forgotten, all that was relayed with it after the  *)
(* minute of its issue and before its issuance expired has been charged,   *)
(* although sweeps fail as a whole when one query does.                    *)
PrunedIsCharged ==
    \A c \in Credentials :
        issuance[c].state = "pruned" =>
            issuance[c].observed = Counted(c, issuance[c].expires)
=============================================================================
