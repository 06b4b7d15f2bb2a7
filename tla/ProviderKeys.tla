------------------------------ MODULE ProviderKeys ------------------------------
(* The keys of the AI providers (`AiProviderClient`, src/src/agnes.ts):     *)
(* calls of one isolate take the keys of Agnes in turn, leave a key that   *)
(* was rate limited alone for a while, and turn to DeepSeek, if that is    *)
(* configured, when Agnes has no answer.  Calls overlap wherever they wait *)
(* for the provider.                                                       *)
EXTENDS Naturals

CONSTANTS Calls,
          NumKeys,    \* keys of Agnes and of DeepSeek; DeepSeek may have none
          Cooldowns,  \* what a provider may ask for, in units of a second
          MaxTime, MaxCalls, \* bounds
          None

Providers == {"agnes", "deepseek"}
KeysOf(p) == 0 .. NumKeys[p] - 1

KeysAssumption ==
    /\ NumKeys \in [Providers -> Nat] /\ NumKeys["agnes"] > 0
    /\ Cooldowns \subseteq Nat \ {0}

VARIABLES now,
          cursor,   \* for every provider, the key that is next
          cooldown, \* for every key, when it may be used again
          calls,
          begun

vars == <<now, cursor, cooldown, calls, begun>>

Idle == [at |-> "idle", provider |-> "agnes", tried |-> {}, key |-> None,
         seen |-> None, left |-> None]

Init ==
    /\ now = 0
    /\ cursor = [p \in Providers |-> 0]
    /\ cooldown = [p \in Providers |-> [k \in KeysOf(p) |-> 0]]
    /\ calls = [h \in Calls |-> Idle]
    /\ begun = 0

Tick == now < MaxTime /\ now' = now + 1 /\ UNCHANGED <<cursor, cooldown, calls, begun>>

Begin(h) ==
    /\ calls[h].at = "idle" /\ begun < MaxCalls
    /\ begun' = begun + 1
    /\ calls' = [calls EXCEPT ![h].at = "acquire"]
    /\ UNCHANGED <<now, cursor, cooldown>>
-----------------------------------------------------------------------------
(* The first key from the cursor on that this call has not tried and that  *)
(* does not cool down.                                                     *)
Free(h) ==
    LET p == calls[h].provider IN
    {k \in KeysOf(p) : k \notin calls[h].tried /\ cooldown[p][k] <= now}

Distance(p, k) == (k + NumKeys[p] - cursor[p]) % NumKeys[p]

Acquire(h) ==
    LET p == calls[h].provider IN
    /\ calls[h].at = "acquire"
    /\ \E k \in Free(h) :
        /\ \A other \in Free(h) : Distance(p, k) <= Distance(p, other)
        /\ cursor' = [cursor EXCEPT ![p] = (k + 1) % NumKeys[p]]
        /\ calls' = [calls EXCEPT ![h].at = "wait", ![h].key = k,
                         ![h].tried = @ \cup {k}]
    /\ UNCHANGED <<now, cooldown, begun>>

(* Agnes has no answer: DeepSeek is asked, with all of its keys.           *)
Falls(h, why) ==
    calls' = [calls EXCEPT ![h] =
        IF calls[h].provider = "agnes" /\ NumKeys["deepseek"] > 0
        THEN [Idle EXCEPT !.at = "acquire", !.provider = "deepseek", !.left = why]
        ELSE Idle]

(* No key is left.  A rate limit outweighs a failure of the network.       *)
Exhausted_AtFailure(h) == Free(h) = {} \/ calls[h].seen = "failed"   \* mutant

Exhausted(h) == Free(h) = {}

GiveUp(h) ==
    /\ calls[h].at = "acquire" /\ Exhausted(h)
    /\ Falls(h, IF calls[h].seen = None THEN "limited" ELSE calls[h].seen)
    /\ UNCHANGED <<now, cursor, cooldown, begun>>
-----------------------------------------------------------------------------
Waits(h) == calls[h].at = "wait"

(* An answer, and one that the client is to blame for, is the answer.      *)
Answered(h) ==
    /\ Waits(h)
    /\ calls' = [calls EXCEPT ![h] = Idle]
    /\ UNCHANGED <<now, cursor, cooldown, begun>>

(* A server that fails has no other key tried.                             *)
Broken(h) ==
    /\ Waits(h)
    /\ Falls(h, "broken")
    /\ UNCHANGED <<now, cursor, cooldown, begun>>

Unreachable(h) ==
    /\ Waits(h)
    /\ calls' = [calls EXCEPT ![h].at = "acquire", ![h].key = None,
                     ![h].seen = IF @ = "limited" THEN @ ELSE "failed"]
    /\ UNCHANGED <<now, cursor, cooldown, begun>>

(* The cool-down counts from the answer, whatever an earlier answer said.  *)
CoolDown(c) == now + c

RateLimited(h) ==
    /\ Waits(h)
    /\ \E c \in Cooldowns :
        cooldown' = [cooldown EXCEPT ![calls[h].provider][calls[h].key] = CoolDown(c)]
    /\ calls' = [calls EXCEPT ![h].at = "acquire", ![h].key = None,
                     ![h].seen = "limited"]
    /\ UNCHANGED <<now, cursor, begun>>

Next ==
    \/ Tick
    \/ \E h \in Calls :
        \/ Begin(h) \/ Acquire(h) \/ GiveUp(h) \/ Answered(h)
        \/ Broken(h) \/ Unreachable(h) \/ RateLimited(h)

Spec == Init /\ [][Next]_vars
-----------------------------------------------------------------------------
(* Cursors point at keys, and calls hold keys of the provider they ask.    *)
TypeOK ==
    /\ \A p \in Providers : NumKeys[p] > 0 => cursor[p] \in KeysOf(p)
    /\ \A h \in Calls :
        /\ calls[h].tried \subseteq KeysOf(calls[h].provider)
        /\ Waits(h) => calls[h].key \in calls[h].tried

(* A call gives up on Agnes, or altogether, only when a server failed, or  *)
(* when every key was tried by this call or cools down; calls that overlap *)
(* move the cursor and cool keys down meanwhile.                           *)
GivesUpForCause ==
    \A h \in Calls :
        (/\ calls[h].at = "acquire"
         /\ \/ calls'[h].at = "idle"
            \/ calls[h].provider = "agnes" /\ calls'[h].provider = "deepseek") =>
        \A k \in KeysOf(calls[h].provider) :
            k \in calls[h].tried \/ cooldown[calls[h].provider][k] > now

GiveUpSteps == [][GivesUpForCause]_vars
=============================================================================
