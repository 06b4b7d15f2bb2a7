-------------------------------- MODULE MCEdge --------------------------------
(* Model-checking instances of what runs at the edge: rooms                *)
(* (MultiplayerRoom), relayed bytes (TurnMetering), the AI (AiAllowance,    *)
(* AiRequests, ProviderKeys) and translations (TranslationCache).  A       *)
(* behaviour exercises one of them.                                        *)
EXTENDS MultiplayerRoom, TLC

CONSTANTS Parts,   \* those that a run looks at
          Things,  \* requests
          Pair,    \* credentials; usage ids; sweeps
          TurnSweeps, Periods, PeriodLength, TurnLimit, TurnTtl, TurnDelay,
          TurnWindow, TurnRun, TurnFailures, TurnBytes, TurnTime

(* Rooms whose storage fails between two writes.                           *)
Faulty == INSTANCE MultiplayerRoom
    WITH Ttl <- 1, Grace <- 0, MaxTime <- 1, Faults <- TRUE, SlowBodies <- FALSE
-----------------------------------------------------------------------------
(* Periods of a subscription, one after the other.                         *)
VARIABLES issuance, usage, route, until, relayed, querying, started, failures,
          minute

turnVars == <<issuance, usage, route, until, relayed, querying, started,
              failures, minute>>

Turn == INSTANCE TurnMetering
    WITH now <- minute, sweep <- querying, Credentials <- Pair,
         Sweeps <- TurnSweeps, NumSources <- Periods,
         Starts <- [s \in 1..Periods |-> (s - 1) * PeriodLength],
         Ends <- [s \in 1..Periods |-> s * PeriodLength],
         Limit <- TurnLimit, Ttl <- TurnTtl, Delay <- TurnDelay,
         Window <- TurnWindow, MaxRun <- TurnRun, MaxFailures <- TurnFailures,
         MaxBytes <- TurnBytes, MaxTime <- TurnTime

ASSUME TurnHolds == Turn!TurnAssumption
-----------------------------------------------------------------------------
(* Two sources that overlap.                                               *)
VARIABLES reservations, spent, settled, call, hour

aiVars == <<reservations, spent, settled, call, hour>>

Ai == INSTANCE AiAllowance
    WITH now <- hour, usage <- spent, Requests <- Things, UsageIds <- Pair,
         NumSources <- 2, Starts <- <<0, 1>>, Ends <- <<2, 3>>, Limit <- 2,
         MaxUnits <- 2, StaleAfter <- 0, MaxTime <- 3

ASSUME Ai!AllowanceAssumption

(* A request that is repeated, with its id and with another, and its key   *)
(* used for another request; and two requests with one id.                 *)
VARIABLES instant, ledger, approved, paid, asking, answered, arrived, slips

askVars == <<instant, ledger, approved, paid, asking, answered, arrived, slips>>

Submission(id, key, content) == [id |-> id, key |-> key, content |-> content]

Repeated == INSTANCE AiRequests
    WITH now <- instant, authorizations <- approved, settlements <- paid,
         calls <- asking, faults <- slips, Calls <- Pair, Keys <- {"k1"},
         Submissions <- {Submission("r1", "k1", "c1"),
             Submission("r2", "k1", "c1"),
                         Submission("r1", "k1", "c2")},
         MaxCalls <- 3, MaxNow <- 2, MaxFaults <- 1

Colliding == INSTANCE AiRequests
    WITH now <- instant, authorizations <- approved, settlements <- paid,
         calls <- asking, faults <- slips, Calls <- Pair, Keys <- {"k1", "k2"},
         Submissions <- {Submission("r1", "k1", "c1"),
             Submission("r1", "k2", "c1")},
         MaxCalls <- 3, MaxNow <- 1, MaxFaults <- 0

ASSUME Repeated!AiAssumption /\ Colliding!AiAssumption

(* Two keys of one provider and one of the other.                          *)
VARIABLES second, cursor, cooldown, tries, begun

keyVars == <<second, cursor, cooldown, tries, begun>>

Taking == INSTANCE ProviderKeys
    WITH now <- second, calls <- tries, Calls <- Pair,
         NumKeys <- [agnes |-> 2, deepseek |-> 1], Cooldowns <- {1, 2},
         MaxTime <- 2, MaxCalls <- 3

ASSUME Taking!KeysAssumption
-----------------------------------------------------------------------------
(* A description that is edited twice while sweeps end in time; one with   *)
(* sweeps that stall past their lease; and one with many readers.          *)
VARIABLES entity, etags, edge, sweep, request, source, clock, counted, exposed,
          since, newest, stale, doubled

cacheVars == <<entity, etags, edge, sweep, request, source, clock, counted,
               exposed, since, newest, stale, doubled>>

Edited == INSTANCE TranslationCache
    WITH now <- clock, current <- etags, Sweeps <- Pair, Requests <- {"r1"},
         Lease <- 2, Retry <- 2, EdgeRetry <- 1, Grace <- 1, HotRefresh <- 2,
         NormalRefresh <- 2, HotAccess <- 2,
         SweepLimit <- 1, MaxSource <- 2, MaxAccess <- 1, MaxTime <- 4

Stalled == INSTANCE TranslationCache
    WITH now <- clock, current <- etags, Sweeps <- Pair, Requests <- {"r1"},
         Lease <- 1, Retry <- 2, EdgeRetry <- 1, Grace <- 1, HotRefresh <- 2,
         NormalRefresh <- 2, HotAccess <- 2,
         SweepLimit <- 99, MaxSource <- 2, MaxAccess <- 1, MaxTime <- 2

Accessed == INSTANCE TranslationCache
    WITH now <- clock, current <- etags, Sweeps <- Pair,
         Requests <- {"r1", "r2"}, Lease <- 1, Retry <- 2, EdgeRetry <- 1,
         Grace <- 1, HotRefresh <- 2, NormalRefresh <- 2, HotAccess <- 2,
         SweepLimit <- 0, MaxSource <- 1,
         MaxAccess <- 2, MaxTime <- 1

ASSUME /\ Edited!TranslationAssumption /\ Stalled!TranslationAssumption
       /\ Accessed!TranslationAssumption
-----------------------------------------------------------------------------
VARIABLE part

MCInit ==
    /\ part \in Parts
    /\ Init /\ Turn!Init /\ Ai!Init /\ Taking!Init
    /\ IF part = "colliding" THEN Colliding!Init ELSE Repeated!Init
    /\ IF part = "accesses" THEN Accessed!Init ELSE Edited!Init

MCNext ==
    /\ UNCHANGED part
    /\ \/ /\ \/ part = "rooms" /\ Next
             \/ part = "faults" /\ Faulty!Next
          /\ UNCHANGED <<turnVars, aiVars, askVars, keyVars, cacheVars>>
       \/ part = "turn" /\ Turn!Next
          /\ UNCHANGED <<vars, aiVars, askVars, keyVars, cacheVars>>
       \/ part = "ai" /\ Ai!Next
          /\ UNCHANGED <<vars, turnVars, askVars, keyVars, cacheVars>>
       \/ /\ \/ part = "repeated" /\ Repeated!Next
             \/ part = "colliding" /\ Colliding!Next
          /\ UNCHANGED <<vars, turnVars, aiVars, keyVars, cacheVars>>
       \/ part = "keys" /\ Taking!Next
          /\ UNCHANGED <<vars, turnVars, aiVars, askVars, cacheVars>>
       \/ /\ \/ part = "edits" /\ Edited!Next
             \/ part = "stalls" /\ Stalled!Next
             \/ part = "accesses" /\ Accessed!Next
          /\ UNCHANGED <<vars, turnVars, aiVars, askVars, keyVars>>

meterVars == <<turnVars, aiVars, askVars, keyVars, cacheVars>>

MCSpec == MCInit /\ [][MCNext]_<<part, vars, meterVars>>

Symmetry ==
    Permutations(Accounts) \cup Permutations(Peers) \cup Permutations(Pair)
-----------------------------------------------------------------------------
(* A room whose storage does not fail: a member whose grace or room runs   *)
(* out is seen by the alarm, an open socket is a member's, and who is      *)
(* connected has the room as it is.                                        *)
SteadyRoomInv == part = "rooms" => SteadyInv

(* TURN: a byte is charged once, to the period in which its credential was *)
(* issued, and when a credential is forgotten, what it relayed after the   *)
(* minute of its issue and before its issuance expired has been charged.   *)
TurnInv ==
    part = "turn" => Turn!TypeOK /\ Turn!ChargedOnce /\ Turn!PrunedIsCharged

(* AI units: what is used and what is reserved never exceed the allowance, *)
(* and a request that is running holds all the units it may come to use.   *)
(* A request that is repeated is at work once, its answer is paid for, and *)
(* one that fails gives back what it authorized.                           *)
AiInv ==
    CASE part = "ai" -> Ai!TypeOK /\ Ai!NotOverdrawn /\ Ai!ReservedInFull
      [] part = "repeated" -> Repeated!Inv
      [] part = "colliding" -> Colliding!Inv
      [] part = "keys" -> Taking!TypeOK
      [] OTHER -> TRUE

(* Translations: the edge never has a text before the table has had it,    *)
(* and an access is lost only while a sweep has the row listed.  Unless    *)
(* two sweeps claim what both had listed, text that is not at the edge is  *)
(* on its way, and a copy at the edge that is older than the table expires *)
(* soon.                                                                   *)
CacheInv ==
    /\ CASE part = "accesses" -> Accessed!TypeOK
         [] part = "stalls" -> Stalled!TypeOK
         [] part = "edits" -> Edited!TypeOK
         [] OTHER -> TRUE
    /\ part = "edits" => Edited!EdgeExpires /\ Edited!EdgeNotForgotten
    /\ Edited!TableFirst
    /\ Edited!AccessesCounted

(* TURN bytes that were charged are never taken back by a sweep that is    *)
(* late; AI units are charged in full, over whichever sources were         *)
(* reserved, and refused for what is spent or recently held alone; the     *)
(* text of the table goes back to an older source only when a sweep claims *)
(* what it listed before, and no older copy replaces the one at the edge   *)
(* unless two sweeps claimed what both had listed.  A stored answer of the *)
(* AI stays, and a call gives up on a provider when it tried all keys that *)
(* do not cool down.                                                       *)
MeterSteps ==
    [][/\ Turn!KeepsCharges
       /\ part = "ai" => Ai!ChargesInFull /\ Ai!RefusesForCause
       /\ part = "repeated" => Repeated!AnswerStays
       /\ part = "keys" => Taking!GivesUpForCause
       /\ Edited!KeepsNewer
       /\ part = "edits" => Edited!EdgeNeverOlder]_meterVars
=============================================================================
