------------------------------- MODULE WorldSeeds -------------------------------
(* The world a shared service starts with (`SharedWorldSeedService`,        *)
(* src/src/sharedWorldSeed.ts): its owner declares an archive, gets one    *)
(* address to upload it to, and asks to complete it; the archive is then   *)
(* verified and selected, which the scheduler allows before the first      *)
(* start.  Every record is read, changed and written back whole, so that   *)
(* what overlapping calls write depends on who is last.  How the service   *)
(* goes on with the world is in SharedHostingScheduler.                    *)
EXTENDS Naturals, FiniteSets

CONSTANTS Calls,  \* calls that may be at work at the same time
          Seeds,  \* ids of seeds
          Keys,   \* keys of idempotency of create
          MaxCalls, MaxFaults, \* bounds
          None

SeedsAssumption ==
    /\ IsFiniteSet(Calls) /\ Calls # {} /\ Keys # {}
    /\ MaxCalls \in Nat /\ MaxFaults \in Nat

VARIABLES
    seeds,    \* shared_world_seeds
    claims,   \* shared_world_seed_claims, by key
    archives, \* what was uploaded: None, "good" or "bad"
    service,  \* whether it has started, the world it starts with, and the
              \* completions whose selection it remembers
    calls,
    verified, \* seeds whose archive a call found good
    chosen,   \* seeds that were the world of the service
    overlap,  \* whether two calls wrote the record of one seed at once
    begun, faults

vars == <<seeds, claims, archives, service, calls, verified, chosen, overlap,
          begun, faults>>

Idle == [at |-> "idle", seed |-> None, key |-> None, copy |-> None]

Statuses == {"awaiting_upload", "validating", "valid", "invalid", "selected"}

Init ==
    /\ seeds = [s \in Seeds |-> None]
    /\ claims = [k \in Keys |-> None]
    /\ archives = [s \in Seeds |-> None]
    /\ service = [started |-> FALSE, world |-> None, replays |-> {}]
    /\ calls = [h \in Calls |-> Idle]
    /\ verified = {} /\ chosen = {} /\ overlap = FALSE
    /\ begun = 0 /\ faults = 0

At(h, place) == calls[h].at = place

Goes(h, place) == calls' = [calls EXCEPT ![h].at = place]

End(h) == calls' = [calls EXCEPT ![h] = Idle]

Begin(h) == At(h, "idle") /\ begun < MaxCalls /\ begun' = begun + 1

Eligible == ~service.started
-----------------------------------------------------------------------------
(* The id is new with every call; the claim keeps the first.               *)
NewSeed(s) ==
    /\ seeds[s] = None
    /\ \A h \in Calls : calls[h].seed # s
    /\ \A k \in Keys : claims[k] # s

Create(h) ==
    /\ Begin(h) /\ Eligible
    /\ \E s \in Seeds, k \in Keys :
        /\ NewSeed(s)
        /\ calls' = [calls EXCEPT ![h] =
               [Idle EXCEPT !.at = "claim", !.seed = s, !.key = k]]
    /\ UNCHANGED <<seeds, claims, archives, service, verified, chosen, overlap, faults>>

(* Mutant: a claim is not looked for.                                      *)
Claimed_Again(h) == calls[h].seed

Claimed(h) == IF claims[calls[h].key] # None THEN claims[calls[h].key] ELSE calls[h].seed

(* Whoever comes later is given the seed, if it is there already and is    *)
(* what was declared, or an error.                                         *)
ClaimKey(h) ==
    /\ At(h, "claim")
    /\ claims' = [claims EXCEPT ![calls[h].key] = Claimed(h)]
    /\ IF Claimed(h) = calls[h].seed THEN Goes(h, "put") ELSE End(h)
    /\ UNCHANGED <<seeds, archives, service, verified, chosen, overlap, begun, faults>>

PutSeed(h) ==
    /\ At(h, "put")
    /\ seeds' = [seeds EXCEPT ![calls[h].seed] =
                    [key |-> calls[h].key, status |-> "awaiting_upload", issued |-> FALSE]]
    /\ End(h)
    /\ UNCHANGED <<claims, archives, service, verified, chosen, overlap, begun, faults>>
-----------------------------------------------------------------------------
(* The calls that will write the record of a seed as they know it.         *)
Writers(s) ==
    {h \in Calls : calls[h].seed = s
                     /\ calls[h].at \in {"issue", "validate", "verify", "accept",
                                         "select", "confirm", "reject"}}

(* An address is given once; it is noted before it is made.                *)
ReadForUrl(h) ==
    /\ Begin(h) /\ Eligible
    /\ \E s \in Seeds :
        /\ seeds[s] # None /\ seeds[s].status = "awaiting_upload" /\ ~seeds[s].issued
        /\ calls' = [calls EXCEPT ![h] =
               [Idle EXCEPT !.at = "issue", !.seed = s, !.copy = seeds[s]]]
        /\ overlap' = (overlap \/ Writers(s) # {})
    /\ UNCHANGED <<seeds, claims, archives, service, verified, chosen, faults>>

IssueUrl(h) ==
    /\ At(h, "issue")
    /\ seeds' = [seeds EXCEPT ![calls[h].seed] = [calls[h].copy EXCEPT !.issued = TRUE]]
    /\ End(h)
    /\ UNCHANGED <<claims, archives, service, verified, chosen, overlap, begun, faults>>

Upload ==
    /\ \E s \in Seeds, content \in {"good", "bad"} :
        /\ seeds[s] # None /\ seeds[s].issued /\ archives[s] = None
        /\ archives' = [archives EXCEPT ![s] = content]
    /\ UNCHANGED <<seeds, claims, service, calls, verified, chosen, overlap, begun, faults>>
-----------------------------------------------------------------------------
(* A seed that was dealt with is answered as it is.                        *)
Completable(s) == seeds[s].status = "awaiting_upload" /\ seeds[s].issued

Complete(h) ==
    /\ Begin(h)
    /\ \E s \in Seeds, k \in Keys :
        /\ seeds[s] # None /\ Completable(s)
        /\ calls' = [calls EXCEPT ![h] =
               [Idle EXCEPT !.at = "validate", !.seed = s, !.key = k, !.copy = seeds[s]]]
        /\ overlap' = (overlap \/ Writers(s) # {})
    /\ UNCHANGED <<seeds, claims, archives, service, verified, chosen, faults>>

(* The record is written as the call knows it, with another status.        *)
Put(h, status) ==
    seeds' = [seeds EXCEPT ![calls[h].seed] = [calls[h].copy EXCEPT !.status = status]]

Validating(h) ==
    /\ At(h, "validate")
    /\ Put(h, "validating")
    /\ Goes(h, "verify")
    /\ UNCHANGED <<claims, archives, service, verified, chosen, overlap, begun, faults>>

(* The archive has the size and the hash that were declared, and every     *)
(* file those of its manifest: or there is none, or the store fails.       *)
Good_Uploaded(s) == archives[s] # None   \* mutant: its content is not looked at

Good(s) == archives[s] = "good"

Verify(h) ==
    /\ At(h, "verify")
    /\ IF Good(calls[h].seed)
       THEN /\ Goes(h, "accept")
            /\ verified' = verified \cup ({calls[h].seed} \cap {s \in Seeds : archives[s] = "good"})
       ELSE Goes(h, "reject") /\ UNCHANGED verified
    /\ UNCHANGED <<seeds, claims, archives, service, chosen, overlap, begun, faults>>

Accept(h) ==
    /\ At(h, "accept")
    /\ Put(h, "valid")
    /\ Goes(h, "select")
    /\ UNCHANGED <<claims, archives, service, verified, chosen, overlap, begun, faults>>

(* selectInitialWorld: before the first start the last seed that is        *)
(* selected is the world; a completion that was heard already changes      *)
(* nothing.                                                                *)
Selectable_ToTheEnd == TRUE   \* mutant: the check of the transaction is left out

Selectable == Eligible

Selection(h) == <<calls[h].seed, calls[h].key>>

Selected(h) ==
    IF Selection(h) \in service.replays THEN UNCHANGED <<service, chosen>>
    ELSE /\ service' = [service EXCEPT !.world = calls[h].seed,
                                       !.replays = @ \cup {Selection(h)}]
         /\ chosen' = chosen \cup {calls[h].seed}

Select(h) ==
    /\ At(h, "select")
    /\ IF Selectable THEN Selected(h) /\ Goes(h, "confirm")
       ELSE End(h) /\ UNCHANGED <<service, chosen>>
    /\ UNCHANGED <<seeds, claims, archives, verified, overlap, begun, faults>>

Confirm(h) ==
    /\ At(h, "confirm")
    /\ Put(h, "selected")
    /\ End(h)
    /\ UNCHANGED <<claims, archives, service, verified, chosen, overlap, begun, faults>>

Reject(h) ==
    /\ At(h, "reject")
    /\ Put(h, "invalid")
    /\ End(h)
    /\ UNCHANGED <<claims, archives, service, verified, chosen, overlap, begun, faults>>

(* The store of archives, the scheduler or the repository fails, the       *)
(* scheduler perhaps after it selected: the seed is written as invalid.    *)
Fails(h) ==
    /\ calls[h].at \in {"verify", "accept", "select", "confirm"} /\ faults < MaxFaults
    /\ faults' = faults + 1
    /\ Goes(h, "reject")
    /\ IF At(h, "select") /\ Selectable THEN Selected(h) \/ UNCHANGED <<service, chosen>>
       ELSE UNCHANGED <<service, chosen>>
    /\ UNCHANGED <<seeds, claims, archives, verified, overlap, begun>>

Die(h) ==
    /\ ~At(h, "idle") /\ faults < MaxFaults
    /\ faults' = faults + 1
    /\ End(h)
    /\ UNCHANGED <<seeds, claims, archives, service, verified, chosen, overlap, begun>>

(* The owner starts the service.                                           *)
StartService ==
    /\ ~service.started
    /\ service' = [service EXCEPT !.started = TRUE]
    /\ UNCHANGED <<seeds, claims, archives, calls, verified, chosen, overlap, begun, faults>>

(* compilerGrants: one address to read the archive of a selected seed.     *)
Grantable(s) == seeds[s] # None /\ seeds[s].status = "selected"

Next ==
    \/ Upload \/ StartService
    \/ \E h \in Calls :
        \/ Create(h) \/ ClaimKey(h) \/ PutSeed(h) \/ ReadForUrl(h) \/ IssueUrl(h)
        \/ Complete(h) \/ Validating(h) \/ Verify(h) \/ Accept(h) \/ Select(h)
        \/ Confirm(h) \/ Reject(h) \/ Fails(h) \/ Die(h)

Spec == Init /\ [][Next]_vars
-----------------------------------------------------------------------------
(* Records are as the code writes them.                                    *)
TypeOK ==
    /\ \A s \in Seeds : seeds[s] # None =>
           seeds[s].status \in Statuses /\ seeds[s].key \in Keys
    /\ service.world \in Seeds \cup {None}
    /\ verified \subseteq Seeds /\ faults \in 0 .. MaxFaults

(* "only a validated seed becomes the initial world": the world of the     *)
(* service was found good, and so was every seed that may be read.         *)
WorldIsVerified ==
    /\ service.world # None => service.world \in verified
    /\ \A s \in Seeds : Grantable(s) => s \in verified /\ s \in chosen

(* A declaration that is repeated has one seed.                            *)
OneSeedPerKey ==
    \A k \in Keys : Cardinality({s \in Seeds : seeds[s] # None /\ seeds[s].key = k}) <= 1

(* The seed that the service starts with says so, once nobody is at work   *)
(* on it: unless something failed, or two calls on one seed overlapped, of *)
(* which the later writes back what it had read.                           *)
WorldSaysSo ==
    (service.world # None /\ faults = 0 /\ ~overlap) =>
        \/ Writers(service.world) # {}
        \/ Grantable(service.world)

Inv == TypeOK /\ WorldIsVerified /\ OneSeedPerKey /\ WorldSaysSo

(* "cannot overwrite a synced runtime world": what the service started     *)
(* with is what it keeps, whichever completions are still at work.         *)
StartedWorldStays == service.started => service'.world = service.world

WorldStays == [][StartedWorldStays]_vars
=============================================================================
