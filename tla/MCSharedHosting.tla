--------------------------- MODULE MCSharedHosting ----------------------------
(* Model-checking instances of shared hosting: the scheduler               *)
(* (SharedHostingScheduler), the hours it settles (SharedRuntime), the     *)
(* content a service runs (RuntimeSelection) and the archives it is made   *)
(* of (ModpackUploads), the world it starts with (WorldSeeds), the gateway *)
(* of the node agents (WorkspaceSync) and their queue (NodeCommandOutbox). *)
(* A behaviour exercises one of them.                                      *)
EXTENDS SharedHostingScheduler, TLC

CONSTANTS Parts,      \* those that a run looks at
          Workers,    \* calls in flight
          Faults      \* do calls die, are answers lost?

UnitCapacity == [n \in Nodes |-> 1]

UnitSize == [s \in Services |-> 1]
-----------------------------------------------------------------------------
CONSTANTS Hour, Price, Deposits, Lag, MaxClock, MaxCrashes

VARIABLES clock, balance, subscription, watermark, replies, charged, hosted,
          worker, crashes, overtaken

runtimeVars == <<clock, balance, subscription, watermark, replies, charged,
                 hosted, worker, crashes, overtaken>>

Runtime == INSTANCE SharedRuntime
    WITH service <- hosted

ASSUME HoursAssumption == Runtime!RuntimeAssumption
-----------------------------------------------------------------------------
VARIABLES status, content, used, agent, call, starts, faults

selectionVars == <<status, content, used, agent, call, starts, faults>>

Selection == INSTANCE RuntimeSelection
    WITH service <- content, node <- agent, Deployments <- Services,
         Keys <- {"k1"}, Calls <- Workers,
         Operations <- {"apply", "advance", "rollback"}, Reselects <- Faults,
         MaxStarts <- 2, MaxFaults <- IF Faults THEN 1 ELSE 0

ASSUME Selection!SelectionAssumption
-----------------------------------------------------------------------------
VARIABLES workspace, port, dispatching, commands, running, snapshot,
          manifest, putGrants, object, reports

syncVars == <<workspace, port, dispatching, commands, running, snapshot,
              manifest, putGrants, object, reports>>

Sync == INSTANCE WorkspaceSync
    WITH service <- workspace, inbox <- commands, container <- running,
         Ports <- Workers, Crashes <- Faults, Rebuilds <- Faults,
         MaxRevision <- 2, MaxReports <- IF Faults THEN 2 ELSE 1

ASSUME Sync!SyncAssumption
-----------------------------------------------------------------------------
(* The agent of the node makes one call at a time, or calls that overlap.  *)
CONSTANTS Commands, Lease, MaxLifetime, MaxLate, MaxGenerations, MaxCalls

VARIABLES stored, created, poll, arriving, held, ackedBy, part

outboxVars == <<stored, created, poll, arriving, held, ackedBy>>

Outbox == INSTANCE NodeCommandOutbox
    WITH calls <- arriving, Pollers <- Workers, sequential <- (part = "queue")

ASSUME QueueAssumption == Outbox!OutboxAssumption
-----------------------------------------------------------------------------
(* Two archives are declared for a service, under two keys.                *)
VARIABLES seeds, seedKeys, archives, seeded, seeding, verified, chosen, overlap,
          begun, hitches

seedVars == <<seeds, seedKeys, archives, seeded, seeding, verified, chosen,
              overlap, begun, hitches>>

Seeding == INSTANCE WorldSeeds
    WITH claims <- seedKeys, service <- seeded, calls <- seeding,
         faults <- hitches, Calls <- Workers, Seeds <- Services,
         Keys <- {"k1", "k2"}, MaxCalls <- 5, MaxFaults <- 1

ASSUME Seeding!SeedsAssumption
-----------------------------------------------------------------------------
(* Two imports of four archives, each declared under one of two keys: a    *)
(* pack, one without a loader, a bundle, and one that misses a file.       *)
VARIABLES imports, frozen, packKeys, frozenKeys, addressed, packs, importing,
          overlapped, entered, mishaps

packVars ==
    <<imports, frozen, packKeys, frozenKeys, addressed, packs, importing,
              overlapped, entered, mishaps>>

Pack == [form |-> "pack", manifests |-> 1, files |-> {"config"}, listed |-> {},
         altered |-> {}, mods |-> {"known"}, parses |-> TRUE,
         loader |-> "fabric", minecraft |-> <<21, 1>>,
         reviewed |-> TRUE, agrees |-> TRUE]

Bundle == [Pack EXCEPT !.form = "bundle", !.files = {"mod", "metadata"},
                       !.listed = {"mod", "metadata"}, !.mods = {}]

Archives == {Pack, [Pack EXCEPT !.loader = "vanilla"],
             Bundle, [Bundle EXCEPT !.files = {"metadata"}]}

Packing == INSTANCE ModpackUploads
    WITH deployments <- frozen, claims <- packKeys, taken <- frozenKeys,
         issued <- addressed, archives <- packs, calls <- importing, overlap <- overlapped,
         begun <- entered, faults <- mishaps, Calls <- Workers,
         Ids <- Services, Keys <- {"k1", "k2"},
         Declarable <- {[format |-> a.form, archive |-> a] : a \in Archives},
         Uploadable <- Archives, MaxCalls <- 4, MaxFaults <- 1

ASSUME Packing!UploadsAssumption
-----------------------------------------------------------------------------
MCInit ==
    /\ part \in Parts
    /\ Init /\ Runtime!Init /\ Selection!Init /\ Sync!Init /\ Outbox!Init
    /\ Seeding!Init /\ Packing!Init
    /\ part # "hours" => \A d \in Deposits : balance <= d

MCNext ==
    /\ UNCHANGED part
    /\ \/ part = "scheduler" /\ Next /\ (~Faults => UNCHANGED paid)
          /\ UNCHANGED <<runtimeVars, selectionVars, syncVars, outboxVars,
                         seedVars, packVars>>
       \/ part = "hours" /\ Runtime!Next
          /\ UNCHANGED <<vars, selectionVars, syncVars, outboxVars, seedVars,
                         packVars>>
       \/ part = "content" /\ Selection!Next
          /\ UNCHANGED <<vars, runtimeVars, syncVars, outboxVars, seedVars,
                         packVars>>
       \/ part = "gateway" /\ Sync!Next
          /\ UNCHANGED <<vars, runtimeVars, selectionVars, outboxVars,
                         seedVars, packVars>>
       \/ part \in {"queue", "polls"} /\ Outbox!Next
          /\ (part = "polls" => Len(created') <= 1)
          /\ UNCHANGED <<vars, runtimeVars, selectionVars, syncVars,
                         seedVars, packVars>>
       \/ part = "seeds" /\ Seeding!Next
          /\ UNCHANGED <<vars, runtimeVars, selectionVars, syncVars, outboxVars,
                         packVars>>
       \/ part = "packs" /\ Packing!Next
          /\ UNCHANGED <<vars, runtimeVars, selectionVars, syncVars, outboxVars,
                         seedVars>>

MCSpec ==
    MCInit /\ [][MCNext]_<<part, vars, runtimeVars, selectionVars, syncVars,
                           outboxVars, seedVars, packVars>>

Symmetry == Permutations(Services) \cup Permutations(Workers)

(* Without faults the subscriptions stay paid.  The fairness of each       *)
(* component; where a behaviour does not exercise it, only the agent's     *)
(* polls would be enabled.                                                 *)
MCFairSpec ==
    /\ MCSpec
    /\ Fairness
    /\ Runtime!Fairness
    /\ Selection!Fairness
    /\ Sync!Fairness
    /\ WF_outboxVars(Outbox!Tick) /\ WF_outboxVars(Outbox!RequeueExpired)
    /\ \A p \in Workers :
        /\ SF_outboxVars(part = "queue" /\ Outbox!PollCheck(p))
        /\ SF_outboxVars(Outbox!PollRequeue(p))
        /\ SF_outboxVars(Outbox!PollLease(p))
    /\ WF_outboxVars(\E c \in arriving : Outbox!Acknowledge(c)
           \/ Outbox!Renew(c))
-----------------------------------------------------------------------------
(* No hour of an assignment is charged twice.                              *)
HoursChargedOnce == Runtime!HoursChargedOnce

(* Hours: one of an assignment is charged again only by a settlement that  *)
(* a later one overtook, none is left out or charged early; a service that *)
(* runs has paid for its first hour, and the scheduler does not run ahead  *)
(* of the ledger.                                                          *)
HoursInv ==
    part = "hours" => /\ Runtime!TypeOK
                      /\ Runtime!ChargedOncePerTurn
                      /\ Runtime!HoursContiguous
                      /\ Runtime!RunningIsPaid

(* What runs is the content that is selected for the service, and what it  *)
(* is made of was uploaded as declared, once for each key, and found valid.*)
ContentInv ==
    /\ part = "packs" => Packing!Inv
    /\ part = "content" => Selection!TypeOK /\ Selection!RunsSelected

(* Worlds: the revision the scheduler has is published and is what is      *)
(* stored, each restore starts from what the stop before it synced, and    *)
(* what runs holds the port it listens on; the world a service starts with *)
(* was found good, and its seed says that it is selected.                  *)
WorldInv ==
    /\ part = "seeds" => Seeding!Inv
    /\ part = "gateway" => /\ Sync!TypeOK
                           /\ Sync!CanonicalRevision
                           /\ Sync!RestoredIsSynced
                           /\ Sync!ContainerHoldsPort

(* Commands of a node: while the agent makes one call at a time it has one *)
(* lease; only the last lease of a command acknowledges it; none is        *)
(* renewed past its maximum.                                               *)
OutboxInv ==
    part \in {"queue", "polls"} => Outbox!OutboxInv

(* A world that was published stays as it is, one that the service started *)
(* with too, and no command is handed out before those made before it are  *)
(* acknowledged.                                                           *)
HostingSteps ==
    [][/\ part = "gateway" => Sync!KeepsPublished
       /\ part \in {"queue", "polls"} => Outbox!HandsOutInOrder
       /\ part = "seeds"
              => Seeding!StartedWorldStays]_<<syncVars, outboxVars, seedVars>>

(* Services: a queued one gets the room another gives up; a stop ends, and *)
(* ends around deployments with the world synced; a service whose hour the *)
(* ledger refused is stopped.                                              *)
ServicesProgress ==
    /\ QueuedServed
    /\ StopEnds
    /\ Selection!StopEnds
    /\ Runtime!RefusedServiceStops

(* Between the scheduler and the agents: a command is handed out again     *)
(* until it is acknowledged; when nothing dies a stop ends with the world  *)
(* synced and the port of its assignment given back.                       *)
AgentsProgress ==
    /\ Outbox!HandedOutAgain
    /\ Sync!PortGivenBack
    /\ Sync!SyncEnds
=============================================================================
