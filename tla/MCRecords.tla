------------------------------- MODULE MCRecords -------------------------------
(* Model-checking instances of what calls and their repetitions do to      *)
(* documents: a revision-checked aggregate (RevisionedRepository), the     *)
(* reports of a worker (WorkerSessions), operations of administrators      *)
(* (AdminOperations), sessions (Sessions) and their access tokens          *)
(* (AccessTokens), accounts (Accounts) and node agents (NodeCredentials).  *)
(* A behaviour exercises one of them.                                      *)
EXTENDS RevisionedRepository, TLC

CONSTANTS Parts,     \* those that a run looks at
          Handlers,  \* calls of the API
          None
-----------------------------------------------------------------------------
(* The worker on a hosted server: one that is told to stop, and stops; one *)
(* that goes on when it is; and one that registers, twice.                 *)
VARIABLES held, live, issued, known, sent, nonces, audit, latest, halted,
          decided, published, announced, told, handlers, troubles

workerVars == <<held, live, issued, known, sent, nonces, audit, latest, halted,
                decided, published, announced, told, handlers, troubles>>

Says(scope, n, status) == [scope |-> scope, n |-> n, status |-> status]

Stopping == INSTANCE WorkerSessions
    WITH lease <- held, cursor <- latest, stop <- halted, billing <- decided,
         calls <- handlers, faults <- troubles, Calls <- Handlers,
         Events <- {Says("usage", 1, None), Says("runtime", 1, "running"),
                    Says("runtime", 2, "stopped")},
         Registered <- TRUE, MaxSessions <- 0, MaxSends <- 3, MaxFaults <- 1

Refused == INSTANCE WorkerSessions
    WITH lease <- held, cursor <- latest, stop <- halted, billing <- decided,
         calls <- handlers, faults <- troubles, Calls <- Handlers,
         Events <- {Says("usage", 1, None), Says("usage", 2, None),
                    Says("heartbeat", 1, "running")},
         Registered <- TRUE, MaxSessions <- 0, MaxSends <- 3, MaxFaults <- 2

Registering == INSTANCE WorkerSessions
    WITH lease <- held, cursor <- latest, stop <- halted, billing <- decided,
         calls <- handlers, faults <- troubles, Calls <- Handlers,
         Events <- {Says("runtime", 1, "running"), Says("operation", 1, None)},
         Registered <- FALSE, MaxSessions <- 2, MaxSends <- 4, MaxFaults <- 1

(* An operation of administrators, of which anyone may claim that it was   *)
(* done.                                                                   *)
VARIABLES operation, manual, log, owner, claimsOf, desks, hitches

adminVars == <<operation, manual, log, owner, claimsOf, desks, hitches>>

Desk == INSTANCE AdminOperations
    WITH record <- operation, mail <- claimsOf, calls <- desks, faults <- hitches,
         Operations <- {"o1"},
         Contents <- {"n1", "n2"}, Resolutions <- {"v1", "v2"},
         Calls <- Handlers, MaxFaults <- 2,
         Strays <- {[op |-> "o1", outcome |-> "succeeded", owned |-> FALSE]}

(* The sessions of an account; accounts with their identities; and three   *)
(* accounts of which some are merged.                                               *)
VARIABLES sessions, listed, tokens, exchanged, replayed, dismissed, signings, mishaps

sessionVars == <<sessions, listed, tokens, exchanged, replayed, dismissed,
                 signings, mishaps>>

Signed == INSTANCE Sessions
    WITH calls <- signings, faults <- mishaps, Calls <- Handlers,
         MaxSessions <- 2, MaxTokens <- 3, MaxFaults <- 1

(* A session in a time in which the secrets and the life of tokens change. *)
VARIABLES now, config, shortened, standing, refreshes, given

tokenVars == <<now, config, shortened, standing, refreshes, given>>

Bearing == INSTANCE AccessTokens
    WITH sessions <- standing, tokens <- given, Ids <- {"s1"}, Calls <- Handlers,
         Secrets <- {"k1", "k2"}, TtlNow <- 2, TtlBefore <- 4,
         MaxTime <- 4, MaxTokens <- 3

VARIABLES accounts, index, merges, met, started, bindings, failings

accountVars == <<accounts, index, merges, met, started, bindings, failings>>

Binding == INSTANCE Accounts
    WITH calls <- bindings, faults <- failings, Calls <- Handlers,
         Owned <- "a1" :> "i1", Free <- {"i2"}, New <- {"a3"},
         Operations <- {"bind", "unlink", "delete", "cancel"},
         MaxCalls <- 3, MaxFaults <- 1

Merging == INSTANCE Accounts
    WITH calls <- bindings, faults <- failings, Calls <- Handlers,
         Owned <- ("a1" :> "i1") @@ ("a2" :> "i2") @@ ("a3" :> "i3"),
         Free <- {}, New <- {}, Operations <- {"merge"},
         MaxCalls <- 2, MaxFaults <- 1

(* The agent of a node: its requests arrive twice, where nonces are kept   *)
(* and where they are not; and it comes back after it drained.             *)
VARIABLES enrollment, credential, node, asked, agent, requests, arriving, secrets,
          arrivals, obeyed, enrolled, cut

nodeVars == <<enrollment, credential, node, asked, agent, requests, arriving,
              secrets, arrivals, obeyed, enrolled, cut>>

Agent == INSTANCE NodeCredentials
    WITH nonces <- asked, calls <- arriving, Calls <- Handlers, Remembers <- TRUE,
         MaxSecrets <- 4, MaxRequests <- 2, MaxArrivals <- 2

Forgetful == INSTANCE NodeCredentials
    WITH nonces <- asked, calls <- arriving, Calls <- Handlers, Remembers <- FALSE,
         MaxSecrets <- 3, MaxRequests <- 2, MaxArrivals <- 2

Returning == INSTANCE NodeCredentials
    WITH nonces <- asked, calls <- arriving, Calls <- Handlers, Remembers <- FALSE,
         MaxSecrets <- 4, MaxRequests <- 3, MaxArrivals <- 1

ASSUME /\ Agent!CredentialsAssumption /\ Forgetful!CredentialsAssumption
       /\ Returning!CredentialsAssumption

ASSUME /\ Signed!SessionsAssumption /\ Bearing!TokensAssumption
       /\ Binding!AccountsAssumption /\ Merging!AccountsAssumption

ASSUME /\ Stopping!WorkerAssumption /\ Refused!WorkerAssumption
       /\ Registering!WorkerAssumption /\ Desk!OperationsAssumption
-----------------------------------------------------------------------------
VARIABLE part

MCInit ==
    /\ part \in Parts
    /\ Init
    /\ CASE part = "stopping" -> Stopping!Init
         [] part = "refused" -> Refused!Init
         [] OTHER -> Registering!Init
    /\ Desk!Init
    /\ Signed!Init /\ Bearing!Init
    /\ IF part = "merging" THEN Merging!Init ELSE Binding!Init
    /\ CASE part = "forgetful" -> Forgetful!Init
         [] part = "returning" -> Returning!Init
         [] OTHER -> Agent!Init

MCNext ==
    /\ UNCHANGED part
    /\ \/ part = "repository" /\ Next
          /\ UNCHANGED <<workerVars, adminVars, sessionVars, accountVars, nodeVars,
                         tokenVars>>
       \/ /\ \/ part = "stopping" /\ Stopping!Next
             \/ part = "refused" /\ Refused!Next
             \/ part = "registering" /\ Registering!Next
          /\ UNCHANGED <<vars, adminVars, sessionVars, accountVars, nodeVars,
                         tokenVars>>
       \/ part = "desk" /\ Desk!Next
          /\ UNCHANGED <<vars, workerVars, sessionVars, accountVars, nodeVars,
                         tokenVars>>
       \/ part = "signed" /\ Signed!Next
          /\ UNCHANGED <<vars, workerVars, adminVars, accountVars, nodeVars,
                         tokenVars>>
       \/ part = "tokens" /\ Bearing!Next
          /\ UNCHANGED <<vars, workerVars, adminVars, sessionVars, accountVars,
                         nodeVars>>
       \/ /\ \/ part = "binding" /\ Binding!Next
             \/ part = "merging" /\ Merging!Next
          /\ UNCHANGED <<vars, workerVars, adminVars, sessionVars, nodeVars,
                         tokenVars>>
       \/ /\ \/ part = "agent" /\ Agent!Next
             \/ part = "forgetful" /\ Forgetful!Next
             \/ part = "returning" /\ Returning!Next
          /\ UNCHANGED <<vars, workerVars, adminVars, sessionVars, accountVars,
                         tokenVars>>

allVars == <<part, vars, workerVars, adminVars, sessionVars, accountVars, nodeVars,
             tokenVars>>

MCSpec == MCInit /\ [][MCNext]_allVars

Symmetry == Permutations(Callers) \cup Permutations(Handlers)
-----------------------------------------------------------------------------
(* What machines say.  Of one event of a worker one call at a time is at   *)
(* work, what the worker hears accepted was settled or published, a        *)
(* refused worker settles nothing more, and its stop is published before   *)
(* it hears so.  A node enrols once with a token, is not obeyed twice, and *)
(* has the credential of its agent.                                        *)
MachinesInv ==
    CASE part = "stopping" -> Stopping!Inv
      [] part = "refused" -> Refused!Inv
      [] part = "registering" -> Registering!Inv
      [] part = "agent" -> /\ Agent!TypeOK /\ Agent!EnrolledOnce
                           /\ Agent!ObeyedOnce /\ Agent!AgentIsKnown
      [] part = "forgetful" -> Forgetful!TypeOK /\ Forgetful!EnrolledOnce
      [] part = "returning" -> Returning!TypeOK /\ Returning!EnrolledOnce
      [] OTHER -> TRUE

(* What people do.  An owner of an operation works on what was recorded,   *)
(* its outcome was decided by the owner or by hand, and the audit log      *)
(* tells of nothing that is not on record; a refresh token is exchanged    *)
(* once, and what was said to be revoked is, to tokens within their short  *)
(* life; an identity is its account's in both records, and a completed     *)
(* merge has ended its source.                                             *)
PeopleInv ==
    CASE part = "desk" -> /\ Desk!TypeOK /\ Desk!OwnerHasRecorded
                          /\ Desk!StatusIsEarned /\ Desk!LogIsOnRecord
      [] part = "signed" -> Signed!TypeOK /\ Signed!ExchangedOnce /\ Signed!SaidIsRevoked
      [] part = "tokens" -> Bearing!Inv
      [] part = "binding" -> Binding!TypeOK /\ Binding!IndexAgrees
      [] part = "merging" -> Merging!TypeOK /\ Merging!IndexAgrees
                             /\ Merging!CompletedIsMerged
      [] OTHER -> TRUE

(* The first completion of an operation, and its resolution, are kept; a   *)
(* revoked session stays revoked; identities change accounts by merges; a  *)
(* node that drains does so until it registers again.                      *)
RecordSteps ==
    [][/\ part = "desk" => Desk!KeepsDecision
       /\ part = "signed" => Signed!RevokedStays
       /\ part = "binding" => Binding!MovedByMerge
       /\ part = "merging" => Merging!MovedByMerge
       /\ part = "agent" => Agent!ReadyAgain
       /\ part = "returning" => Returning!ReadyAgain]_allVars
=============================================================================
