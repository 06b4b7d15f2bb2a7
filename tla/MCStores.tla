-------------------------------- MODULE MCStores --------------------------------
(* Model-checking instance of the two stores whose calls end: the leased   *)
(* document of Billing (MongoBillingStore) and a revision-checked          *)
(* aggregate (RevisionedRepository).  A behaviour exercises one of them.   *)
EXTENDS MongoBillingStore, TLC

VARIABLES aggregate, caller, nextId, returned

repositoryVars == <<aggregate, caller, nextId, returned>>

Repository == INSTANCE RevisionedRepository
    WITH doc <- aggregate, Callers <- {"p1", "p2"}, MaxAttempts <- 3, Window <- 1,
         MaxMutations <- 3

VARIABLE part

storeVars == <<part, vars, repositoryVars>>

MCInit ==
    /\ part \in {"billing", "repository"}
    /\ Init
    /\ Repository!Init

MCNext ==
    /\ UNCHANGED part
    /\ \/ part = "billing" /\ Next /\ UNCHANGED repositoryVars
       \/ part = "repository" /\ Repository!Next /\ UNCHANGED vars

(* Clocks of isolates run in the first part only.                          *)
Ticks(c) == part = "billing" /\ Tick(c)

MCSpec ==
    /\ MCInit /\ [][MCNext]_storeVars
    /\ \A c \in Clients : WF_vars(Step(c)) /\ WF_vars(Ticks(c))
    /\ WF_repositoryVars(Repository!Step("p1"))
    /\ WF_repositoryVars(Repository!Step("p2"))
-----------------------------------------------------------------------------
(* A transaction of Billing ends, although lease holders die; a call of a  *)
(* repository ends, with its result or with a conflict, whatever the       *)
(* others write.                                                           *)
CallsEnd ==
    /\ TransactionsEnd
    /\ \A c \in {"p1", "p2"} :
          caller[c].pc # "idle" ~> caller[c].pc = "idle"
=============================================================================
