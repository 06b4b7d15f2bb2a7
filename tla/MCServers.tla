------------------------------- MODULE MCServers -------------------------------
(* Model-checking instances of what provisions machines and keeps worlds:  *)
(* the nodes of the shared pool (SharedNodeProvisioner) and the requests   *)
(* for them (CapacityRequests), hosted servers                             *)
(* (ServerControl), backups of worlds (WorldBackups) and the compilation   *)
(* of runtimes (RuntimeCompilation) and modpacks (ModpackDeployments).  A  *)
(* behaviour exercises one of them.                                        *)
EXTENDS NodesAndModpacksProofs, TLC

CONSTANTS Parts,    \* those that a run looks at
          Keys,     \* idempotency keys
          First     \* the machine of a server that is there at the start

(* The nodes of the shared pool, while none of them is drained.            *)
Requests == INSTANCE SharedNodeProvisioner WITH Drains <- FALSE

(* Bound: when a drain forgot an attempt, a third create is the last step. *)
Followed == forgotten = {} \/ ids.volume + ids.instance < 3

-----------------------------------------------------------------------------
(* A hosted server: its leases, with one event of the worker and the sweep *)
(* of stops, or with two; a start that fails late; how it is created       *)
(* and deleted; how it is archived and restored, which takes a fourth      *)
(* request; and what administrators do to it.                              *)
VARIABLES server, tasks, leases, auths, vultr, creates, worker, mail,
          consumed, settlements, admin, calls, execs, reports, sweeps, halts

serverVars == <<server, tasks, leases, auths, vultr, creates, worker, mail,
                consumed, settlements, admin, calls, execs, reports, sweeps,
                halts>>

NoAdmins == <<>>
Suspension == <<"suspend">>
SuspendAndRestore == <<"suspend", "restore">>

Leases == INSTANCE ServerControlProofs
    WITH Calls <- {"c1"}, Executors <- {"e1"}, Reports <- {"r1"},
         Sweeps <- {"s1"}, Settlements <- {"b1"}, AdminAction <- NoAdmins,
         Ops <- {"start", "restart", "stop"}, Created <- TRUE,
         Faults <- FALSE, MaxSeq <- 1

Events == INSTANCE ServerControlProofs
    WITH Calls <- {"c1"}, Executors <- {"e1"}, Reports <- {"r1"},
         Sweeps <- {}, Settlements <- {"b1"}, AdminAction <- NoAdmins,
         Ops <- {"start", "restart", "stop"}, Created <- TRUE,
         Faults <- FALSE, MaxSeq <- 2

Late == INSTANCE ServerControlProofs
    WITH Calls <- {"c1"}, Executors <- {"e1", "e2"}, Reports <- {},
         Sweeps <- {"s1"}, Settlements <- {}, AdminAction <- NoAdmins,
         Ops <- {"start", "stop"}, Created <- TRUE,
         Faults <- TRUE, MaxSeq <- 0

Creates == INSTANCE ServerControlProofs
    WITH Keys <- Things, Calls <- Isolates, Executors <- {"e1", "e2"},
         Reports <- {"r1"}, Sweeps <- {}, Settlements <- {},
         AdminAction <- NoAdmins, Ops <- {"create", "start", "delete"},
         Created <- FALSE, Faults <- TRUE, MaxSeq <- 1

Archives == INSTANCE ServerControlProofs
    WITH Keys <- Keys \cup {"last"}, Calls <- {"c1"}, Executors <- {"e1", "e2"},
         Reports <- {"r1"}, Sweeps <- {"s1"}, Settlements <- {},
         AdminAction <- NoAdmins, Ops <- {"stop", "archive", "restore"},
         Created <- TRUE, Faults <- FALSE, MaxSeq <- 2

Admins == INSTANCE ServerControlProofs
    WITH Keys <- Things, Calls <- {"c1"}, Executors <- {"e1"}, Reports <- {},
         Sweeps <- {"s1"}, Settlements <- {}, AdminAction <- SuspendAndRestore,
         Ops <- {"start"}, Created <- TRUE, Faults <- TRUE, MaxSeq <- 0

Stops == INSTANCE ServerControlProofs
    WITH Keys <- Things, Calls <- {"c1"}, Executors <- {"e1"},
         Reports <- {"r1"}, Sweeps <- {"s1"}, Settlements <- {},
         AdminAction <- Suspension, Ops <- {"start", "stop"}, Created <- TRUE,
         Faults <- FALSE, MaxSeq <- 1

ASSUME ServersAssumption ==
    /\ Leases!ServerControlAssumption /\ Events!ServerControlAssumption
    /\ Late!ServerControlAssumption /\ Creates!ServerControlAssumption
    /\ Archives!ServerControlAssumption /\ Admins!ServerControlAssumption
    /\ Stops!ServerControlAssumption
-----------------------------------------------------------------------------
(* Backups: all operations while their time does not pass, what is billed  *)
(* while it does, and backups whose owner deletes them.                    *)
AnyCall == [operations |-> {"create", "upload", "complete", "restore", "event",
                            "delete"},
            free |-> 1, time |-> 1, deaths |-> 2]
Billed == [operations |-> {"create", "upload", "complete", "delete"},
           free |-> 0, time |-> 3, deaths |-> 0]
Deleted == [Billed EXCEPT !.time = 1]

ASSUME WorldsAssumption ==
    \A p \in {AnyCall, Billed, Deleted} : Worlds(p)!BackupsAssumption
-----------------------------------------------------------------------------
(* Compilation: two calls; a submission that is run again; and a build     *)
(* that is reproducible.                                                   *)
VARIABLES claimed, deployment, compiled, proc, losses

compilationVars == <<claimed, deployment, compiled, proc, losses>>

Compilation == INSTANCE RuntimeCompilation
    WITH object <- compiled, faults <- losses, Keys <- {"k1"},
         Calls <- Isolates, Jobs <- Things, Outputs <- {"o1", "o2"},
         Redelivered <- FALSE, MaxFaults <- 3

Redelivery == INSTANCE RuntimeCompilation
    WITH object <- compiled, faults <- losses, Keys <- {"k1"},
         Calls <- {"c1"}, Jobs <- Things, Outputs <- {"o1", "o2"},
         Redelivered <- TRUE, MaxFaults <- 2

Rebuilds == INSTANCE RuntimeCompilation
    WITH object <- compiled, faults <- losses, Keys <- {"k1"},
         Calls <- Isolates, Jobs <- Things, Outputs <- {"o1"},
         Redelivered <- FALSE, MaxFaults <- 1

ASSUME Compilation!CompilationAssumption /\ Redelivery!CompilationAssumption
       /\ Rebuilds!CompilationAssumption
-----------------------------------------------------------------------------
(* Modpacks: drafts when the isolates live, and two completions of an      *)
(* upload.                                                                 *)
OwnerJobs == Owned({"d1"}, {"k1"}, {"k1"}, {"k1"})
UploadJobs == Job("validate", {"import"}, {"k1", "k2"})
              \cup Job("prepare", {"d1"}, {"k1"})

Applies == INSTANCE ModpackDeployments
    WITH deployment <- modpack, tasks <- jobs, asking <- requesting,
         deaths <- ends, Deployments <- {"d1"}, Tasks <- OwnerJobs,
         Import <- "import", Drafts <- TRUE, Outages <- FALSE, Faults <- TRUE,
         MaxRequests <- 2, MaxSnapshots <- 2, MaxDeaths <- 0

Uploads == INSTANCE ModpackDeployments
    WITH deployment <- modpack, tasks <- jobs, asking <- requesting,
         deaths <- ends, Deployments <- {"d1"}, Tasks <- UploadJobs,
         Import <- "import", Drafts <- FALSE, Outages <- FALSE, Faults <- FALSE,
         MaxRequests <- 2, MaxSnapshots <- 0, MaxDeaths <- 0

ASSUME Applies!DeploymentsAssumption /\ Uploads!DeploymentsAssumption
       /\ OwnerJobs \subseteq DraftJobs
-----------------------------------------------------------------------------
VARIABLE part

MCInit ==
    /\ part \in Parts
    /\ Init
    /\ CASE part = "leases" -> Leases!Init
         [] part = "events" -> Events!Init
         [] part = "late" -> Late!Init
         [] part = "creates" -> Creates!Init
         [] part = "archives" -> Archives!Init
         [] part = "admins" -> Admins!Init
         [] OTHER -> Stops!Init
    /\ Worlds(AnyCall)!Init
    /\ CASE part = "redelivery" -> Redelivery!Init
         [] OTHER -> Compilation!Init
    /\ CASE part \in {"uploads"} -> Uploads!Init
         [] OTHER -> Modpacks!Init
    /\ Capacities!Init

MCNext ==
    /\ UNCHANGED part
    /\ \/ /\ \/ part = "leases" /\ Leases!Next
             \/ part = "events" /\ Events!Next
             \/ part = "late" /\ Late!Next
             \/ part = "creates" /\ Creates!Next
             \/ part = "archives" /\ Archives!Next
             \/ part = "admins" /\ Admins!Next
             \/ part = "stops" /\ Stops!Next /\ UNCHANGED admin
             \/ part = "suspends" /\ Stops!Next /\ server'.status # "stopping"
          /\ UNCHANGED <<vars, backupVars, compilationVars, modpackVars,
                         wantedVars>>
       \/ /\ \/ part = "nodes" /\ Followed /\ Next
             \/ part = "requests" /\ Requests!Next
          /\ UNCHANGED <<serverVars, backupVars, compilationVars, modpackVars,
                         wantedVars>>
       \/ /\ \/ part = "backups" /\ Worlds(AnyCall)!Next
             \/ part = "bills" /\ Worlds(Billed)!Next
             \/ part = "deletes" /\ Worlds(Deleted)!Next
          /\ UNCHANGED <<vars, serverVars, compilationVars, modpackVars,
                         wantedVars>>
       \/ /\ \/ part = "compilation" /\ Compilation!Next
             \/ part = "redelivery" /\ Redelivery!Next
             \/ part = "rebuilds" /\ Rebuilds!Next
          /\ UNCHANGED <<vars, serverVars, backupVars, modpackVars,
                         wantedVars>>
       \/ /\ \/ part = "modpacks" /\ Modpacks!Next
             \/ part = "applies" /\ Applies!Next
             \/ part = "uploads" /\ Uploads!Next
          /\ UNCHANGED <<vars, serverVars, backupVars, compilationVars,
                         wantedVars>>
       \/ part = "capacity" /\ Capacities!Next
          /\ UNCHANGED <<vars, serverVars, backupVars, compilationVars, modpackVars>>

MCSpec ==
    MCInit /\ [][MCNext]_<<part, vars, serverVars, backupVars, compilationVars,
                           modpackVars, wantedVars>>

Symmetry == Permutations(Keys) \cup Permutations(Things) \cup Permutations(Isolates)

(* The fairness of each component, where a behaviour exercises it.         *)
MCFairSpec ==
    /\ MCSpec
    /\ Stops!Fairness
    /\ WF_vars(part = "requests" /\ \E i \in Isolates : Request(i))
    /\ WF_vars(\E a \in asked : Serve(a)) /\ WF_vars(Register)
    /\ WF_backupVars(Worlds(Deleted)!Step("c1"))
    /\ \A b \in Things : SF_backupVars(part = "deletes" /\ Worlds(Deleted)!Delete("c1", b))
    /\ \A c \in Isolates :
        SF_compilationVars(part = "rebuilds" /\ Rebuilds!Claim(c, "k1"))
    /\ \A c \in Isolates :
        SF_compilationVars(\E j \in Things : Rebuilds!Submit(c, j))
    /\ \A p \in Isolates \cup Things : WF_compilationVars(Rebuilds!Step(p))
    /\ \A j \in OwnerJobs :
        WF_modpackVars(part = "applies" /\ Applies!Due(j))
    /\ \A j \in UploadJobs :
        WF_modpackVars(part = "uploads" /\ Uploads!Due(j))
    /\ WF_wantedVars(\E i \in DOMAIN wanted : Capacities!TimeOut(i))
    /\ WF_wantedVars(Capacities!Rescan)
    /\ \A w \in Sweepers :
        /\ WF_wantedVars(part = "capacity" /\ Capacities!Begin(w))
        /\ WF_wantedVars(Capacities!Step(w))
-----------------------------------------------------------------------------
(* ServerControl keeps the types of its state.                             *)
ServerTypeOK ==
    CASE part = "leases" -> Leases!TypeOK
      [] part = "events" -> Events!TypeOK
      [] part = "late" -> Late!TypeOK
      [] part = "creates" -> Creates!TypeOK
      [] part = "archives" -> Archives!TypeOK
      [] part = "admins" -> Admins!TypeOK
      [] OTHER -> TRUE

(* A hosted server: it has at most one open lease, that is the lease it    *)
(* names and is paid for; a server that is down has none; its world is on  *)
(* a machine or in a snapshot that it knows.                               *)
LeaseInv ==
    /\ ServerTypeOK
    /\ part = "leases" => Leases!LeaseIsKept
    /\ part = "events" => Events!LeaseIsKept
    /\ part = "late" => Late!LeaseIsKept
    /\ part = "archives" => Archives!LeaseIsKept

(* Modpacks: a deployment is applied, or rolled back, when the machine did *)
(* it, and one task of a deployment at a time works on the machine.        *)
ModpackInv ==
    part = "modpacks" => /\ Modpacks!TypeOK
                         /\ Modpacks!RecordFollowsMachine
                         /\ Modpacks!OneAtTheMachine

(* What the owner of a modpack previewed (once: OnePreview) is never       *)
(* replaced, and the machine switches to the manifest that the request     *)
(* named.                                                                  *)
ModpackSteps ==
    [][part = "modpacks" => Modpacks!FreezesManifest /\ Modpacks!SwitchesAsAsked]_modpackVars

(* What is bought from the provider: however often a create is executed,   *)
(* and whatever fails, one machine is asked for; a request for a node that *)
(* is called completed has one.                                            *)
CloudInv ==
    /\ part = "capacity" => Capacities!TypeOK /\ Capacities!CompletedIsBought
    /\ ServerTypeOK
    /\ part = "creates" => Creates!CreatedOnce
    /\ part = "admins" => Admins!CreatedOnce

(* Backups: a layer has its parent as long as it lives, the count of a     *)
(* parent is never less than its layers, a retry returns the same backup,  *)
(* and no time is billed by two events: while one call is at work, in      *)
(* `backups` with deaths and one interval, in `bills` with several         *)
(* intervals and no death.                                                 *)
BackupsInv ==
    part \in {"backups", "bills"} =>
        /\ IF part = "bills" THEN Worlds(Billed)!TypeOK
           ELSE Worlds(AnyCall)!TypeOK
        /\ Worlds(AnyCall)!LayersKept
        /\ Worlds(AnyCall)!CountCovers
        /\ Worlds(AnyCall)!OnePerKey
        /\ Worlds(AnyCall)!BilledOnce

(* The content of a deployment that is published is the stored object.     *)
CompilationInv ==
    CASE part = "redelivery" -> Redelivery!TypeOK
      [] part = "compilation" -> Compilation!TypeOK /\ Compilation!PublishedIsStored
      [] OTHER -> TRUE

(* What is final stays: a lease that ended, a backup that was deleted and  *)
(* content that was published; a delivery of a submission receives the     *)
(* upload binding of the one before it; and a record of a node becomes     *)
(* ready when its VM has its volume and has registered as a node.          *)
FinalSteps ==
    [][/\ \A l \in DOMAIN leases :
             leases[l] = "released" => leases'[l] = "released"
       /\ part \in {"backups", "bills"} => Worlds(AnyCall)!KeepsDeleted
       /\ part \in {"compilation", "redelivery"} => Compilation!KeepsPublished
       /\ part = "compilation" => Compilation!KeepsBinding
       /\ part = "requests" => ReadyWhenReal]_<<leases, backupVars, compilationVars, vars>>

(* A stop of a server ends with the lease closed; a request for a node     *)
(* ends, also when the sweep that took it died; and without faults nodes   *)
(* are provided.                                                           *)
ServersProgress ==
    /\ Capacities!RequestsEnd
    /\ Stops!StopEnds
    /\ part = "requests" => RequestSettles

(* A backup whose owner goes on deleting it is deleted; a deployment with  *)
(* an upload comes to an end; work on a machine that has begun comes to an *)
(* end; an upload is validated and a deployment prepared.                  *)
ContentProgress ==
    /\ Worlds(Deleted)!DeleteEnds
    /\ Rebuilds!UploadSettles
    /\ part = "applies" => Applies!MachineWorkEnds
    /\ part = "uploads" => Uploads!PreparationEnds
=============================================================================
