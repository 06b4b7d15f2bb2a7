----------------------------- MODULE ServersProofs -----------------------------
(***************************************************************************)
(* What MCServers checks of hosted servers, for any names of tasks, calls  *)
(* and machines that its configurations give them.                         *)
(***************************************************************************)
EXTENDS MCServers

(* Hosted servers, as MCServers has them: what ServerControlProofs says of *)
(* any instance, of the part that a behaviour exercises.                   *)
MCVars == <<part, vars, serverVars, backupVars, compilationVars, modpackVars,
            wantedVars>>

ServersKept ==
    /\ part = "leases" => Leases!LeasesKept
    /\ part = "events" => Events!LeasesKept
    /\ part = "late" => Late!LeasesKept
    /\ part = "archives" => Archives!LeasesKept
    /\ part = "creates" => Creates!Served
    /\ part = "admins" => Admins!Served
    /\ part \notin {"leases", "events", "late", "archives", "creates",
           "admins"} =>
          Stops!Served

LEMMA ServersInit == MCInit => ServersKept
<1> SUFFICES ASSUME MCInit PROVE ServersKept
  OBVIOUS
<1> USE ServersAssumption DEF MCInit
<1>1. CASE part = "leases"
  BY <1>1, Leases!InitLeasesKept DEF ServersKept
<1>2. CASE part = "events"
  BY <1>2, Events!InitLeasesKept DEF ServersKept
<1>3. CASE part = "late"
  BY <1>3, Late!InitLeasesKept DEF ServersKept
<1>4. CASE part = "archives"
  BY <1>4, Archives!InitLeasesKept DEF ServersKept
<1>5. CASE part = "creates"
  BY <1>5, Creates!InitServed DEF ServersKept
<1>6. CASE part = "admins"
  BY <1>6, Admins!InitServed DEF ServersKept
<1>7. CASE part \notin {"leases", "events", "late", "archives", "creates",
               "admins"}
  BY <1>7, Stops!InitServed DEF ServersKept
<1> QED
  BY <1>1, <1>2, <1>3, <1>4, <1>5, <1>6, <1>7

(* A step of another part leaves the server alone.                         *)
LEMMA ServerSteps ==
    ASSUME [MCNext]_MCVars
    PROVE  /\ UNCHANGED part
           /\ part = "leases" => [Leases!Next]_(Leases!vars)
           /\ part = "events" => [Events!Next]_(Events!vars)
           /\ part = "late" => [Late!Next]_(Late!vars)
           /\ part = "archives" => [Archives!Next]_(Archives!vars)
           /\ part = "creates" => [Creates!Next]_(Creates!vars)
           /\ part = "admins" => [Admins!Next]_(Admins!vars)
           /\ part \notin {"leases", "events", "late", "archives", "creates",
                  "admins"} =>
                 [Stops!Next]_(Stops!vars)
<1>1. UNCHANGED part
  BY DEF MCNext, MCVars
<1>2. UNCHANGED serverVars \/ ~UNCHANGED serverVars
  OBVIOUS
<1>3. CASE UNCHANGED serverVars
  <2>1. UNCHANGED Leases!vars
    BY <1>3 DEF serverVars, Leases!vars, Leases!aggregate, Leases!outside,
       Leases!events, Leases!running
  <2>2. UNCHANGED Events!vars
    BY <1>3 DEF serverVars, Events!vars, Events!aggregate, Events!outside,
       Events!events, Events!running
  <2>3. UNCHANGED Late!vars
    BY <1>3 DEF serverVars, Late!vars, Late!aggregate, Late!outside,
       Late!events, Late!running
  <2>4. UNCHANGED Archives!vars
    BY <1>3 DEF serverVars, Archives!vars, Archives!aggregate, Archives!outside,
       Archives!events, Archives!running
  <2>5. UNCHANGED Creates!vars
    BY <1>3 DEF serverVars, Creates!vars, Creates!aggregate, Creates!outside,
       Creates!events, Creates!running
  <2>6. UNCHANGED Admins!vars
    BY <1>3 DEF serverVars, Admins!vars, Admins!aggregate, Admins!outside,
       Admins!events, Admins!running
  <2>7. UNCHANGED Stops!vars
    BY <1>3 DEF serverVars, Stops!vars, Stops!aggregate, Stops!outside,
       Stops!events, Stops!running
  <2> QED BY <1>1, <2>1, <2>2, <2>3, <2>4, <2>5, <2>6, <2>7
<1>4. CASE ~UNCHANGED serverVars
  <2>1. \/ part = "leases" /\ Leases!Next
        \/ part = "events" /\ Events!Next
        \/ part = "late" /\ Late!Next
        \/ part = "creates" /\ Creates!Next
        \/ part = "archives" /\ Archives!Next
        \/ part = "admins" /\ Admins!Next
        \/ part \in {"stops", "suspends"} /\ Stops!Next
    BY <1>4 DEF MCNext, MCVars, serverVars
  <2> QED BY <1>1, <2>1
<1> QED
  BY <1>3, <1>4

LEMMA ServersNext ==
    ASSUME ServersKept, [MCNext]_MCVars
    PROVE  ServersKept'
<1> USE ServersAssumption
<1>0. UNCHANGED part
  BY ServerSteps
<1>1. ASSUME part = "leases"
      PROVE  Leases!LeasesKept'
  <2>1. Leases!Unshelved
    BY DEF Leases!Unshelved
  <2> QED BY <1>1, <2>1, ServerSteps, Leases!NextLeasesKept DEF ServersKept
<1>2. ASSUME part = "events"
      PROVE  Events!LeasesKept'
  <2>1. Events!Unshelved
    BY DEF Events!Unshelved
  <2> QED BY <1>2, <2>1, ServerSteps, Events!NextLeasesKept DEF ServersKept
<1>3. ASSUME part = "late"
      PROVE  Late!LeasesKept'
  <2>1. Late!Unshelved
    BY DEF Late!Unshelved
  <2> QED BY <1>3, <2>1, ServerSteps, Late!NextLeasesKept DEF ServersKept
<1>4. ASSUME part = "archives"
      PROVE  Archives!LeasesKept'
  <2>1. Archives!ArchivesOnly
    BY DEF Archives!ArchivesOnly, Archives!Admins, NoAdmins
  <2> QED BY <1>4, <2>1, ServerSteps, Archives!NextLeasesKept DEF ServersKept
<1>5. ASSUME part = "creates"
      PROVE  Creates!Served'
  BY <1>5, ServerSteps, Creates!NextServed DEF ServersKept
<1>6. ASSUME part = "admins"
      PROVE  Admins!Served'
  BY <1>6, ServerSteps, Admins!NextServed DEF ServersKept
<1>7. ASSUME part \notin {"leases", "events", "late", "archives", "creates",
                 "admins"}
      PROVE  Stops!Served'
  BY <1>7, ServerSteps, Stops!NextServed DEF ServersKept
<1> QED
  BY <1>0, <1>1, <1>2, <1>3, <1>4, <1>5, <1>6, <1>7 DEF ServersKept

LEMMA ServersShow ==
    ASSUME ServersKept
    PROVE  ServerTypeOK /\ LeaseInv
<1> USE ServersAssumption
<1>1. ASSUME part = "leases"
      PROVE  Leases!TypeOK /\ Leases!LeaseIsKept
  <2>1. Leases!RunsOnly
    BY DEF Leases!RunsOnly
  <2>2. Leases!LeasesKept
    BY <1>1 DEF ServersKept
  <2> QED BY <2>1, <2>2, Leases!LeasesShow DEF Leases!LeaseIsKept
<1>2. ASSUME part = "events"
      PROVE  Events!TypeOK /\ Events!LeaseIsKept
  <2>1. Events!RunsOnly
    BY DEF Events!RunsOnly
  <2>2. Events!LeasesKept
    BY <1>2 DEF ServersKept
  <2> QED BY <2>1, <2>2, Events!LeasesShow DEF Events!LeaseIsKept
<1>3. ASSUME part = "late"
      PROVE  Late!TypeOK /\ Late!LeaseIsKept
  <2>1. Late!RunsOnly
    BY DEF Late!RunsOnly
  <2>2. Late!LeasesKept
    BY <1>3 DEF ServersKept
  <2> QED BY <2>1, <2>2, Late!LeasesShow DEF Late!LeaseIsKept
<1>4. ASSUME part = "archives"
      PROVE  Archives!TypeOK /\ Archives!LeaseIsKept
  <2>1. Archives!ArchivesOnly
    BY DEF Archives!ArchivesOnly, Archives!Admins, NoAdmins
  <2>2. Archives!LeasesKept
    BY <1>4 DEF ServersKept
  <2> QED BY <2>1, <2>2, Archives!LeasesShow DEF Archives!LeaseIsKept
<1>5. ASSUME part = "creates"
      PROVE  Creates!TypeOK
  BY <1>5 DEF ServersKept, Creates!Served, Creates!Typed
<1>6. ASSUME part = "admins"
      PROVE  Admins!TypeOK
  BY <1>6 DEF ServersKept, Admins!Served, Admins!Typed
<1>7. ServerTypeOK
  BY <1>1, <1>2, <1>3, <1>4, <1>5, <1>6 DEF ServerTypeOK
<1> QED
  BY <1>1, <1>2, <1>3, <1>4, <1>7 DEF LeaseInv

(* A hosted server has at most one open lease, the one it names, which is  *)
(* paid for, and none while it is down; and its world is on a machine or   *)
(* in a snapshot: whatever the order of requests, tasks, events of the     *)
(* worker and stops (ServerControlService), for any number of requests.    *)
THEOREM LeasesHold == MCSpec => []LeaseInv
<1>1. ServersKept => LeaseInv
  BY ServersShow
<1>2. ServersKept /\ [MCNext]_MCVars => ServersKept'
  BY ServersNext
<1> QED
  BY ServersInit, <1>1, <1>2, PTL DEF MCSpec, MCVars
-----------------------------------------------------------------------------
(* What is bought, as MCServers has it.                                    *)
WantedKept == part = "capacity" => CapacityInv

LEMMA WantedInit == MCInit => WantedKept
  BY WantedAssumption, CapacityInit DEF MCInit, WantedKept

LEMMA WantedNext == WantedKept /\ [MCNext]_MCVars => WantedKept'
<1> SUFFICES ASSUME WantedKept, [MCNext]_MCVars, part' = "capacity"
             PROVE  CapacityInv'
  BY DEF WantedKept
<1>1. part = "capacity" /\ CapacityInv
          /\ (Capacities!Next \/ UNCHANGED wantedVars)
  BY DEF WantedKept, MCNext, MCVars
<1>2. [Capacities!Next]_(Capacities!vars)
  BY <1>1 DEF wantedVars, Capacities!vars
<1> QED
  BY <1>1, <1>2, WantedAssumption, CapacityNext

LEMMA MachinesShow == ServersKept => (part = "creates" => Creates!CreatedOnce)
                                     /\ (part = "admins" => Admins!CreatedOnce)
  BY DEF ServersKept, Creates!Served, Admins!Served, Creates!Once, Admins!Once

(* What is bought from the provider, for any number of requests, services  *)
(* and sweeps: one task asks for one machine, whatever fails and however   *)
(* often it is executed; and a request for a node that is called completed *)
(* has one, although sweeps overlap and requests share an id               *)
(* (sharedHostingScheduler.ts, processCapacityRequests).                   *)
THEOREM BoughtAsAsked == MCSpec => []CloudInv
<1>1. ServersKept /\ WantedKept => CloudInv
  BY ServersShow, MachinesShow DEF CloudInv, WantedKept, CapacityInv
<1>2. ServersKept /\ [MCNext]_MCVars => ServersKept'
  BY ServersNext
<1> QED
  BY ServersInit, WantedInit, WantedNext, <1>1, <1>2, PTL DEF MCSpec, MCVars
-----------------------------------------------------------------------------
(* Modpacks, as MCServers has them.                                        *)
PacksKept == part = "modpacks" => PackKept

LEMMA PacksOwners == OwnersTasks
BY OnePreview DEF OwnersTasks, DraftJobs, Owned, Job

LEMMA PacksInit == MCInit => PacksKept
BY PacksAssumption, PacksOwners, PackInit DEF MCInit, PacksKept

LEMMA PacksSteps ==
    ASSUME part = "modpacks", [MCNext]_MCVars
    PROVE  part' = part /\ (Modpacks!Next \/ UNCHANGED modpackVars)
<1>1. UNCHANGED modpackVars \/ ~UNCHANGED modpackVars
  OBVIOUS
<1>2. CASE ~UNCHANGED modpackVars
  <2>1. MCNext /\ part' = part
    BY <1>2 DEF MCNext, MCVars
  <2> QED BY <1>2, <2>1 DEF MCNext
<1>3. part' = part
  BY DEF MCNext, MCVars
<1> QED
  BY <1>1, <1>2, <1>3

LEMMA PacksNext == PacksKept /\ [MCNext]_MCVars => PacksKept'
<1> SUFFICES ASSUME PacksKept, [MCNext]_MCVars, part' = "modpacks"
             PROVE  PackKept'
  BY DEF PacksKept
<1>1. part = "modpacks" /\ PackKept
  BY DEF PacksKept, MCNext, MCVars
<1>2. Modpacks!Next \/ UNCHANGED Modpacks!vars
  BY <1>1, PacksSteps DEF modpackVars, Modpacks!vars, Modpacks!repository
<1> QED
  BY <1>1, <1>2, PacksAssumption, PacksOwners, PackStep,
     PackSame

(* A deployment that is called applied, or rolled back, is what the        *)
(* machine last did with it, and one task of a deployment at a time works  *)
(* on the machine, for any deployments and any keys of applies and         *)
(* rollbacks, whatever fails (deploymentTasks.ts, execute), if a           *)
(* deployment has one preview (OnePreview).                                *)
THEOREM PacksHold == MCSpec => []ModpackInv
<1>1. PacksKept => ModpackInv
  BY PackTypes, PackOne DEF PacksKept, ModpackInv
<1> QED
  BY PacksInit, PacksNext, <1>1, PTL DEF MCSpec, MCVars

(* What the owner of a modpack previewed is never replaced, though the     *)
(* preview dies and is run again, and the machine switches to the manifest *)
(* that the request named (deploymentTasks.ts, execute), if a deployment   *)
(* has one preview (OnePreview).                                           *)
THEOREM PacksAsAsked == MCSpec => ModpackSteps
<1>1. PacksKept /\ [MCNext]_MCVars =>
         [part = "modpacks"
             => Modpacks!FreezesManifest
                 /\ Modpacks!SwitchesAsAsked]_modpackVars
  <2> SUFFICES ASSUME PacksKept, [MCNext]_MCVars, part = "modpacks",
                      ~UNCHANGED modpackVars
               PROVE  Modpacks!FreezesManifest /\ Modpacks!SwitchesAsAsked
    OBVIOUS
  <2>1. PackKept /\ Modpacks!Next
    BY PacksSteps DEF PacksKept
  <2> QED
    BY <2>1, PacksAssumption, PacksOwners, PackFreezes,
       PackSwitches
<1> QED
  BY PacksInit, PacksNext, <1>1, PTL DEF MCSpec, MCVars, ModpackSteps
-----------------------------------------------------------------------------
(* Backups, as MCServers has them.                                         *)
Backed ==
    /\ part = "backups" => BackupsKept(AnyCall)
    /\ part = "bills" => BackupsKept(Billed)

LEMMA BackedOffers ==
    /\ Sound(AnyCall) /\ Sound(Billed)
    /\ None \notin Things
<1>1. AnyCall \in Offer /\ AnyCall.time = 1
  BY DEF AnyCall, Offer
<1>2. Billed \in Offer /\ Billed.deaths = 0
  BY DEF Billed, Offer
<1>3. None \notin Things
  BY WorldsAssumption DEF Worlds!BackupsAssumption
<1> QED BY <1>1, <1>2, <1>3 DEF Sound

LEMMA BackedInit == MCInit => Backed
<1>1. Worlds(AnyCall)!Init => Worlds(Billed)!Init
  BY DEF Worlds!Init, Worlds!NoBackup, Worlds!NoCursor, Worlds!Idle
<1> QED
  BY <1>1, BackedOffers, WorldsInit DEF MCInit, Backed

LEMMA BackupSteps ==
    ASSUME [MCNext]_MCVars
    PROVE  /\ part' = part
           /\ part = "backups" =>
                 Worlds(AnyCall)!Next \/ UNCHANGED backupVars
           /\ part = "bills" => Worlds(Billed)!Next \/ UNCHANGED backupVars
<1>1. part' = part
  BY DEF MCNext, MCVars
<1>2. CASE UNCHANGED backupVars
  BY <1>1, <1>2
<1>3. CASE ~UNCHANGED backupVars
  <2>1. MCNext
    BY <1>3 DEF MCVars
  <2>2. \/ part = "backups" /\ Worlds(AnyCall)!Next
        \/ part = "bills" /\ Worlds(Billed)!Next
        \/ part = "deletes"
    BY <1>3, <2>1 DEF MCNext
  <2> QED BY <1>1, <2>2
<1> QED BY <1>2, <1>3

LEMMA BackedNext == Backed /\ [MCNext]_MCVars => Backed'
<1> SUFFICES ASSUME Backed, [MCNext]_MCVars
             PROVE  Backed'
  OBVIOUS
<1>1. part = "backups" => BackupsKept(AnyCall)'
  BY BackupSteps, BackedOffers, WorldsNext, BackupsSame DEF Backed
<1>2. part = "bills" => BackupsKept(Billed)'
  BY BackupSteps, BackedOffers, WorldsNext, BackupsSame DEF Backed
<1>3. part' = part
  BY BackupSteps
<1> QED BY <1>1, <1>2, <1>3 DEF Backed

(* What the parts say does not depend on what is asked.                    *)
LEMMA BackedShow == Backed => BackupsInv
<1>1. \A p : /\ Worlds(p)!LayersKept = Worlds(AnyCall)!LayersKept
            /\ Worlds(p)!CountCovers = Worlds(AnyCall)!CountCovers
            /\ Worlds(p)!OnePerKey = Worlds(AnyCall)!OnePerKey
            /\ Worlds(p)!BilledOnce = Worlds(AnyCall)!BilledOnce
  BY CountIs DEF Worlds!LayersKept, Worlds!CountCovers, Worlds!OnePerKey,
                 Worlds!BilledOnce, Worlds!Live
<1> QED
  BY <1>1, BackedOffers, WorldsShow DEF Backed, BackupsInv

(* With one call at a time, whatever dies: a layer has its parent as long  *)
(* as it lives, the count of a parent covers its layers, a key names one   *)
(* backup, and no time is billed by two events, if nobody dies or there is *)
(* one interval to bill (worldBackupService.ts; Sound).                    *)
THEOREM BackupsHold == MCSpec => []BackupsInv
<1> QED
  BY BackedInit, BackedNext, BackedShow, PTL DEF MCSpec, MCVars
=============================================================================
