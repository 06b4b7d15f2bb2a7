------------------------ MODULE NodesAndModpacksProofs ------------------------
(***************************************************************************)
(* Proofs about what MCServers checks besides hosted servers: the nodes of *)
(* the shared pool (SharedNodeProvisioner), the requests for them          *)
(* (CapacityRequests), modpacks (ModpackDeployments) and backups of worlds *)
(* (WorldBackups).  The instances of the last three are declared here and  *)
(* MCServers extends this module: what the provers have to look at is less *)
(* than all that MCServers has.                                            *)
(*                                                                         *)
(* Nodes.  A request for capacity creates one volume and one VM, and a     *)
(* drain gives both back in order, for any number of isolates, with all    *)
(* faults.  Inv says why nothing is created twice: an attempt is written   *)
(* down before it is made, in the record and in every copy that may be     *)
(* saved over it, but for the copy of a drain that declares the record     *)
(* unknown, which may forget the attempt.  LeavesInOrder says what holds   *)
(* of a node that leaves although something was forgotten, and GoneInv     *)
(* why, if nothing was, nothing is deleted too early or comes back: each   *)
(* place of a drain is reached when what it waited for is so for good, and *)
(* what was asked for was asked from such a place.                         *)
(***************************************************************************)
EXTENDS SharedNodeProvisioner, Sequences, FiniteSetTheorems, TLAPS

CONSTANT None

PastVolume == {"ensureInstance", "createInstance", "instanceAnswer",
               "ensureAttachment", "attach"} \cup Draining \cup Waiting
PastInstance == {"ensureAttachment", "attach"} \cup Draining \cup Waiting

(* Only one call may create something: the others poll, or drain.          *)
OneRequesting ==
    \A i, j \in Isolates :
        call[i].pc \in Requesting /\ call[j].pc \in Requesting => i = j

(* A copy that may be saved: unless a drain forgot an attempt, the copy    *)
(* has it.                                                                 *)
Recalls(x) ==
    /\ "volume" \notin forgotten /\ ids.volume # 0 => x.volumeTried
    /\ "instance" \notin forgotten /\ ids.instance # 0 => x.instanceTried

(* An attempt is written down, in the record and in all copies that might  *)
(* be saved over it, before anything is asked for.                         *)
Away == {"idle", "markUnknown"}
USE DEF Away

TriedIsSaved ==
    /\ Recalls(record)
    /\ \A i \in Isolates : call[i].pc \notin Away => Recalls(Rec(i))

(* What is known of a resource comes from a create.                        *)
KnownWasAsked ==
    /\ volumes # {} => ids.volume # 0
    /\ instances # {} => ids.instance # 0
    /\ \A a \in asked : /\ a.op = "createVolume" => ids.volume # 0
                        /\ a.op = "createInstance" => ids.instance # 0
    /\ record.volume # 0 => ids.volume # 0
    /\ record.instance # 0 => ids.instance # 0
    /\ \A i \in Isolates :
        /\ Rec(i).volume # 0 => ids.volume # 0
        /\ Rec(i).instance # 0 => ids.instance # 0
        /\ call[i].pc \in PastVolume => Rec(i).volume # 0
        /\ call[i].pc \in PastInstance => Rec(i).instance # 0

(* Who creates is the first.                                               *)
CreatesFirst ==
    \A i \in Isolates :
        /\ call[i].pc = "createVolume" /\ "volume" \notin forgotten =>
             ids.volume = 0 /\ record.volumeTried /\ Rec(i).volumeTried
        /\ call[i].pc = "createInstance" /\ "instance" \notin forgotten =>
             ids.instance = 0 /\ record.instanceTried /\ Rec(i).instanceTried

Inv == TypeOK /\ OneRequesting /\ TriedIsSaved /\ KnownWasAsked
       /\ CreatesFirst /\ NoDuplicates
-----------------------------------------------------------------------------

Working == [pc : Requesting \cup Draining \cup Waiting \cup {"markUnknown"},
            rec : Record]

(* A copy that may be saved: it forgets no attempt, and invents nothing.   *)
Real(x) ==
    /\ x.volume # 0 => ids.volume # 0
    /\ x.instance # 0 => ids.instance # 0
Faithful(x) == Recalls(x) /\ Real(x)

(* Nobody creates what was not forgotten.                                  *)
CreatesNot(j) ==
    /\ "volume" \notin forgotten => call[j].pc # "createVolume"
    /\ "instance" \notin forgotten => call[j].pc # "createInstance"

(* What a step of isolate i may make of its call, c, and of the record, r, *)
(* while nothing new is asked for.                                         *)
Allowed(i, c, r) ==
    /\ c \in Working \cup {Idle} /\ r \in Record \cup {NoRecord}
    /\ c.pc \in Requesting =>
         \A j \in Isolates \ {i} : call[j].pc \notin Requesting
    /\ r = record \/ \A j \in Isolates \ {i} : CreatesNot(j)
    /\ Faithful(r) /\ Real(c.rec)
    /\ c.pc \notin Away => Faithful(c.rec)
    /\ c.pc \in PastVolume => c.rec.volume # 0
    /\ c.pc \in PastInstance => c.rec.instance # 0
    /\ c.pc = "createVolume" /\ "volume" \notin forgotten =>
         ids.volume = 0 /\ r = c.rec /\ r.volumeTried
    /\ c.pc = "createInstance" /\ "instance" \notin forgotten =>
         ids.instance = 0 /\ r = c.rec /\ r.instanceTried

NoCreate == asked' \subseteq asked \cup
    [op : {"attach", "deleteInstance", "detach", "deleteVolume"},
     id : Ids, to : Ids \cup {0}]

(* Such a step keeps the invariant.                                        *)
LEMMA StepAllowed ==
    ASSUME Inv, NEW i \in Isolates, NEW c,
           call' = [call EXCEPT ![i] = c], Allowed(i, c, record'),
           NoCreate, UNCHANGED <<volumes, instances, at, ids, forgotten>>,
           node' \in {"none", "ready", "draining", "removed"},
           active' \in BOOLEAN
    PROVE  Inv'
<1> USE DEF Inv, Allowed, Faithful, Recalls, Real
<1>0. /\ call \in [Isolates -> Working \cup {Idle}]
      /\ call' \in [Isolates -> Working \cup {Idle}]
      /\ call'[i] = c
      /\ \A j \in Isolates \ {i} : call'[j] = call[j]
  BY DEF TypeOK, Working
<1>1. TypeOK'
  BY <1>0 DEF TypeOK, NoCreate, Working
<1>2. OneRequesting'
  BY <1>0 DEF OneRequesting
<1>3. TriedIsSaved'
  BY <1>0 DEF TriedIsSaved, Rec
<1>4. KnownWasAsked'
  <2>1. Idle.rec.volume = 0 /\ Idle.rec.instance = 0
    BY DEF Idle, NoRecord, Fresh
  <2>2. c.pc = "idle" => c = Idle
    BY <1>0 DEF Working, Requesting, Draining, Waiting
  <2> QED
    BY <1>0, <2>1, <2>2 DEF KnownWasAsked, NoCreate, Rec
<1>5. CreatesFirst'
  BY <1>0 DEF CreatesFirst, CreatesNot, Rec
<1>6. NoDuplicates'
  BY DEF NoDuplicates
<1> QED
  BY <1>1, <1>2, <1>3, <1>4, <1>5, <1>6
-----------------------------------------------------------------------------

Sane(x) == x \in Record /\ Faithful(x)

(* The copy of a call that runs is sane, and nobody else creates.          *)
LEMMA Running ==
    ASSUME Inv, NEW i \in Isolates, call[i].pc \notin Away
    PROVE  /\ Sane(Rec(i))
           /\ \A j \in Isolates \ {i} : CreatesNot(j)
           /\ call[i].pc \in Requesting =>
                \A j \in Isolates \ {i} : call[j].pc \notin Requesting
<1>1. call[i] \in Working
  BY DEF Inv, TypeOK, Working, Idle
<1>2. Sane(Rec(i))
  BY <1>1 DEF Sane, Faithful, Real, Inv, TriedIsSaved, KnownWasAsked, Working, Rec
<1>3. call[i].pc \in Requesting =>
        \A j \in Isolates \ {i} : call[j].pc \notin Requesting
  BY DEF Inv, OneRequesting
<1>4. ASSUME call[i].pc \notin Requesting, NEW j \in Isolates
      PROVE  CreatesNot(j)
  <2>1. call[i].pc \in PastVolume /\ call[i].pc \in PastInstance
    BY <1>1, <1>4 DEF Working, PastVolume, PastInstance
  <2>2. ids.volume # 0 /\ ids.instance # 0
    BY <2>1 DEF Inv, KnownWasAsked
  <2> QED
    BY <2>2 DEF Inv, CreatesFirst, CreatesNot
<1> QED
  BY <1>2, <1>3, <1>4 DEF Requesting, CreatesNot

Quiet == /\ NoCreate /\ UNCHANGED <<volumes, instances, at, ids, forgotten>>
         /\ node' \in {"none", "ready", "draining", "removed"}
         /\ active' \in BOOLEAN

(* A call that runs saves a sane record, or only goes on with it.          *)
LEMMA GoesOn ==
    ASSUME Inv, NEW i \in Isolates, call[i].pc \notin Away,
           NEW pc \in Requesting \cup Draining \cup Waiting, NEW rec,
           Goto(i, pc, rec), Sane(rec), Quiet,
           record' = rec \/ record' = record,
           pc \in Requesting => call[i].pc \in Requesting,
           pc \in PastVolume => rec.volume # 0,
           pc \in PastInstance => rec.instance # 0,
           pc = "createVolume" /\ "volume" \notin forgotten =>
             ids.volume = 0 /\ record' = rec /\ rec.volumeTried,
           pc = "createInstance" /\ "instance" \notin forgotten =>
             ids.instance = 0 /\ record' = rec /\ rec.instanceTried
    PROVE  Inv'
<1> DEFINE c == [pc |-> pc, rec |-> rec]
<1>1. c \in Working /\ c.pc = pc /\ c.rec = rec /\ c.pc \notin Away
  BY DEF Working, Sane, Requesting, Draining, Waiting
<1>2. call' = [call EXCEPT ![i] = c]
  BY DEF Goto
<1>3. record \in Record \cup {NoRecord} /\ Faithful(record)
  BY DEF Inv, TypeOK, TriedIsSaved, KnownWasAsked, Faithful, Real
<1> HIDE DEF c
<1>4. Sane(Rec(i)) /\ \A j \in Isolates \ {i} :
        /\ CreatesNot(j)
        /\ call[i].pc \in Requesting => call[j].pc \notin Requesting
  BY Running
<1>5. Allowed(i, c, record')
  BY <1>1, <1>3, <1>4 DEF Allowed, Sane, Faithful
<1> QED
  BY <1>2, <1>5, StepAllowed DEF Quiet

(* A call that runs ends, with or without a sane record.                   *)
LEMMA Ends ==
    ASSUME Inv, NEW i \in Isolates, call[i].pc \notin Away,
           Return(i), Quiet, record' = record \/ Sane(record')
    PROVE  Inv'
<1>1. /\ Idle.pc = "idle" /\ Real(Idle.rec)
      /\ "idle" \notin Requesting \cup PastVolume \cup PastInstance
  BY DEF Idle, NoRecord, Fresh, Real, Requesting, PastVolume, PastInstance,
         Draining, Waiting
<1>2. record \in Record \cup {NoRecord} /\ Faithful(record)
  BY DEF Inv, TypeOK, TriedIsSaved, KnownWasAsked, Faithful, Real
<1>3. \A j \in Isolates \ {i} : CreatesNot(j)
  BY Running
<1>4. Allowed(i, Idle, record')
  BY <1>1, <1>2, <1>3 DEF Allowed, Sane
<1> QED
  BY <1>4, StepAllowed DEF Quiet, Return

(* Statuses can be changed freely.                                         *)
LEMMA StatusIsFree ==
    ASSUME NEW x, Sane(x),
           NEW s \in {"creating", "ready", "draining", "deleted", "failed",
                      "unknown"}
    PROVE  LET y == [x EXCEPT !.status = s] IN
           Sane(y) /\ y.volume = x.volume /\ y.instance = x.instance
  BY DEF Sane, Faithful, Recalls, Real, Record

LEMMA VolumeStatusIsFree ==
    ASSUME NEW x, Sane(x),
           NEW v \in {"creating", "attaching", "attached", "detaching",
                      "deleted", "unknown"}
    PROVE  /\ Sane(With(x, v)) /\ With(x, v).volume = x.volume
           /\ With(x, v).instance = x.instance
  BY DEF Sane, Faithful, Recalls, Real, Record, With

-----------------------------------------------------------------------------

(* What a call that runs may use.                                          *)
LEMMA Facts ==
    ASSUME Inv, NEW i \in Isolates
    PROVE  /\ node \in {"none", "ready", "draining", "removed"}
           /\ active \in BOOLEAN
           /\ call[i].pc \notin Away => Sane(Rec(i))
           /\ call[i].pc \in PastVolume => Rec(i).volume \in Ids
           /\ call[i].pc \in PastInstance =>
                Rec(i).volume \in Ids /\ Rec(i).instance \in Ids
<1>1. call[i].pc \notin Away => Sane(Rec(i))
  BY Running
<1>2. /\ PastInstance \subseteq PastVolume
      /\ "idle" \notin PastVolume /\ "markUnknown" \notin PastVolume
  BY DEF PastInstance, PastVolume, Draining, Waiting
<1>3. /\ call[i].pc \in PastVolume => Rec(i).volume # 0
      /\ call[i].pc \in PastInstance => Rec(i).instance # 0
  BY DEF Inv, KnownWasAsked
<1>4. /\ node \in {"none", "ready", "draining", "removed"}
      /\ active \in BOOLEAN
  BY DEF Inv, TypeOK
<1> QED
  BY <1>1, <1>2, <1>3, <1>4 DEF Sane, Record

(* A poll of a drain ends, or its deadline passes.                         *)
LEMMA AwaitStep ==
    ASSUME Inv, NEW i \in Isolates, NEW pc \in Waiting, NEW done,
           NEW goto \in Draining, NEW rec, Sane(rec),
           rec.volume = Rec(i).volume, rec.instance = Rec(i).instance,
           Await(i, pc, done, goto, rec)
    PROVE  Inv'
<1>1. call[i].pc \notin Away /\ call[i].pc \in PastVolume /\ call[i].pc \in PastInstance
  BY DEF Await, At, Waiting, PastVolume, PastInstance
<1>2. Rec(i).volume # 0 /\ Rec(i).instance # 0
  BY <1>1 DEF Inv, KnownWasAsked
<1>3. Quiet
  BY Facts DEF Await, Quiet, NoCreate, cloud, pool
<1>4. goto \notin Requesting /\ goto \notin {"createVolume", "createInstance"}
  BY DEF Draining, Requesting
<1>5. CASE done /\ Save(i, goto, rec)
  BY <1>1, <1>2, <1>3, <1>4, <1>5, GoesOn DEF Save
<1>6. CASE Fail(i, Rec(i), "unknown")
  <2>1. Sane([Rec(i) EXCEPT !.status = "unknown"])
    BY <1>1, Facts, StatusIsFree
  <2> QED
    BY <1>1, <1>3, <1>6, <2>1, Ends DEF Fail
<1> QED
  BY <1>5, <1>6 DEF Await

(* A request is taken when the other calls poll.                           *)
LEMMA RequestCapacityStep ==
    ASSUME Inv, NEW i \in Isolates, RequestCapacity(i)
    PROVE  Inv'
<1> DEFINE rec == IF record = NoRecord THEN NewRecord ELSE record
           c == [pc |-> "ensureVolume", rec |-> rec]
<1>1. record \in Record \cup {NoRecord} /\ Faithful(record)
  BY DEF Inv, TypeOK, TriedIsSaved, KnownWasAsked, Faithful, Real
<1>2. Sane(rec)
  BY <1>1 DEF Sane, Faithful, Recalls, Real, NewRecord, NoRecord, Fresh, Record
<1> HIDE DEF rec
<1>3. c \in Working /\ c.pc = "ensureVolume" /\ c.rec = rec
  BY <1>2 DEF Working, Sane, Requesting
<1>4. call' = [call EXCEPT ![i] = c] /\ record' = rec
  BY DEF RequestCapacity, Save, Goto, rec
<1>5. "ensureVolume" \notin PastVolume \cup PastInstance
  BY DEF PastVolume, PastInstance, Draining, Waiting
<1>6. \A j \in Isolates : call[j].pc \notin Requesting
  BY DEF RequestCapacity, MayBegin
<1> HIDE DEF c
<1>7. Allowed(i, c, record')
  BY <1>2, <1>3, <1>4, <1>5, <1>6
  DEF Allowed, Sane, Faithful, CreatesNot, Requesting
<1>8. Quiet
  BY Facts DEF RequestCapacity, Quiet, NoCreate, cloud, pool
<1> QED
  BY <1>4, <1>7, <1>8, StepAllowed DEF Quiet

LEMMA HasIsSane ==
    ASSUME NEW x, Sane(x), NEW v \in Ids, ids.volume # 0
    PROVE  Sane(Has(x, v)) /\ Has(x, v).volume = v /\ Has(x, v).volume # 0
<1>1. v \in Ids \cup {0} /\ v # 0
  BY ProvisionerAssumption DEF Ids
<1>2. Has(x, v) \in Record /\ Has(x, v).volume = v
  BY <1>1 DEF Sane, Has, Record
<1>3. Has(x, v).volumeTried = x.volumeTried
      /\ Has(x, v).instanceTried = x.instanceTried
      /\ Has(x, v).instance = x.instance
  BY DEF Sane, Has, Record
<1> QED
  BY <1>1, <1>2, <1>3 DEF Sane, Faithful, Recalls, Real

LEMMA HasVmIsSane ==
    ASSUME NEW x, Sane(x), NEW v \in Ids, ids.instance # 0
    PROVE  /\ Sane(HasVm(x, v)) /\ HasVm(x, v).volume = x.volume
           /\ HasVm(x, v).instance # 0
<1>1. v \in Ids \cup {0} /\ v # 0
  BY ProvisionerAssumption DEF Ids
<1>2. HasVm(x, v) \in Record /\ HasVm(x, v).instance = v
  BY <1>1 DEF Sane, HasVm, Record
<1>3. HasVm(x, v).volumeTried = x.volumeTried
      /\ HasVm(x, v).instanceTried = x.instanceTried
      /\ HasVm(x, v).volume = x.volume
  BY DEF Sane, HasVm, Record
<1> QED
  BY <1>1, <1>2, <1>3 DEF Sane, Faithful, Recalls, Real

(* The volume is found, or an attempt that is the first is written down.   *)
LEMMA EnsureVolumeStep ==
    ASSUME Inv, NEW i \in Isolates, EnsureVolume(i)
    PROVE  Inv'
<1> DEFINE rec == Rec(i)
           found == Found(rec.volume, volumes)
           tried == rec.volume # 0 \/ rec.volumeTried
<1>1. call[i].pc = "ensureVolume" /\ Sane(rec) /\ call[i].pc \in Requesting
  BY Facts DEF EnsureVolume, At, Requesting
<1>2. Quiet
  BY Facts DEF EnsureVolume, Quiet, NoCreate, cloud, pool
<1>3. found \subseteq volumes /\ volumes \subseteq Ids
      /\ (volumes # {} => ids.volume # 0)
  BY DEF Found, Inv, TypeOK, KnownWasAsked
<1>4. ASSUME NEW v \in found, Save(i, "ensureInstance", Has(rec, v))
      PROVE  Inv'
  <2>1. Sane(Has(rec, v)) /\ Has(rec, v).volume # 0
    BY <1>1, <1>3, <1>4, HasIsSane
  <2>2. "ensureInstance" \in Requesting /\ "ensureInstance" \notin PastInstance
    BY DEF Requesting, PastInstance, Draining, Waiting
  <2> QED
    BY <1>1, <1>2, <1>4, <2>1, <2>2, GoesOn DEF Save
<1>5. ASSUME ~tried, Save(i, "createVolume", [rec EXCEPT !.volumeTried = TRUE])
      PROVE  Inv'
  <2>1. Sane([rec EXCEPT !.volumeTried = TRUE])
        /\ [rec EXCEPT !.volumeTried = TRUE].volumeTried
    BY <1>1 DEF Sane, Faithful, Recalls, Real, Record
  <2>2. "volume" \notin forgotten => ids.volume = 0
    BY <1>1, <1>5 DEF Sane, Faithful, Recalls
  <2>3. /\ "createVolume" \in Requesting
        /\ "createVolume" \notin PastVolume \cup PastInstance
    BY DEF Requesting, PastVolume, PastInstance, Draining, Waiting
  <2> QED
    BY <1>1, <1>2, <1>5, <2>1, <2>2, <2>3, GoesOn DEF Save
<1>6. ASSUME Fail(i, rec, "unknown") PROVE Inv'
  BY <1>1, <1>2, <1>6, StatusIsFree, Ends DEF Fail
<1> QED
  BY <1>4, <1>5, <1>6 DEF EnsureVolume

(* The create of the volume: the first, because its attempt was the first. *)
LEMMA CreateVolumeStep ==
    ASSUME Inv, NEW i \in Isolates, CreateVolume(i)
    PROVE  Inv'
<1>1. /\ call[i].pc = "createVolume" /\ call[i].pc \notin Away
      /\ Sane(Rec(i)) /\ call[i] \in Working
  BY Facts DEF CreateVolume, At, Inv, TypeOK, Working, Idle
<1>2. "volume" \notin forgotten =>
        ids.volume = 0 /\ record.volumeTried /\ Rec(i).volumeTried
  BY <1>1 DEF Inv, CreatesFirst
<1>3. \A j \in Isolates \ {i} : call[j].pc \notin Requesting
  BY <1>1 DEF Inv, OneRequesting, Requesting
<1>4. /\ ids'.volume = ids.volume + 1 /\ ids'.volume # 0
      /\ ids'.instance = ids.instance /\ ids.volume + 1 \in Ids
      /\ ids' \in [Kinds -> 0 .. MaxIds]
  BY ProvisionerAssumption DEF CreateVolume, Inv, TypeOK, Kinds, Ids
<1> DEFINE c == [pc |-> "volumeAnswer", rec |-> Rec(i)]
<1>5. /\ call' = [call EXCEPT ![i] = c] /\ c \in Working
      /\ c.pc = "volumeAnswer" /\ c.rec = Rec(i)
      /\ call \in [Isolates -> Working \cup {Idle}]
  BY <1>1 DEF CreateVolume, Goto, Working, Sane, Requesting, Inv, TypeOK
<1> HIDE DEF c
<1>6. /\ call' \in [Isolates -> Working \cup {Idle}] /\ call'[i] = c
      /\ \A j \in Isolates \ {i} : call'[j] = call[j]
  BY <1>5
<1>7. UNCHANGED <<record, volumes, instances, at, node, active, forgotten>>
  BY DEF CreateVolume, pool
<1>8. /\ "volumeAnswer" \notin PastInstance
      /\ "createInstance" \in PastVolume
      /\ "volumeAnswer" \notin PastVolume
  BY DEF PastVolume, PastInstance, Draining, Waiting
<1>9. asked' = asked \cup {[op |-> "createVolume", id |-> ids.volume + 1, to |-> 0]}
  BY DEF CreateVolume, Ask
<1>10. TypeOK'
  <2>1. asked' \subseteq [op : {"createVolume", "createInstance", "attach",
                              "deleteInstance", "detach", "deleteVolume"},
                        id : Ids, to : Ids \cup {0}]
    BY <1>4, <1>9 DEF Inv, TypeOK
  <2> QED
    BY <1>4, <1>6, <1>7, <2>1 DEF Inv, TypeOK, Working
<1>11. OneRequesting'
  BY <1>3, <1>6 DEF OneRequesting
<1>12. TriedIsSaved'
  <2>1. \A j \in Isolates \ {i} :
          call[j].pc \notin Away /\ "volume" \notin forgotten => FALSE
    <3> SUFFICES ASSUME NEW j \in Isolates \ {i}, call[j].pc \notin Away,
                        "volume" \notin forgotten
                 PROVE  FALSE
      OBVIOUS
    <3>1. call[j].pc \in PastVolume
      BY <1>3, <1>6 DEF Inv, TypeOK, Working, PastVolume, PastInstance, Idle
    <3> QED
      BY <1>2, <3>1 DEF Inv, KnownWasAsked
  <2> QED
    BY <1>1, <1>2, <1>4, <1>5, <1>6, <1>7, <2>1
       DEF Inv, TriedIsSaved, Recalls, Rec, Sane, Faithful
<1>13. KnownWasAsked'
  BY <1>1, <1>4, <1>5, <1>6, <1>7, <1>8, <1>9 DEF Inv, KnownWasAsked, Rec
<1>14. CreatesFirst'
  BY <1>3, <1>5, <1>6, <1>8 DEF CreatesFirst, Requesting
<1>15. NoDuplicates'
  BY <1>2, <1>4, <1>7 DEF Inv, NoDuplicates
<1> QED
  BY <1>10, <1>11, <1>12, <1>13, <1>14, <1>15 DEF Inv

(* It is served, refused, or the answer does not come.                     *)
LEMMA VolumeAnswerStep ==
    ASSUME Inv, NEW i \in Isolates, VolumeAnswer(i)
    PROVE  Inv'
<1> DEFINE rec == Rec(i)
<1>1. call[i].pc = "volumeAnswer" /\ Sane(rec) /\ call[i].pc \in Requesting
  BY Facts DEF VolumeAnswer, At, Requesting
<1>2. Quiet
  BY Facts DEF VolumeAnswer, Quiet, NoCreate, cloud, pool
<1>3. ASSUME NEW v \in volumes, Save(i, "ensureInstance", Has(rec, v))
      PROVE  Inv'
  <2>1. v \in Ids /\ ids.volume # 0
    BY <1>3 DEF Inv, TypeOK, KnownWasAsked
  <2>2. Sane(Has(rec, v)) /\ Has(rec, v).volume # 0
    BY <1>1, <2>1, HasIsSane
  <2>3. "ensureInstance" \in Requesting /\ "ensureInstance" \notin PastInstance
    BY DEF Requesting, PastInstance, Draining, Waiting
  <2> QED
    BY <1>1, <1>2, <1>3, <2>2, <2>3, GoesOn DEF Save
<1>4. ASSUME Fail(i, rec, "failed") PROVE Inv'
  BY <1>1, <1>2, <1>4, StatusIsFree, Ends DEF Fail
<1>5. ASSUME Fail(i, [rec EXCEPT !.volumeStatus = "unknown"], "unknown")
      PROVE  Inv'
  <2>1. Sane([rec EXCEPT !.volumeStatus = "unknown"])
    BY <1>1, VolumeStatusIsFree DEF With
  <2>2. Sane([[rec EXCEPT !.volumeStatus = "unknown"]
                  EXCEPT !.status = "unknown"])
    BY <2>1, StatusIsFree
  <2> QED
    BY <1>1, <1>2, <1>5, <2>2, Ends DEF Fail
<1> QED
  BY <1>3, <1>4, <1>5 DEF VolumeAnswer
-----------------------------------------------------------------------------

(* The same for the VM.                                                    *)
LEMMA EnsureInstanceStep ==
    ASSUME Inv, NEW i \in Isolates, EnsureInstance(i)
    PROVE  Inv'
<1> DEFINE rec == Rec(i)
           found == Found(rec.instance, instances)
           tried == rec.instance # 0 \/ rec.instanceTried
<1>1. /\ call[i].pc = "ensureInstance" /\ Sane(rec)
      /\ call[i].pc \in Requesting /\ rec.volume # 0
  BY Facts DEF EnsureInstance, At, Requesting, PastVolume, Inv, KnownWasAsked
<1>2. Quiet
  BY Facts DEF EnsureInstance, Quiet, NoCreate, cloud, pool
<1>3. found \subseteq instances /\ instances \subseteq Ids
      /\ (instances # {} => ids.instance # 0)
  BY DEF Found, Inv, TypeOK, KnownWasAsked
<1>4. ASSUME NEW v \in found, Save(i, "ensureAttachment", HasVm(rec, v))
      PROVE  Inv'
  <2>1. /\ Sane(HasVm(rec, v)) /\ HasVm(rec, v).instance # 0
        /\ HasVm(rec, v).volume # 0
    BY <1>1, <1>3, <1>4, HasVmIsSane
  <2>2. "ensureAttachment" \in Requesting
    BY DEF Requesting
  <2> QED
    BY <1>1, <1>2, <1>4, <2>1, <2>2, GoesOn DEF Save
<1>5. ASSUME ~tried,
             Save(i, "createInstance", [rec EXCEPT !.instanceTried = TRUE])
      PROVE  Inv'
  <2>1. /\ Sane([rec EXCEPT !.instanceTried = TRUE])
        /\ [rec EXCEPT !.instanceTried = TRUE].instanceTried
        /\ [rec EXCEPT !.instanceTried = TRUE].volume # 0
    BY <1>1 DEF Sane, Faithful, Recalls, Real, Record
  <2>2. "instance" \notin forgotten => ids.instance = 0
    BY <1>1, <1>5 DEF Sane, Faithful, Recalls
  <2>3. "createInstance" \in Requesting /\ "createInstance" \notin PastInstance
    BY DEF Requesting, PastInstance, Draining, Waiting
  <2> QED
    BY <1>1, <1>2, <1>5, <2>1, <2>2, <2>3, GoesOn DEF Save
<1>6. ASSUME Fail(i, rec, "unknown") PROVE Inv'
  BY <1>1, <1>2, <1>6, StatusIsFree, Ends DEF Fail
<1> QED
  BY <1>4, <1>5, <1>6 DEF EnsureInstance

(* The create of the VM.                                                   *)
LEMMA CreateInstanceStep ==
    ASSUME Inv, NEW i \in Isolates, CreateInstance(i)
    PROVE  Inv'
<1>1. /\ call[i].pc = "createInstance" /\ call[i].pc \notin Away
      /\ Sane(Rec(i)) /\ call[i] \in Working
  BY Facts DEF CreateInstance, At, Inv, TypeOK, Working, Idle
<1>2. "instance" \notin forgotten =>
        ids.instance = 0 /\ record.instanceTried /\ Rec(i).instanceTried
  BY <1>1 DEF Inv, CreatesFirst
<1>3. \A j \in Isolates \ {i} : call[j].pc \notin Requesting
  BY <1>1 DEF Inv, OneRequesting, Requesting
<1>4. /\ ids'.instance = ids.instance + 1 /\ ids'.instance # 0
      /\ ids'.volume = ids.volume /\ ids.instance + 1 \in Ids
      /\ ids' \in [Kinds -> 0 .. MaxIds]
  BY ProvisionerAssumption DEF CreateInstance, Inv, TypeOK, Kinds, Ids
<1> DEFINE c == [pc |-> "instanceAnswer", rec |-> Rec(i)]
<1>5. /\ call' = [call EXCEPT ![i] = c] /\ c \in Working
      /\ c.pc = "instanceAnswer" /\ c.rec = Rec(i)
      /\ call \in [Isolates -> Working \cup {Idle}]
  BY <1>1 DEF CreateInstance, Goto, Working, Sane, Requesting, Inv, TypeOK
<1> HIDE DEF c
<1>6. /\ call' \in [Isolates -> Working \cup {Idle}] /\ call'[i] = c
      /\ \A j \in Isolates \ {i} : call'[j] = call[j]
  BY <1>5
<1>7. UNCHANGED <<record, volumes, instances, at, node, active, forgotten>>
  BY DEF CreateInstance, pool
<1>8. /\ "instanceAnswer" \notin PastInstance
      /\ "createInstance" \in PastVolume
      /\ "volumeAnswer" \notin PastVolume
  BY DEF PastVolume, PastInstance, Draining, Waiting
<1>9. asked' = asked \cup {[op |-> "createInstance", id |-> ids.instance + 1, to |-> 0]}
  BY DEF CreateInstance, Ask
<1>10. TypeOK'
  <2>1. asked' \subseteq [op : {"createVolume", "createInstance", "attach",
                              "deleteInstance", "detach", "deleteVolume"},
                        id : Ids, to : Ids \cup {0}]
    BY <1>4, <1>9 DEF Inv, TypeOK
  <2> QED
    BY <1>4, <1>6, <1>7, <2>1 DEF Inv, TypeOK, Working
<1>11. OneRequesting'
  BY <1>3, <1>6 DEF OneRequesting
<1>12. TriedIsSaved'
  <2>1. \A j \in Isolates \ {i} :
          call[j].pc \notin Away /\ "instance" \notin forgotten => FALSE
    <3> SUFFICES ASSUME NEW j \in Isolates \ {i}, call[j].pc \notin Away,
                        "instance" \notin forgotten
                 PROVE  FALSE
      OBVIOUS
    <3>1. call[j].pc \in PastInstance
      BY <1>3, <1>6 DEF Inv, TypeOK, Working, PastVolume, PastInstance, Idle
    <3> QED
      BY <1>2, <3>1 DEF Inv, KnownWasAsked
  <2> QED
    BY <1>1, <1>2, <1>4, <1>5, <1>6, <1>7, <2>1
       DEF Inv, TriedIsSaved, Recalls, Rec, Sane, Faithful
<1>13. KnownWasAsked'
  BY <1>1, <1>4, <1>5, <1>6, <1>7, <1>8, <1>9 DEF Inv, KnownWasAsked, Rec
<1>14. CreatesFirst'
  BY <1>3, <1>5, <1>6, <1>8 DEF CreatesFirst, Requesting
<1>15. NoDuplicates'
  BY <1>2, <1>4, <1>7 DEF Inv, NoDuplicates
<1> QED
  BY <1>10, <1>11, <1>12, <1>13, <1>14, <1>15 DEF Inv

(* It is found, refused, or neither.                                       *)
LEMMA InstanceAnswerStep ==
    ASSUME Inv, NEW i \in Isolates, InstanceAnswer(i)
    PROVE  Inv'
<1> DEFINE rec == Rec(i)
<1>1. /\ call[i].pc = "instanceAnswer" /\ Sane(rec)
      /\ call[i].pc \in Requesting /\ rec.volume # 0
  BY Facts DEF InstanceAnswer, At, Requesting, PastVolume, Inv, KnownWasAsked
<1>2. Quiet
  BY Facts DEF InstanceAnswer, Quiet, NoCreate, cloud, pool
<1>3. ASSUME NEW v \in instances, Save(i, "ensureAttachment", HasVm(rec, v))
      PROVE  Inv'
  <2>1. v \in Ids /\ ids.instance # 0
    BY <1>3 DEF Inv, TypeOK, KnownWasAsked
  <2>2. /\ Sane(HasVm(rec, v)) /\ HasVm(rec, v).instance # 0
        /\ HasVm(rec, v).volume # 0
    BY <1>1, <2>1, HasVmIsSane
  <2>3. "ensureAttachment" \in Requesting
    BY DEF Requesting
  <2> QED
    BY <1>1, <1>2, <1>3, <2>2, <2>3, GoesOn DEF Save
<1>4. ASSUME NEW s \in {"failed", "unknown"}, Fail(i, rec, s) PROVE Inv'
  BY <1>1, <1>2, <1>4, StatusIsFree, Ends DEF Fail
<1> QED
  BY <1>3, <1>4 DEF InstanceAnswer
-----------------------------------------------------------------------------

(* The steps past the creates save a record with the same resources.       *)
LEMMA PastStep ==
    ASSUME Inv, NEW i \in Isolates, call[i].pc \in PastInstance
    PROVE  /\ call[i].pc \notin Away /\ Sane(Rec(i))
           /\ Rec(i).volume # 0 /\ Rec(i).instance # 0
           /\ Rec(i).volume \in Ids /\ Rec(i).instance \in Ids
<1>1. call[i].pc \notin Away /\ call[i].pc \in PastVolume
  BY DEF PastInstance, PastVolume, Draining, Waiting
<1> QED
  BY <1>1, Facts DEF Inv, KnownWasAsked

LEMMA EnsureAttachmentStep ==
    ASSUME Inv, NEW i \in Isolates, EnsureAttachment(i)
    PROVE  Inv'
<1> DEFINE rec == Rec(i)
<1>1. /\ call[i].pc = "ensureAttachment" /\ call[i].pc \in PastInstance
      /\ call[i].pc \in Requesting
  BY DEF EnsureAttachment, At, PastInstance, Requesting
<1>2. call[i].pc \notin Away /\ Sane(rec) /\ rec.volume # 0 /\ rec.instance # 0
  BY <1>1, PastStep
<1>3. Quiet
  BY Facts DEF EnsureAttachment, Quiet, NoCreate, cloud, pool
<1>4. \A v \in {"attached", "attaching", "unknown"} :
        /\ Sane(With(rec, v)) /\ With(rec, v).volume # 0
        /\ With(rec, v).instance # 0
  <2> TAKE v \in {"attached", "attaching", "unknown"}
  <2> QED
    BY <1>2, VolumeStatusIsFree
<1>5. CASE Save(i, "awaitRegistration", With(rec, "attached"))
  <2>1. /\ "awaitRegistration" \in Waiting /\ "awaitRegistration" \notin Requesting
    BY DEF Waiting, Requesting
  <2> QED
    BY <1>2, <1>3, <1>4, <1>5, <2>1, GoesOn DEF Save
<1>6. CASE Save(i, "attach", With(rec, "attaching"))
  <2>1. "attach" \in Requesting
    BY DEF Requesting
  <2> QED
    BY <1>1, <1>2, <1>3, <1>4, <1>6, <2>1, GoesOn DEF Save
<1>7. CASE Fail(i, With(rec, "unknown"), "failed")
  BY <1>2, <1>3, <1>4, <1>7, StatusIsFree, Ends DEF Fail
<1>8. CASE Fail(i, rec, "unknown")
  BY <1>2, <1>3, <1>8, StatusIsFree, Ends DEF Fail
<1> QED
  BY <1>5, <1>6, <1>7, <1>8 DEF EnsureAttachment

LEMMA AttachStep ==
    ASSUME Inv, NEW i \in Isolates, Attach(i)
    PROVE  Inv'
<1> DEFINE rec == Rec(i)
<1>1. call[i].pc = "attach" /\ call[i].pc \in PastInstance
  BY DEF Attach, At, PastInstance
<1>2. /\ call[i].pc \notin Away /\ Sane(rec) /\ rec.volume # 0 /\ rec.instance # 0
      /\ rec.volume \in Ids /\ rec.instance \in Ids
  BY <1>1, PastStep
<1>3. Quiet
  BY <1>2, Facts DEF Attach, Ask, Quiet, NoCreate, cloud, pool
<1>4. ASSUME Goto(i, "awaitAttachment", rec), UNCHANGED record
      PROVE  Inv'
  <2>1. "awaitAttachment" \in Waiting /\ "awaitAttachment" \notin Requesting
    BY DEF Waiting, Requesting
  <2> QED
    BY <1>2, <1>3, <1>4, <2>1, GoesOn
<1>5. ASSUME Fail(i, With(rec, "unknown"), "failed") PROVE Inv'
  <2>1. Sane(With(rec, "unknown"))
    BY <1>2, VolumeStatusIsFree
  <2> QED
    BY <1>2, <1>3, <1>5, <2>1, StatusIsFree, Ends DEF Fail
<1> QED
  BY <1>4, <1>5 DEF Attach

LEMMA AwaitAttachmentStep ==
    ASSUME Inv, NEW i \in Isolates, AwaitAttachment(i)
    PROVE  Inv'
<1> DEFINE rec == Rec(i)
<1>1. call[i].pc \in PastInstance
  BY DEF AwaitAttachment, At, PastInstance, Waiting
<1>2. call[i].pc \notin Away /\ Sane(rec) /\ rec.volume # 0 /\ rec.instance # 0
  BY <1>1, PastStep
<1>3. Quiet
  BY Facts DEF AwaitAttachment, Quiet, NoCreate, cloud, pool
<1>4. \A v \in {"attached", "attaching", "unknown"} :
        /\ Sane(With(rec, v)) /\ With(rec, v).volume # 0
        /\ With(rec, v).instance # 0
  <2> TAKE v \in {"attached", "attaching", "unknown"}
  <2> QED
    BY <1>2, VolumeStatusIsFree
<1>5. CASE Save(i, "awaitRegistration", With(rec, "attached"))
  <2>1. /\ "awaitRegistration" \in Waiting /\ "awaitRegistration" \notin Requesting
    BY DEF Waiting, Requesting
  <2> QED
    BY <1>2, <1>3, <1>4, <1>5, <2>1, GoesOn DEF Save
<1>6. ASSUME NEW u \in {"attaching", "unknown"}, NEW s \in {"failed", "unknown"},
             Fail(i, With(rec, u), s)
      PROVE  Inv'
  <2>1. Sane([With(rec, u) EXCEPT !.status = s])
    BY <1>4, StatusIsFree
  <2> QED
    BY <1>2, <1>3, <1>6, <2>1, Ends DEF Fail
<1> QED
  BY <1>5, <1>6 DEF AwaitAttachment

LEMMA AwaitRegistrationStep ==
    ASSUME Inv, NEW i \in Isolates, AwaitRegistration(i)
    PROVE  Inv'
<1>1. call[i].pc \in PastInstance
  BY DEF AwaitRegistration, At, PastInstance, Waiting
<1>2. call[i].pc \notin Away /\ Sane(Rec(i))
  BY <1>1, PastStep
<1>3. Quiet
  BY Facts DEF AwaitRegistration, Quiet, NoCreate, cloud, pool
<1>4. /\ Return(i)
      /\ \/ record' = [Rec(i) EXCEPT !.status = "ready"]
         \/ record' = [Rec(i) EXCEPT !.status = "unknown"]
  BY DEF AwaitRegistration, Fail
<1> QED
  <2>1. /\ Sane([Rec(i) EXCEPT !.status = "ready"])
        /\ Sane([Rec(i) EXCEPT !.status = "unknown"])
    BY <1>2, StatusIsFree
  <2> QED
    BY <1>2, <1>3, <1>4, <2>1, Ends
-----------------------------------------------------------------------------

(* A drain begins with a record that knows its resources, or will declare  *)
(* it unknown.                                                             *)
LEMMA DrainNodeStep ==
    ASSUME Inv, NEW i \in Isolates, DrainNode(i)
    PROVE  Inv'
<1>1. record \in Record /\ Faithful(record)
  BY DEF DrainNode, Inv, TypeOK, TriedIsSaved, KnownWasAsked, Faithful, Real,
         NoRecord, Fresh
<1>2. Quiet
  BY Facts DEF DrainNode, Quiet, NoCreate, cloud, pool
<1> DEFINE pc == IF Whole(record) THEN "drain" ELSE "markUnknown"
           c == [pc |-> pc, rec |-> record]
<1>3. pc \notin Requesting /\ pc \in Draining \cup {"markUnknown"}
  BY DEF Requesting, Draining
<1>4. pc \in PastVolume \cup PastInstance =>
        record.volume # 0 /\ record.instance # 0
  BY DEF PastVolume, PastInstance, Draining, Waiting, Whole
<1>5. call' = [call EXCEPT ![i] = c] /\ record' = record
  BY DEF DrainNode, Goto
<1>6. c \in Working /\ c.pc = pc /\ c.rec = record
  BY <1>1, <1>3 DEF Working
<1> HIDE DEF pc, c
<1>7. Allowed(i, c, record')
  BY <1>1, <1>3, <1>4, <1>5, <1>6 DEF Allowed, Faithful, Requesting
<1> QED
  BY <1>2, <1>5, <1>7, StepAllowed DEF Quiet

(* A drain that saves what it read when it began may forget an attempt.    *)
LEMMA MarkUnknownStep ==
    ASSUME Inv, NEW i \in Isolates, MarkUnknown(i)
    PROVE  Inv'
<1> DEFINE rec == Rec(i)
<1>1. /\ call[i].pc = "markUnknown" /\ call[i] \in Working /\ rec \in Record
      /\ call \in [Isolates -> Working \cup {Idle}]
  BY DEF MarkUnknown, At, Inv, TypeOK, Working, Idle, Rec
<1>2. /\ record' = [rec EXCEPT !.status = "unknown"]
      /\ call' = [call EXCEPT ![i] = Idle]
      /\ UNCHANGED <<volumes, instances, at, asked, ids, node, active>>
  BY DEF MarkUnknown, Fail, Return, cloud, pool
<1>3. /\ call' \in [Isolates -> Working \cup {Idle}] /\ call'[i] = Idle
      /\ \A j \in Isolates \ {i} : call'[j] = call[j]
  BY <1>1, <1>2
<1>4. /\ Idle.pc = "idle" /\ Idle.rec.volume = 0 /\ Idle.rec.instance = 0
      /\ "idle" \notin Requesting \cup PastVolume \cup PastInstance
  BY DEF Idle, NoRecord, Fresh, Requesting, PastVolume, PastInstance,
         Draining, Waiting
<1>5. /\ record' \in Record /\ record'.volume = rec.volume
      /\ record'.instance = rec.instance
      /\ record'.volumeTried = rec.volumeTried
      /\ record'.instanceTried = rec.instanceTried
  BY <1>1, <1>2 DEF Record
<1>6. /\ forgotten \subseteq forgotten' /\ forgotten' \subseteq Kinds
      /\ "volume" \notin forgotten' /\ record.volumeTried => rec.volumeTried
      /\ "instance" \notin forgotten' /\ record.instanceTried =>
           rec.instanceTried
  BY DEF MarkUnknown, Kinds, Inv, TypeOK
<1> HIDE DEF rec
<1>7. TypeOK'
  BY <1>2, <1>3, <1>5, <1>6 DEF Inv, TypeOK, Working
<1>8. OneRequesting'
  BY <1>3, <1>4 DEF Inv, OneRequesting
<1>9. TriedIsSaved'
  BY <1>2, <1>3, <1>4, <1>5, <1>6 DEF Inv, TriedIsSaved, Recalls, Rec
<1>10. KnownWasAsked'
  BY <1>2, <1>3, <1>4, <1>5 DEF Inv, KnownWasAsked, Rec, rec
<1>11. CreatesFirst'
  BY <1>2, <1>3, <1>4, <1>5, <1>6 DEF Inv, CreatesFirst, Rec
<1>12. NoDuplicates'
  BY <1>2, <1>6 DEF Inv, NoDuplicates
<1> QED
  BY <1>7, <1>8, <1>9, <1>10, <1>11, <1>12 DEF Inv

(* A step of a drain that goes on with a record of the same resources.     *)
LEMMA DrainGoesOn ==
    ASSUME Inv, NEW i \in Isolates, call[i].pc \in Draining, Quiet,
           NEW pc \in Draining \cup Waiting, NEW rec, Sane(rec),
           rec.volume = Rec(i).volume, rec.instance = Rec(i).instance,
           Goto(i, pc, rec), record' = rec \/ record' = record
    PROVE  Inv'
<1>1. call[i].pc \in PastInstance
  BY DEF PastInstance
<1>2. call[i].pc \notin Away /\ Rec(i).volume # 0 /\ Rec(i).instance # 0
  BY <1>1, PastStep
<1>3. pc \notin Requesting
  BY DEF Requesting, Draining, Waiting
<1>4. pc \notin {"createVolume", "createInstance"}
  BY <1>3 DEF Requesting
<1> QED
  BY <1>2, <1>3, <1>4, GoesOn

LEMMA DrainSteps ==
    ASSUME Inv, NEW i \in Isolates,
           \/ Drain(i) \/ SaveDraining(i) \/ DeleteInstance(i) \/ Detach(i)
           \/ DeleteVolume(i) \/ RemoveNode(i) \/ SaveDeleted(i)
    PROVE  Inv'
<1> DEFINE rec == Rec(i)
<1>1. call[i].pc \in Draining /\ call[i].pc \in PastInstance
  BY DEF Drain, SaveDraining, DeleteInstance, Detach, DeleteVolume, RemoveNode,
         SaveDeleted, At, Draining, PastInstance
<1>2. /\ call[i].pc \notin Away /\ Sane(rec)
      /\ rec.volume \in Ids /\ rec.instance \in Ids
  BY <1>1, PastStep
<1>3. Quiet
  BY <1>2, Facts DEF Drain, SaveDraining, DeleteInstance, Detach, DeleteVolume,
     RemoveNode, SaveDeleted, Ask, Quiet, NoCreate, cloud, pool
<1>4. /\ Sane(With(rec, "deleted")) /\ With(rec, "deleted").volume = rec.volume
      /\ With(rec, "deleted").instance = rec.instance
      /\ Sane(With(rec, "detaching"))
      /\ With(rec, "detaching").volume = rec.volume
      /\ With(rec, "detaching").instance = rec.instance
  BY <1>2, VolumeStatusIsFree
<1>5. \A pc \in {"saveDraining", "saveDeleted", "detach", "deleteVolume",
                  "removeNode", "awaitNoServices", "awaitInstanceGone",
                  "awaitDetached", "awaitVolumeGone"} :
        pc \in Draining \cup Waiting
  BY DEF Draining, Waiting
<1>6. ASSUME Fail(i, rec, "unknown") PROVE Inv'
  BY <1>2, <1>3, <1>6, StatusIsFree, Ends DEF Fail
<1>7. CASE Drain(i)
  <2>1. UNCHANGED record /\ (Goto(i, "saveDraining", rec) \/ Return(i))
    BY <1>7 DEF Drain
  <2> QED
    BY <1>1, <1>2, <1>3, <1>5, <2>1, DrainGoesOn, Ends
<1>8. CASE SaveDraining(i)
  <2>1. LET y == [rec EXCEPT !.status = "draining"] IN
        Sane(y) /\ y.volume = rec.volume /\ y.instance = rec.instance
    BY <1>2, StatusIsFree
  <2> QED
    BY <1>1, <1>3, <1>5, <1>8, <2>1, DrainGoesOn DEF SaveDraining, Save
<1>9. CASE DeleteInstance(i)
  BY <1>1, <1>2, <1>3, <1>5, <1>9, DrainGoesOn DEF DeleteInstance, Save
<1>10. CASE Detach(i)
  BY <1>1, <1>3, <1>4, <1>5, <1>6, <1>10, DrainGoesOn DEF Detach, Save
<1>11. CASE DeleteVolume(i)
  BY <1>1, <1>2, <1>3, <1>5, <1>11, DrainGoesOn DEF DeleteVolume, Save
<1>12. CASE RemoveNode(i)
  BY <1>1, <1>2, <1>3, <1>5, <1>6, <1>12, DrainGoesOn DEF RemoveNode
<1>13. CASE SaveDeleted(i)
  <2>1. Sane([With(rec, "deleted") EXCEPT !.status = "deleted"])
    BY <1>4, StatusIsFree
  <2>2. record' = [With(rec, "deleted") EXCEPT !.status = "deleted"]
    BY <1>2, <1>13 DEF SaveDeleted, With, Sane, Record
  <2> QED
    BY <1>2, <1>3, <1>13, <2>1, <2>2, Ends DEF SaveDeleted
<1> QED
  BY <1>7, <1>8, <1>9, <1>10, <1>11, <1>12, <1>13

LEMMA AwaitSteps ==
    ASSUME Inv, NEW i \in Isolates,
           \/ AwaitNoServices(i) \/ AwaitInstanceGone(i)
           \/ AwaitDetached(i) \/ AwaitVolumeGone(i)
    PROVE  Inv'
<1>1. call[i].pc \in Waiting /\ call[i].pc \in PastInstance
  BY DEF AwaitNoServices, AwaitInstanceGone, AwaitDetached, AwaitVolumeGone,
         Await, At, Waiting, PastInstance
<1>2. Sane(Rec(i))
  BY <1>1, PastStep
<1>3. /\ Sane(With(Rec(i), "deleted"))
      /\ With(Rec(i), "deleted").volume = Rec(i).volume
      /\ With(Rec(i), "deleted").instance = Rec(i).instance
  BY <1>2, VolumeStatusIsFree
<1>4. /\ {"awaitNoServices", "awaitInstanceGone", "awaitDetached",
          "awaitVolumeGone"} \subseteq Waiting
      /\ {"deleteInstance", "detach", "deleteVolume", "removeNode"}
          \subseteq Draining
  BY DEF Waiting, Draining
<1>5. CASE AwaitNoServices(i)
  BY <1>2, <1>4, <1>5, AwaitStep DEF AwaitNoServices
<1>6. CASE AwaitInstanceGone(i)
  BY <1>2, <1>4, <1>6, AwaitStep DEF AwaitInstanceGone
<1>7. CASE AwaitDetached(i)
  <2> DEFINE goto == IF Rec(i).volume \in volumes THEN "deleteVolume"
                     ELSE "removeNode"
  <2>1. goto \in Draining
    BY <1>4
  <2> HIDE DEF goto
  <2>2. Await(i, "awaitDetached", ~Attached(Rec(i)) /\ ~Elsewhere(Rec(i)), goto,
              Rec(i))
    BY <1>7 DEF AwaitDetached, goto
  <2> QED
    BY <1>2, <1>4, <2>1, <2>2, AwaitStep
<1>8. CASE AwaitVolumeGone(i)
  BY <1>3, <1>4, <1>8, AwaitStep DEF AwaitVolumeGone
<1> QED
  BY <1>5, <1>6, <1>7, <1>8

LEMMA DiesStep ==
    ASSUME Inv, NEW i \in Isolates, Dies(i)
    PROVE  Inv'
<1>1. call[i].pc # "idle"
  BY DEF Dies, Inv, TypeOK, Working, Idle, Requesting, Draining, Waiting
<1>2. Quiet
  BY Facts DEF Dies, Quiet, NoCreate, cloud, pool
<1>3. CASE call[i].pc \notin Away
  <2>1. Sane([Rec(i) EXCEPT !.status = "unknown"])
    BY <1>3, Facts, StatusIsFree
  <2> QED
    BY <1>2, <1>3, <2>1, Ends DEF Dies
<1>4. CASE call[i].pc = "markUnknown"
  <2>1. record' = record /\ call' = [call EXCEPT ![i] = Idle]
    BY <1>4 DEF Dies, Return, Draining, Waiting
  <2>2. /\ Idle.pc = "idle" /\ Real(Idle.rec)
        /\ "idle" \notin Requesting \cup PastVolume \cup PastInstance
    BY DEF Idle, NoRecord, Fresh, Real, Requesting, PastVolume, PastInstance,
           Draining, Waiting
  <2>3. record \in Record \cup {NoRecord} /\ Faithful(record)
    BY DEF Inv, TypeOK, TriedIsSaved, KnownWasAsked, Faithful, Real
  <2>4. Allowed(i, Idle, record')
    BY <2>1, <2>2, <2>3 DEF Allowed
  <2> QED
    BY <1>2, <2>1, <2>4, StepAllowed DEF Quiet
<1> QED
  BY <1>1, <1>3, <1>4

(* The provider makes what it was asked for, and nothing else.             *)
LEMMA ServeStep ==
    ASSUME Inv, NEW a \in asked, Serve(a) \/ Lose(a)
    PROVE  Inv'
<1>1. /\ UNCHANGED <<record, call, ids, node, active, forgotten>>
      /\ asked' \subseteq asked
  BY DEF Serve, Lose, pool
<1>2. /\ volumes' \subseteq volumes \cup {a.id} /\ instances' \subseteq instances \cup {a.id}
      /\ volumes' \subseteq volumes \/ a.op = "createVolume"
      /\ instances' \subseteq instances \/ a.op = "createInstance"
  BY DEF Serve, Lose
<1>3. at' \in [Ids -> Ids \cup {0}]
  <2>1. at \in [Ids -> Ids \cup {0}] /\ a.id \in Ids /\ a.to \in Ids \cup {0}
    BY DEF Inv, TypeOK
  <2>2. CASE UNCHANGED at
    BY <2>1, <2>2
  <2>3. CASE \E x \in {a.to, 0} : at' = [at EXCEPT ![a.id] = x]
    BY <2>1, <2>3
  <2>4. CASE at' = [v \in Ids |-> IF at[v] = a.id THEN 0 ELSE at[v]]
    BY <2>1, <2>4
  <2> QED
    BY <2>2, <2>3, <2>4 DEF Serve, Lose
<1>4. TypeOK'
  BY <1>1, <1>2, <1>3 DEF Inv, TypeOK
<1>5. OneRequesting' /\ TriedIsSaved' /\ CreatesFirst' /\ NoDuplicates'
  BY <1>1 DEF Inv, OneRequesting, TriedIsSaved, Recalls, CreatesFirst,
              NoDuplicates, Rec
<1>6. KnownWasAsked'
  BY <1>1, <1>2 DEF Inv, KnownWasAsked, Rec
<1> QED
  BY <1>4, <1>5, <1>6 DEF Inv

(* The node and its services are of no account here.                       *)
LEMMA PoolStep ==
    ASSUME Inv, Register \/ Heartbeat \/ Services \/ UNCHANGED vars
    PROVE  Inv'
<1>1. UNCHANGED <<record, call, volumes, instances, at, asked, ids, forgotten>>
  BY DEF Register, Heartbeat, Services, vars, cloud
<1>2. /\ node' \in {"none", "ready", "draining", "removed"}
      /\ active' \in BOOLEAN
  BY DEF Register, Heartbeat, Services, vars, pool, Inv, TypeOK
<1> QED
  BY <1>1, <1>2 DEF Inv, TypeOK, OneRequesting, TriedIsSaved, Recalls,
                    KnownWasAsked, CreatesFirst, NoDuplicates, Rec

LEMMA Initially == Init => Inv
<1> SUFFICES ASSUME Init PROVE Inv
  OBVIOUS
<1>1. /\ \A i \in Isolates : call[i] = Idle
      /\ Idle.pc = "idle" /\ Idle.rec = NoRecord
      /\ record = NoRecord /\ NoRecord.volume = 0 /\ NoRecord.instance = 0
      /\ "idle" \notin Requesting \cup PastVolume \cup PastInstance
  BY DEF Init, Idle, NoRecord, Fresh, Requesting, PastVolume, PastInstance,
         Draining, Waiting
<1>2. /\ ids.volume = 0 /\ ids.instance = 0
      /\ ids \in [Kinds -> 0 .. MaxIds]
  BY ProvisionerAssumption DEF Init, Kinds
<1>3. TypeOK
  BY <1>2 DEF Init, TypeOK
<1>4. OneRequesting /\ CreatesFirst
  BY <1>1 DEF OneRequesting, CreatesFirst
<1>5. TriedIsSaved /\ NoDuplicates
  BY <1>1, <1>2 DEF TriedIsSaved, Recalls, NoDuplicates
<1>6. KnownWasAsked
  BY <1>1 DEF Init, KnownWasAsked, Rec
<1> QED
  BY <1>3, <1>4, <1>5, <1>6 DEF Inv

LEMMA Step == Inv /\ [Next]_vars => Inv'
<1> SUFFICES ASSUME Inv, [Next]_vars PROVE Inv'
  OBVIOUS
<1>1. ASSUME NEW i \in Isolates, Request(i) PROVE Inv'
  BY <1>1, RequestCapacityStep, EnsureVolumeStep, CreateVolumeStep,
     VolumeAnswerStep, EnsureInstanceStep, CreateInstanceStep,
     InstanceAnswerStep, EnsureAttachmentStep, AttachStep, AwaitAttachmentStep,
     AwaitRegistrationStep DEF Request
<1>2. ASSUME NEW i \in Isolates, GiveBack(i) PROVE Inv'
  BY <1>2, DrainNodeStep, MarkUnknownStep, DrainSteps, AwaitSteps DEF GiveBack
<1>3. ASSUME NEW i \in Isolates, Dies(i) PROVE Inv'
  BY <1>3, DiesStep
<1>4. ASSUME NEW a \in asked, Serve(a) \/ Lose(a) PROVE Inv'
  BY <1>4, ServeStep
<1>5. ASSUME Register \/ Heartbeat \/ Services \/ UNCHANGED vars PROVE Inv'
  BY <1>5, PoolStep
<1> QED
  BY <1>1, <1>2, <1>3, <1>4, <1>5 DEF Next

(* The conjunction is an invariant of the provisioner.                     *)
THEOREM Invariance == Spec => []Inv
  BY Initially, Step, PTL DEF Spec

(* provisionCapacity and drainNode keep the record and the calls that work *)
(* on it well-formed.                                                      *)
THEOREM TypeCorrect == Spec => []TypeOK
<1>1. Inv => TypeOK
  BY DEF Inv
<1> QED
  BY <1>1, Invariance, PTL

(* However many isolates take a request, die, lose answers or drain its    *)
(* node at any of its steps, ensureVolume asks for one volume and          *)
(* ensureInstance for one VM, unless a drain saved the record as it was    *)
(* before the attempt.                                                     *)
THEOREM CreatedOnce == Spec => []NoDuplicates
<1>1. Inv => NoDuplicates
  BY DEF Inv
<1> QED
  BY <1>1, Invariance, PTL
-----------------------------------------------------------------------------
(* How a node goes: it is drained, its services end, its VM is deleted,    *)
(* its volume is, and the scheduler forgets it.                            *)
Bare == {"removeNode", "saveDeleted"}
Emptied == {"detach", "awaitDetached", "deleteVolume", "awaitVolumeGone"} \cup Bare
Quieted == {"deleteInstance", "awaitInstanceGone"} \cup Emptied
Drained == {"saveDraining", "awaitNoServices"} \cup Quieted
Leaving == node \in {"draining", "removed"}

(* There is one volume and one VM, which all calls know by its id.         *)
Knows(x) == x.volume \in {0, 1} /\ x.instance \in {0, 1}

OneOfEach ==
    /\ volumes \subseteq {1} /\ instances \subseteq {1}
    /\ Knows(record) /\ \A i \in Isolates : Knows(Rec(i))

(* While a create is on its way there is nothing, and no node; and a node  *)
(* that was never there has no services.                                   *)
CreatesBefore ==
    /\ \A a \in asked :
        /\ a.op = "createVolume" =>
             a.id = 1 /\ a.to = 0 /\ volumes = {} /\ node = "none"
        /\ a.op = "createInstance" =>
             a.id = 1 /\ a.to = 0 /\ instances = {} /\ node = "none"
    /\ node # "none" => ids.volume # 0 /\ ids.instance # 0
    /\ node = "none" => ~active

(* What a deletion has come to, and what it asked for, is so for good.     *)
DrainsInOrder ==
    /\ \A i \in Isolates :
        /\ call[i].pc \in Drained => Leaving
        /\ call[i].pc \in Quieted => ~active
        /\ call[i].pc \in Emptied => instances = {}
        /\ call[i].pc \in Bare => volumes = {}
        /\ call[i].pc = "saveDeleted" => node = "removed"
        /\ call[i].pc # "idle" => Rec(i).status # "deleted"
    /\ \A a \in asked :
        /\ a.op = "deleteInstance" => Leaving /\ ~active
        /\ a.op = "deleteVolume" => Leaving /\ instances = {}

(* What is deleted left nothing.                                           *)
DeletedLeftNothing ==
    record.status = "deleted" => node = "removed" /\ NothingLeft

(* While nothing was forgotten.                                            *)
GoneInv == OneOfEach /\ CreatesBefore /\ DrainsInOrder /\ DeletedLeftNothing

(* What the provider, the pool and the asked-for say of a step of a call   *)
(* that becomes c.                                                         *)
MayBecome(c) ==
    /\ Knows(c.rec)
    /\ c.pc \in Drained => node' \in {"draining", "removed"}
    /\ c.pc \in Quieted => ~active
    /\ c.pc \in Emptied => instances = {}
    /\ c.pc \in Bare => volumes = {}
    /\ c.pc = "saveDeleted" => node' = "removed"
    /\ c.pc # "idle" => c.rec.status # "deleted"

NodeOnlyLeaves ==
    \/ node' = node
    \/ node' = "draining" /\ Registered
    \/ node' = "removed" /\ Registered

AsksInOrder ==
    \A a \in asked' : a \in asked \/
        /\ a.op \notin {"createVolume", "createInstance"}
        /\ a.op = "deleteInstance" =>
             node' \in {"draining", "removed"} /\ ~active
        /\ a.op = "deleteVolume" =>
             node' \in {"draining", "removed"} /\ instances = {}

RecordFits ==
    /\ Knows(record')
    /\ record'.status = "deleted" =>
         \/ record' = record
         \/ node' = "removed" /\ volumes = {} /\ instances = {}

(* The step of a call that creates nothing.                                *)
LEMMA CallStep ==
    ASSUME Inv, GoneInv, NEW i \in Isolates, NEW c,
           call' = [call EXCEPT ![i] = c], MayBecome(c),
           UNCHANGED <<volumes, instances, ids, active>>,
           NodeOnlyLeaves, AsksInOrder, RecordFits
    PROVE  GoneInv'
<1>0. /\ call'[i] = c /\ \A j \in Isolates \ {i} : call'[j] = call[j]
  BY DEF Inv, TypeOK
<1>1. OneOfEach'
  BY <1>0 DEF GoneInv, OneOfEach, MayBecome, RecordFits, Rec, Knows
<1>2. CreatesBefore'
  BY DEF GoneInv, CreatesBefore, AsksInOrder, NodeOnlyLeaves, Registered
<1>3. /\ Leaving => Leaving'
      /\ node = "removed" => node' = "removed"
  BY DEF Leaving, NodeOnlyLeaves, Registered
<1>4. DrainsInOrder'
  BY <1>0, <1>3 DEF GoneInv, DrainsInOrder, MayBecome, AsksInOrder, Leaving, Rec
<1>5. DeletedLeftNothing'
  <2>1. SUFFICES ASSUME record'.status = "deleted"
                 PROVE  /\ volumes' = {} /\ instances' = {} /\ node' = "removed"
                        /\ \A a \in asked' :
                              a.op \notin {"createVolume", "createInstance"}
    BY DEF DeletedLeftNothing, NothingLeft, Sent
  <2>2. volumes = {} /\ instances = {} /\ node' = "removed"
    BY <1>3, <2>1 DEF RecordFits, GoneInv, DeletedLeftNothing, NothingLeft
  <2> QED
    BY <1>2, <2>2 DEF CreatesBefore
<1> QED
  BY <1>1, <1>2, <1>4, <1>5 DEF GoneInv

(* A record that a call may work on, and what calls make of it.            *)
Good(x) == x \in Record /\ Knows(x) /\ x.status # "deleted"

Statuses == {"creating", "ready", "draining", "failed", "unknown"}
VolumeStatuses == {"creating", "attaching", "attached", "detaching", "deleted",
                   "unknown"}

LEMMA GoodRecords ==
    ASSUME NEW x, Good(x)
    PROVE  /\ \A s \in Statuses : Good([x EXCEPT !.status = s])
           /\ \A v \in VolumeStatuses :
                 Good(With(x, v)) /\ With(x, v).volume = x.volume
                 /\ With(x, v).instance = x.instance
           /\ Good([x EXCEPT !.volumeTried = TRUE])
           /\ Good([x EXCEPT !.instanceTried = TRUE])
  BY DEF Good, Record, Knows, Statuses, VolumeStatuses, With

LEMMA GoodFound ==
    ASSUME NEW x, Good(x), NEW v \in {1}, 1 \in Ids
    PROVE  Good(Has(x, v)) /\ Good(HasVm(x, v))
  BY DEF Good, Record, Knows, Has, HasVm

(* What is known of a call that runs.                                      *)
LEMMA Known ==
    ASSUME Inv, GoneInv, NEW i \in Isolates
    PROVE  /\ call[i].pc # "idle" => Good(Rec(i))
           /\ call[i].pc \in PastInstance =>
                Rec(i).volume = 1 /\ Rec(i).instance = 1
           /\ Knows(record) /\ volumes \subseteq {1} /\ instances \subseteq {1}
           /\ 1 \in Ids
           /\ Knows(Idle.rec) /\ Idle.pc = "idle"
<1>1. call[i].pc # "idle" => Good(Rec(i))
  BY DEF Inv, TypeOK, Idle, Rec, GoneInv, OneOfEach, DrainsInOrder, Good
<1>2. call[i].pc \in PastInstance => Rec(i).volume # 0 /\ Rec(i).instance # 0
  BY Facts, ProvisionerAssumption DEF Ids
<1>3. /\ Knows(record) /\ volumes \subseteq {1} /\ instances \subseteq {1}
      /\ Knows(Rec(i))
  BY DEF GoneInv, OneOfEach
<1>4. 1 \in Ids
  BY ProvisionerAssumption DEF Ids
<1>5. Knows(Idle.rec) /\ Idle.pc = "idle"
  BY DEF Idle, NoRecord, Fresh, Knows
<1> QED
  BY <1>1, <1>2, <1>3, <1>4, <1>5 DEF Knows

(* A call that is not draining, or no longer, may save any good record.    *)
AsksToAttach ==
    asked' \subseteq asked \cup [op : {"attach", "detach"}, id : Ids,
                               to : Ids \cup {0}]

LEMMA RequestGoesOn ==
    ASSUME Inv, GoneInv, NEW i \in Isolates, NEW pc, pc \notin Drained,
           NEW rec, Good(rec), Goto(i, pc, rec),
           record' = rec \/ record' = record,
           AsksToAttach, UNCHANGED <<volumes, instances, ids, pool>>
    PROVE  GoneInv'
<1> DEFINE c == [pc |-> pc, rec |-> rec]
<1>1. c.pc = pc /\ c.rec = rec /\ call' = [call EXCEPT ![i] = c]
  BY DEF Goto
<1>2. pc \notin Quieted \cup Emptied \cup Bare \cup {"saveDeleted"}
  BY DEF Drained, Quieted, Emptied, Bare
<1>3. Knows(record)
  BY DEF GoneInv, OneOfEach
<1> HIDE DEF c
<1>4. MayBecome(c) /\ RecordFits
  BY <1>1, <1>2, <1>3 DEF MayBecome, RecordFits, Good
<1>5. AsksInOrder /\ NodeOnlyLeaves
  BY DEF AsksToAttach, AsksInOrder, NodeOnlyLeaves, pool
<1> QED
  BY <1>1, <1>4, <1>5, CallStep DEF pool

LEMMA CallReturns ==
    ASSUME Inv, GoneInv, NEW i \in Isolates, Return(i),
           record' = record \/ Good(record'), AsksToAttach, NodeOnlyLeaves,
           UNCHANGED <<volumes, instances, ids, active>>
    PROVE  GoneInv'
<1>1. /\ Knows(record) /\ Knows(Idle.rec) /\ Idle.pc = "idle"
      /\ "idle" \notin Drained
  BY Known DEF Drained, Quieted, Emptied, Bare
<1>2. "idle" \notin Quieted \cup Emptied \cup Bare \cup {"saveDeleted"}
  BY DEF Drained, Quieted, Emptied, Bare
<1>3. MayBecome(Idle) /\ RecordFits
  BY <1>1, <1>2 DEF MayBecome, RecordFits, Good
<1>4. AsksInOrder
  BY DEF AsksToAttach, AsksInOrder
<1> QED
  BY <1>3, <1>4, CallStep DEF Return

LEMMA CallFails ==
    ASSUME Inv, GoneInv, NEW i \in Isolates, NEW rec, Good(rec),
           NEW s \in Statuses, Fail(i, rec, s), AsksToAttach, NodeOnlyLeaves,
           UNCHANGED <<volumes, instances, ids, active>>
    PROVE  GoneInv'
  BY GoodRecords, CallReturns DEF Fail

(* The steps of a request that create nothing.                             *)
LEMMA RequestSteps ==
    ASSUME Inv, GoneInv, NEW i \in Isolates,
           \/ RequestCapacity(i) \/ EnsureVolume(i) \/ VolumeAnswer(i)
           \/ EnsureInstance(i) \/ InstanceAnswer(i) \/ EnsureAttachment(i)
           \/ Attach(i) \/ AwaitAttachment(i) \/ AwaitRegistration(i)
    PROVE  GoneInv'
<1> DEFINE rec == Rec(i)
<1>1. \A pc \in Requesting \cup {"awaitAttachment", "awaitRegistration"} :
        pc \notin Drained
  BY DEF Requesting, Drained, Quieted, Emptied, Bare
<1>2. /\ {"ensureVolume", "createVolume", "ensureInstance", "createInstance",
          "ensureAttachment", "attach"} \subseteq Requesting
      /\ {"failed", "unknown"} \subseteq Statuses /\ "ready" \in Statuses
      /\ {"attaching", "attached", "unknown"} \subseteq VolumeStatuses
  BY DEF Requesting, Statuses, VolumeStatuses
<1>3. /\ UNCHANGED <<volumes, instances, ids, active, node, pool>>
      /\ NodeOnlyLeaves
  BY DEF RequestCapacity, EnsureVolume, VolumeAnswer, EnsureInstance,
     InstanceAnswer, EnsureAttachment, Attach, AwaitAttachment,
     AwaitRegistration, NodeOnlyLeaves, cloud, pool
<1>4. call[i].pc # "idle" => Good(rec)
  BY Known
<1>5. /\ volumes \subseteq {1} /\ instances \subseteq {1} /\ 1 \in Ids
  BY Known
<1>6. CASE RequestCapacity(i)
  <2> DEFINE r == IF record = NoRecord THEN NewRecord ELSE record
  <2>1. Good(r)
    <3>1. record \in Record \cup {NoRecord} /\ Knows(record)
      BY Known DEF Inv, TypeOK
    <3>2. record.status # "deleted"
      BY <1>6 DEF RequestCapacity
    <3> QED
      BY <3>1, <3>2 DEF Good, NewRecord, Fresh, Record, Knows
  <2> HIDE DEF r
  <2>2. Save(i, "ensureVolume", r) /\ asked' = asked
    BY <1>6 DEF RequestCapacity, r, cloud
  <2> QED
    BY <1>1, <1>2, <1>3, <2>1, <2>2, RequestGoesOn DEF Save, AsksToAttach
<1>7. CASE ~RequestCapacity(i)
  <2>1. call[i].pc # "idle" /\ Good(rec)
    BY <1>4, <1>7 DEF EnsureVolume, VolumeAnswer, EnsureInstance,
       InstanceAnswer, EnsureAttachment, Attach, AwaitAttachment,
       AwaitRegistration, At
  <2>2. \A v \in volumes : Good(Has(rec, v))
    BY <1>5, <2>1, GoodFound
  <2>3. \A v \in instances : Good(HasVm(rec, v))
    BY <1>5, <2>1, GoodFound
  <2>4. /\ Good([rec EXCEPT !.volumeTried = TRUE])
        /\ Good([rec EXCEPT !.instanceTried = TRUE])
        /\ \A v \in {"attaching", "attached", "unknown"} : Good(With(rec, v))
        /\ Good([rec EXCEPT !.status = "ready"])
    BY <1>2, <2>1, GoodRecords
  <2>5. AsksToAttach
    <3>1. CASE Attach(i)
      <4>1. rec.volume \in Ids /\ rec.instance \in Ids
        BY <3>1, PastStep DEF Attach, At, PastInstance
      <4> QED
        BY <3>1, <4>1 DEF Attach, Ask, AsksToAttach
    <3>2. CASE ~Attach(i)
      BY <1>7, <3>2 DEF EnsureVolume, VolumeAnswer, EnsureInstance,
         InstanceAnswer, EnsureAttachment, AwaitAttachment,
         AwaitRegistration, cloud, AsksToAttach
    <3> QED
      BY <3>1, <3>2
  <2>6. ASSUME NEW pc \in Requesting \cup {"awaitAttachment", "awaitRegistration"},
               NEW x, Good(x), Save(i, pc, x) \/ (Goto(i, pc, x) /\ UNCHANGED record)
        PROVE  GoneInv'
    BY <1>1, <1>3, <2>5, <2>6, RequestGoesOn DEF Save
  <2>7. ASSUME NEW x, Good(x), NEW t \in {"failed", "unknown"}, Fail(i, x, t)
        PROVE  GoneInv'
    BY <1>2, <1>3, <2>5, <2>7, CallFails
  <2>8. CASE EnsureVolume(i) \/ VolumeAnswer(i)
    <3>1. Found(rec.volume, volumes) \subseteq volumes
      BY DEF Found
    <3>2. [rec EXCEPT !.volumeStatus = "unknown"] = With(rec, "unknown")
      BY DEF With
    <3> QED
      BY <1>2, <2>1, <2>2, <2>4, <2>6, <2>7, <2>8, <3>1, <3>2
      DEF EnsureVolume, VolumeAnswer
  <2>9. CASE EnsureInstance(i) \/ InstanceAnswer(i)
    <3>1. Found(rec.instance, instances) \subseteq instances
      BY DEF Found
    <3> QED
      BY <1>2, <2>1, <2>3, <2>4, <2>6, <2>7, <2>9, <3>1
      DEF EnsureInstance, InstanceAnswer
  <2>10. CASE EnsureAttachment(i) \/ Attach(i) \/ AwaitAttachment(i)
    BY <1>2, <2>1, <2>4, <2>6, <2>7, <2>10
    DEF EnsureAttachment, Attach, AwaitAttachment
  <2>11. CASE AwaitRegistration(i)
    <3>1. CASE record' = [rec EXCEPT !.status = "ready"] /\ Return(i)
      BY <1>3, <2>4, <2>5, <3>1, CallReturns
    <3> QED
      BY <2>1, <2>7, <2>11, <3>1 DEF AwaitRegistration
  <2> QED
    BY <1>7, <2>8, <2>9, <2>10, <2>11
<1> QED
  BY <1>6, <1>7

(* The first, and only, create of a volume, or of a VM.                    *)
LEMMA CreateSteps ==
    ASSUME Inv, GoneInv, forgotten = {}, NEW i \in Isolates,
           CreateVolume(i) \/ CreateInstance(i)
    PROVE  GoneInv'
<1>1. /\ call[i].pc # "idle" /\ Good(Rec(i)) /\ Knows(record)
      /\ ids.volume \in Nat /\ ids.instance \in Nat
      /\ DOMAIN ids = {"volume", "instance"}
  BY Known DEF CreateVolume, CreateInstance, At, Inv, TypeOK, Kinds
<1>2. UNCHANGED <<record, volumes, instances, node, active>>
  BY DEF CreateVolume, CreateInstance, pool
<1>3. PICK pc \in {"volumeAnswer", "instanceAnswer"} :
        call' = [call EXCEPT ![i] = [pc |-> pc, rec |-> Rec(i)]]
  BY DEF CreateVolume, CreateInstance, Goto
<1>4. /\ \A j \in Isolates \ {i} : call'[j] = call[j]
      /\ call'[i].pc = pc /\ call'[i].rec = Rec(i)
  BY <1>3 DEF Inv, TypeOK
<1>5. pc \notin Drained \cup Quieted \cup Emptied \cup Bare \cup {"saveDeleted"}
  BY DEF Drained, Quieted, Emptied, Bare
<1>6. \A a \in asked' : a \in asked \/
        \/ /\ a.op = "createVolume" /\ a.id = 1 /\ a.to = 0
           /\ volumes = {} /\ ids.volume = 0
        \/ /\ a.op = "createInstance" /\ a.id = 1 /\ a.to = 0
           /\ instances = {} /\ ids.instance = 0
  <2>1. CASE CreateVolume(i)
    <3>1. ids.volume = 0 /\ volumes = {}
      BY <2>1 DEF CreateVolume, At, Inv, CreatesFirst, KnownWasAsked
    <3> QED
      BY <2>1, <3>1 DEF CreateVolume, Ask
  <2>2. CASE CreateInstance(i)
    <3>1. ids.instance = 0 /\ instances = {}
      BY <2>2 DEF CreateInstance, At, Inv, CreatesFirst, KnownWasAsked
    <3> QED
      BY <2>2, <3>1 DEF CreateInstance, Ask
  <2> QED
    BY <2>1, <2>2
<1>7. ids.volume # 0 => ids'.volume # 0
  BY <1>1 DEF CreateVolume, CreateInstance
<1>8. ids.instance # 0 => ids'.instance # 0
  BY <1>1 DEF CreateVolume, CreateInstance
<1>9. OneOfEach'
  BY <1>1, <1>2, <1>4 DEF GoneInv, OneOfEach, Knows, Good, Rec
<1>10. CreatesBefore'
  BY <1>2, <1>6, <1>7, <1>8 DEF GoneInv, CreatesBefore
<1>11. DrainsInOrder'
  BY <1>1, <1>2, <1>4, <1>5, <1>6 DEF GoneInv, DrainsInOrder, Leaving, Good, Rec
<1>12. DeletedLeftNothing'
  BY <1>2, <1>10
     DEF GoneInv, DeletedLeftNothing, NothingLeft, CreatesBefore, Sent
<1> QED
  BY <1>9, <1>10, <1>11, <1>12 DEF GoneInv
-----------------------------------------------------------------------------
(* A drain begins, or declares the record unknown.                         *)
LEMMA DrainBegins ==
    ASSUME Inv, GoneInv, NEW i \in Isolates, DrainNode(i) \/ MarkUnknown(i)
    PROVE  GoneInv'
<1>1. /\ UNCHANGED <<volumes, instances, ids, active, pool>>
      /\ NodeOnlyLeaves /\ AsksToAttach
  BY DEF DrainNode, MarkUnknown, cloud, pool, NodeOnlyLeaves, AsksToAttach
<1>2. CASE DrainNode(i)
  <2>1. record \in Record \cup {NoRecord} /\ Knows(record)
    BY Known DEF Inv, TypeOK
  <2>2. Good(record)
    BY <1>2, <2>1 DEF DrainNode, Good, NoRecord, Fresh
  <2>3. PICK pc \in {"drain", "markUnknown"} :
          Goto(i, pc, record) /\ UNCHANGED record
    BY <1>2 DEF DrainNode
  <2>4. pc \notin Drained
    BY DEF Drained, Quieted, Emptied, Bare
  <2> QED
    BY <1>1, <2>2, <2>3, <2>4, RequestGoesOn
<1>3. CASE MarkUnknown(i)
  <2>1. Good(Rec(i))
    BY <1>3, Known DEF MarkUnknown, At
  <2> QED
    BY <1>1, <1>3, <2>1, CallFails DEF MarkUnknown, Statuses
<1> QED
  BY <1>2, <1>3

(* A drain goes on with its record and in its order.                       *)
LEMMA DrainMovesOn ==
    ASSUME Inv, GoneInv, NEW i \in Isolates, NEW pc, NEW rec, Good(rec),
           Goto(i, pc, rec), record' = rec \/ record' = record,
           UNCHANGED <<volumes, instances, ids, active>>,
           NodeOnlyLeaves, AsksInOrder,
           node' \in {"draining", "removed"},
           pc \in Quieted => ~active,
           pc \in Emptied => instances = {},
           pc \in Bare => volumes = {},
           pc = "saveDeleted" => node' = "removed"
    PROVE  GoneInv'
<1> DEFINE c == [pc |-> pc, rec |-> rec]
<1>1. c.pc = pc /\ c.rec = rec /\ call' = [call EXCEPT ![i] = c]
  BY DEF Goto
<1>2. Knows(record)
  BY Known
<1> HIDE DEF c
<1>3. MayBecome(c) /\ RecordFits
  BY <1>1, <1>2 DEF MayBecome, RecordFits, Good
<1> QED
  BY <1>1, <1>3, CallStep

LEMMA DrainsOn ==
    ASSUME Inv, GoneInv, NEW i \in Isolates,
           \/ Drain(i) \/ SaveDraining(i) \/ AwaitNoServices(i)
           \/ DeleteInstance(i) \/ AwaitInstanceGone(i) \/ Detach(i)
           \/ AwaitDetached(i) \/ DeleteVolume(i) \/ AwaitVolumeGone(i)
           \/ RemoveNode(i)
    PROVE  GoneInv'
<1> DEFINE rec == Rec(i)
<1>1. call[i].pc \in PastInstance
  BY DEF Drain, SaveDraining, AwaitNoServices, DeleteInstance,
         AwaitInstanceGone, Detach, AwaitDetached, DeleteVolume, AwaitVolumeGone,
         RemoveNode, Await, At, PastInstance, Draining, Waiting
<1>2. /\ Good(rec) /\ rec.volume = 1 /\ rec.instance = 1 /\ 1 \in Ids
      /\ volumes \subseteq {1} /\ instances \subseteq {1}
  BY <1>1, Known, PastStep
<1>3. /\ Good([rec EXCEPT !.status = "draining"])
      /\ Good(With(rec, "detaching")) /\ Good(With(rec, "deleted"))
  BY <1>2, GoodRecords DEF Statuses, VolumeStatuses
<1>4. /\ call[i].pc \in Drained => node \in {"draining", "removed"}
      /\ call[i].pc \in Quieted => ~active
      /\ call[i].pc \in Emptied => instances = {}
      /\ call[i].pc \in Bare => volumes = {}
  BY DEF GoneInv, DrainsInOrder, Leaving
<1>5. /\ UNCHANGED <<volumes, instances, ids, active>> /\ NodeOnlyLeaves
  BY DEF Drain, SaveDraining, AwaitNoServices, DeleteInstance,
         AwaitInstanceGone, Detach, AwaitDetached, DeleteVolume, AwaitVolumeGone,
         RemoveNode, Await, NodeOnlyLeaves, Registered, cloud, pool
<1>6. Fail(i, rec, "unknown") /\ AsksToAttach => GoneInv'
  BY <1>2, <1>5, CallFails DEF Statuses
<1>7. asked' = asked => AsksToAttach /\ AsksInOrder
  BY DEF AsksToAttach, AsksInOrder
<1> USE DEF Drained, Quieted, Emptied, Bare
<1>10. CASE Drain(i)
  <2>1. CASE Return(i)
    BY <1>5, <1>7, <1>10, <2>1, CallReturns DEF Drain, cloud
  <2>2. CASE node' = "draining" /\ Goto(i, "saveDraining", rec)
    BY <1>2, <1>5, <1>7, <1>10, <2>2, DrainMovesOn DEF Drain, cloud
  <2> QED
    BY <1>10, <2>1, <2>2 DEF Drain
<1>11. CASE SaveDraining(i)
  BY <1>3, <1>4, <1>5, <1>7, <1>11, DrainMovesOn
  DEF SaveDraining, Save, At, cloud, pool
<1>12. CASE AwaitNoServices(i)
  BY <1>2, <1>4, <1>5, <1>6, <1>7, <1>12, DrainMovesOn
  DEF AwaitNoServices, Await, Save, At, cloud, pool
<1>13. CASE DeleteInstance(i)
  <2>1. node' = node /\ node \in {"draining", "removed"} /\ ~active
    BY <1>4, <1>13 DEF DeleteInstance, At, pool
  <2>2. AsksInOrder
    BY <2>1, <1>13 DEF DeleteInstance, Ask, AsksInOrder
  <2>3. CASE rec.instance \in instances
    BY <1>2, <1>5, <1>13, <2>1, <2>2, <2>3, DrainMovesOn DEF DeleteInstance, Save
  <2>4. CASE rec.instance \notin instances
    BY <1>2, <1>5, <1>13, <2>1, <2>2, <2>4, DrainMovesOn DEF DeleteInstance, Save
  <2> QED
    BY <2>3, <2>4
<1>14. CASE AwaitInstanceGone(i)
  BY <1>2, <1>4, <1>5, <1>6, <1>7, <1>14, DrainMovesOn
  DEF AwaitInstanceGone, Await, Save, At, cloud, pool
<1>15. CASE Detach(i)
  <2>1. /\ node' = node /\ node \in {"draining", "removed"} /\ ~active
        /\ instances = {}
    BY <1>4, <1>15 DEF Detach, At, pool
  <2>2. AsksInOrder /\ AsksToAttach
    BY <1>2, <1>15 DEF Detach, Ask, AsksInOrder, AsksToAttach
  <2>3. CASE rec.volume \notin volumes /\ Save(i, "removeNode", With(rec, "deleted"))
    BY <1>2, <1>3, <1>5, <2>1, <2>2, <2>3, DrainMovesOn DEF Save
  <2>4. ASSUME NEW pc \in {"deleteVolume", "awaitDetached"},
               Save(i, pc, With(rec, "detaching"))
        PROVE  GoneInv'
    BY <1>3, <1>5, <2>1, <2>2, <2>4, DrainMovesOn DEF Save
  <2>5. CASE Fail(i, rec, "unknown")
    BY <1>6, <2>2, <2>5
  <2> QED
    BY <1>15, <2>3, <2>4, <2>5 DEF Detach
<1>16. CASE AwaitDetached(i)
  <2>1. /\ node' = node /\ node \in {"draining", "removed"} /\ ~active
        /\ instances = {} /\ asked' = asked
    BY <1>4, <1>16 DEF AwaitDetached, Await, At, cloud, pool
  <2>2. CASE Fail(i, rec, "unknown")
    BY <1>6, <1>7, <2>1, <2>2
  <2>3. CASE rec.volume \in volumes /\ Save(i, "deleteVolume", rec)
    BY <1>2, <1>5, <1>7, <2>1, <2>3, DrainMovesOn DEF Save
  <2>4. CASE rec.volume \notin volumes /\ Save(i, "removeNode", rec)
    BY <1>2, <1>5, <1>7, <2>1, <2>4, DrainMovesOn DEF Save
  <2> QED
    BY <1>16, <2>2, <2>3, <2>4 DEF AwaitDetached, Await
<1>17. CASE DeleteVolume(i)
  <2>1. /\ node' = node /\ node \in {"draining", "removed"} /\ ~active
        /\ instances = {}
    BY <1>4, <1>17 DEF DeleteVolume, At, pool
  <2>2. AsksInOrder
    BY <2>1, <1>17 DEF DeleteVolume, Ask, AsksInOrder
  <2> QED
    BY <1>2, <1>5, <1>17, <2>1, <2>2, DrainMovesOn DEF DeleteVolume, Save
<1>18. CASE AwaitVolumeGone(i)
  <2>1. /\ node' = node /\ node \in {"draining", "removed"} /\ ~active
        /\ instances = {} /\ asked' = asked
    BY <1>4, <1>18 DEF AwaitVolumeGone, Await, At, cloud, pool
  <2>2. CASE Fail(i, rec, "unknown")
    BY <1>6, <1>7, <2>1, <2>2
  <2>3. CASE rec.volume \notin volumes /\ Save(i, "removeNode", With(rec, "deleted"))
    BY <1>2, <1>3, <1>5, <1>7, <2>1, <2>3, DrainMovesOn DEF Save
  <2> QED
    BY <1>18, <2>2, <2>3 DEF AwaitVolumeGone, Await
<1>19. CASE RemoveNode(i)
  <2>1. /\ ~active /\ instances = {} /\ volumes = {} /\ asked' = asked
    BY <1>4, <1>19 DEF RemoveNode, At, cloud
  <2>2. CASE Fail(i, rec, "unknown")
    BY <1>6, <1>7, <2>1, <2>2
  <2>3. CASE node' = "removed" /\ Goto(i, "saveDeleted", rec) /\ UNCHANGED record
    BY <1>2, <1>5, <1>7, <2>1, <2>3, DrainMovesOn
  <2> QED
    BY <1>19, <2>2, <2>3 DEF RemoveNode
<1> QED
  BY <1>10, <1>11, <1>12, <1>13, <1>14, <1>15, <1>16, <1>17, <1>18, <1>19

(* The record ends when nothing is left.                                   *)
LEMMA DrainEnds ==
    ASSUME Inv, GoneInv, NEW i \in Isolates, SaveDeleted(i)
    PROVE  GoneInv'
<1>1. /\ call[i].pc = "saveDeleted" /\ call[i].pc # "idle" /\ Good(Rec(i))
  BY Known DEF SaveDeleted, At
<1>2. /\ node = "removed" /\ volumes = {} /\ instances = {}
  BY <1>1 DEF GoneInv, DrainsInOrder, Emptied, Bare
<1>3. /\ UNCHANGED <<volumes, instances, ids, active, node, asked>>
      /\ call' = [call EXCEPT ![i] = Idle]
      /\ record' = [Rec(i) EXCEPT !.status = "deleted", !.volumeStatus = "deleted"]
  BY DEF SaveDeleted, Return, cloud, pool
<1>4. Knows(record')
  BY <1>1, <1>3 DEF Good, Knows, Record
<1>5. "idle" \notin Drained \cup Quieted \cup Emptied \cup Bare \cup {"saveDeleted"}
  BY DEF Drained, Quieted, Emptied, Bare
<1>6. MayBecome(Idle)
  BY <1>5, Known DEF MayBecome
<1>7. RecordFits /\ NodeOnlyLeaves /\ AsksInOrder
  BY <1>2, <1>3, <1>4 DEF RecordFits, NodeOnlyLeaves, AsksInOrder
<1> QED
  BY <1>3, <1>6, <1>7, CallStep

LEMMA DiesInOrder ==
    ASSUME Inv, GoneInv, NEW i \in Isolates, Dies(i)
    PROVE  GoneInv'
<1>1. call[i].pc # "idle"
  BY DEF Dies, Inv, TypeOK, Working, Idle, Requesting, Draining, Waiting
<1>2. Good([Rec(i) EXCEPT !.status = "unknown"])
  BY <1>1, Known, GoodRecords DEF Statuses
<1>3. /\ UNCHANGED <<volumes, instances, ids, active>>
      /\ NodeOnlyLeaves /\ AsksToAttach
  BY DEF Dies, cloud, pool, NodeOnlyLeaves, AsksToAttach
<1> QED
  BY <1>2, <1>3, CallReturns DEF Dies

(* The provider makes the one of each, and deletes what is drained.        *)
LEMMA ServesInOrder ==
    ASSUME Inv, GoneInv, NEW a \in asked, Serve(a) \/ Lose(a)
    PROVE  GoneInv'
<1>1. /\ UNCHANGED <<record, call, ids, node, active>>
      /\ asked' = asked \ {a}
  BY DEF Serve, Lose, pool
<1>2. \A b \in asked :
        /\ b = [op |-> b.op, id |-> b.id, to |-> b.to]
        /\ b.op \in {"createVolume", "createInstance"} => b.id = 1 /\ b.to = 0
  BY DEF Inv, TypeOK, GoneInv, CreatesBefore
<1>3. \A b \in asked' : b.op \in {"createVolume", "createInstance"} => b.op # a.op
  BY <1>1, <1>2
<1>4. /\ \/ volumes' \subseteq volumes
         \/ a.op = "createVolume" /\ volumes' = volumes \cup {a.id}
      /\ \/ instances' \subseteq instances
         \/ a.op = "createInstance" /\ instances' = instances \cup {a.id}
  BY DEF Serve, Lose
<1>5. /\ a.op = "createVolume" => a.id = 1 /\ node = "none"
      /\ a.op = "createInstance" => a.id = 1 /\ node = "none"
  BY DEF GoneInv, CreatesBefore
<1>6. OneOfEach'
  BY <1>1, <1>4, <1>5 DEF GoneInv, OneOfEach, Rec
<1>7. CreatesBefore'
  BY <1>1, <1>3, <1>4 DEF GoneInv, CreatesBefore
<1>8. DrainsInOrder'
  <2>1. /\ Leaving => instances' \subseteq instances /\ volumes' \subseteq volumes
        /\ Leaving' = Leaving
    BY <1>1, <1>4, <1>5 DEF Leaving
  <2>2. \A j \in Isolates : call[j].pc \in Quieted \cup Emptied \cup Bare
                             => call[j].pc \in Drained
    BY DEF Drained, Quieted, Emptied, Bare
  <2> QED
    BY <1>1, <2>1, <2>2 DEF GoneInv, DrainsInOrder, Rec
<1>9. DeletedLeftNothing'
  BY <1>1, <1>4, <1>5 DEF GoneInv, DeletedLeftNothing, NothingLeft, Sent
<1> QED
  BY <1>6, <1>7, <1>8, <1>9 DEF GoneInv

(* A node comes once, serves until it is drained, and does not come back.  *)
LEMMA PoolInOrder ==
    ASSUME Inv, GoneInv, Register \/ Heartbeat \/ Services \/ UNCHANGED vars
    PROVE  GoneInv'
<1>1. UNCHANGED <<record, call, volumes, instances, asked, ids>>
  BY DEF Register, Heartbeat, Services, vars, cloud
<1>2. OneOfEach'
  BY <1>1 DEF GoneInv, OneOfEach, Rec
<1>3. active \in BOOLEAN
  BY DEF Inv, TypeOK
<1>4. CASE Register
  <2>1. node = "none" /\ node' = "ready" /\ volumes # {} /\ instances # {}
        /\ active' = active
    BY <1>4 DEF Register
  <2>2. CreatesBefore'
    BY <1>1, <2>1 DEF GoneInv, CreatesBefore, Inv, KnownWasAsked
  <2>3. DrainsInOrder' /\ DeletedLeftNothing'
    BY <1>1, <2>1 DEF GoneInv, DrainsInOrder, DeletedLeftNothing, NothingLeft,
       Leaving, Drained, Quieted, Emptied, Rec
  <2> QED
    BY <1>2, <2>2, <2>3 DEF GoneInv
<1>5. CASE Heartbeat \/ UNCHANGED vars
  <2>1. /\ active' = active
        /\ node' = node \/ (node = "ready" /\ node' = "draining")
    BY <1>5 DEF Heartbeat, vars, pool
  <2> QED
    BY <1>1, <1>2, <2>1 DEF GoneInv, CreatesBefore, DrainsInOrder,
       DeletedLeftNothing, NothingLeft, Leaving, Sent, Rec
<1>6. CASE Services
  <2>1. node' = node /\ (active' => node = "ready")
    BY <1>6 DEF Services
  <2> QED
    BY <1>1, <1>2, <2>1 DEF GoneInv, CreatesBefore, DrainsInOrder,
       DeletedLeftNothing, NothingLeft, Leaving, Drained, Sent, Rec
<1> QED
  BY <1>4, <1>5, <1>6

LEMMA GoneInitially == Init => GoneInv
<1> SUFFICES ASSUME Init PROVE GoneInv
  OBVIOUS
<1>1. /\ record = NoRecord /\ \A i \in Isolates : call[i] = Idle
      /\ Idle.pc = "idle" /\ Idle.rec = NoRecord
      /\ NoRecord.volume = 0 /\ NoRecord.instance = 0 /\ NoRecord.status = "none"
      /\ "idle" \notin Drained \cup Quieted \cup Emptied \cup Bare
  BY DEF Init, Idle, NoRecord, Fresh, Drained, Quieted, Emptied, Bare
<1>2. OneOfEach /\ CreatesBefore
  BY <1>1 DEF Init, OneOfEach, CreatesBefore, Knows, Rec
<1>3. DrainsInOrder /\ DeletedLeftNothing
  BY <1>1 DEF Init, DrainsInOrder, DeletedLeftNothing
<1> QED
  BY <1>2, <1>3 DEF GoneInv

LEMMA GoneStep ==
    Inv /\ GoneInv /\ forgotten = {} /\ [Next]_vars => GoneInv'
<1> SUFFICES ASSUME Inv, GoneInv, forgotten = {}, [Next]_vars PROVE GoneInv'
  OBVIOUS
<1>1. ASSUME NEW i \in Isolates, Request(i) PROVE GoneInv'
  BY <1>1, RequestSteps, CreateSteps DEF Request
<1>2. ASSUME NEW i \in Isolates, GiveBack(i) PROVE GoneInv'
  BY <1>2, DrainBegins, DrainsOn, DrainEnds DEF GiveBack
<1>3. ASSUME NEW i \in Isolates, Dies(i) PROVE GoneInv'
  BY <1>3, DiesInOrder
<1>4. ASSUME NEW a \in asked, Serve(a) \/ Lose(a) PROVE GoneInv'
  BY <1>4, ServesInOrder
<1>5. ASSUME Register \/ Heartbeat \/ Services \/ UNCHANGED vars PROVE GoneInv'
  BY <1>5, PoolInOrder
<1> QED
  BY <1>1, <1>2, <1>3, <1>4, <1>5 DEF Next
-----------------------------------------------------------------------------
(* What holds of a node that leaves the pool whatever was forgotten.       *)
LeavesInOrder ==
    /\ record.status = "deleted" => node = "removed"
    /\ \A i \in Isolates :
        /\ call[i].pc \in Drained => Leaving
        /\ call[i].pc \in Quieted => ~active
        /\ call[i].pc = "saveDeleted" => node = "removed"
        /\ call[i].pc # "idle" => Rec(i).status # "deleted"
    /\ \A a \in asked : a.op = "deleteInstance" => Leaving /\ ~active

AsksWhenQuiet ==
    \A a \in asked' : a \in asked \/
        (a.op = "deleteInstance" => node' \in {"draining", "removed"} /\ ~active)

LEMMA CallLeaves ==
    ASSUME Inv, LeavesInOrder, NEW i \in Isolates, NEW c,
           call' = [call EXCEPT ![i] = c],
           c.pc \in Drained => node' \in {"draining", "removed"},
           c.pc \in Quieted => ~active,
           c.pc = "saveDeleted" => node' = "removed",
           c.pc # "idle" => c.rec.status # "deleted",
           record'.status = "deleted" => record' = record \/ node' = "removed",
           active' = active, NodeOnlyLeaves, AsksWhenQuiet
    PROVE  LeavesInOrder'
<1>0. /\ call'[i] = c /\ \A j \in Isolates \ {i} : call'[j] = call[j]
  BY DEF Inv, TypeOK
<1>1. /\ Leaving => Leaving'
      /\ node = "removed" => node' = "removed"
  BY DEF Leaving, NodeOnlyLeaves, Registered
<1> QED
  BY <1>0, <1>1 DEF LeavesInOrder, AsksWhenQuiet, Leaving, Rec

(* A record that is there and not deleted.                                 *)
Live(x) == x \in Record /\ x.status # "deleted"

LEMMA LiveRecords ==
    ASSUME NEW x, Live(x)
    PROVE  /\ \A s : s # "deleted" => [x EXCEPT !.status = s].status # "deleted"
           /\ \A v : With(x, v).status # "deleted"
           /\ \A v, s : s # "deleted" =>
                 [With(x, v) EXCEPT !.status = s].status # "deleted"
           /\ [x EXCEPT !.volumeTried = TRUE].status # "deleted"
           /\ [x EXCEPT !.instanceTried = TRUE].status # "deleted"
           /\ \A v : Has(x, v).status # "deleted"
           /\ \A v : HasVm(x, v).status # "deleted"
  BY DEF Live, Record, With, Has, HasVm

LEMMA LiveCalls ==
    ASSUME Inv, LeavesInOrder, NEW i \in Isolates
    PROVE  call[i].pc # "idle" => Live(Rec(i))
  BY DEF Inv, TypeOK, Idle, Rec, LeavesInOrder, Live

(* A request comes to no place of a drain, and asks to delete nothing.     *)
LEMMA RequestLeaves ==
    ASSUME Inv, LeavesInOrder, NEW i \in Isolates, Request(i)
    PROVE  LeavesInOrder'
<1> DEFINE rec == Rec(i)
<1>1. \A pc \in Requesting \cup {"awaitAttachment", "awaitRegistration", "idle"} :
        pc \notin Drained /\ pc \notin Quieted /\ pc # "saveDeleted"
  BY DEF Requesting, Drained, Quieted, Emptied, Bare
<1>2. active' = active /\ NodeOnlyLeaves
  BY DEF Request, RequestCapacity, EnsureVolume, CreateVolume, VolumeAnswer,
     EnsureInstance, CreateInstance, InstanceAnswer, EnsureAttachment, Attach,
     AwaitAttachment, AwaitRegistration, NodeOnlyLeaves, pool
<1>3. AsksWhenQuiet
  BY DEF Request, RequestCapacity, EnsureVolume, CreateVolume, VolumeAnswer,
     EnsureInstance, CreateInstance, InstanceAnswer, EnsureAttachment, Attach,
     AwaitAttachment, AwaitRegistration, Ask, AsksWhenQuiet, cloud
<1>4. ASSUME NEW pc \in Requesting \cup {"awaitAttachment", "awaitRegistration"},
             NEW x, x.status # "deleted", Goto(i, pc, x),
             record' = x \/ record' = record
      PROVE  LeavesInOrder'
  <2> DEFINE c == [pc |-> pc, rec |-> x]
  <2>1. c.pc = pc /\ c.rec = x /\ call' = [call EXCEPT ![i] = c]
    BY <1>4 DEF Goto
  <2> HIDE DEF c
  <2> QED
    BY <1>1, <1>2, <1>3, <1>4, <2>1, CallLeaves
<1>5. ASSUME Return(i), record' = record \/ record'.status # "deleted"
      PROVE  LeavesInOrder'
  BY <1>1, <1>2, <1>3, <1>5, CallLeaves DEF Return, Idle
<1>6. ASSUME NEW x, NEW t, Fail(i, x, t), [x EXCEPT !.status = t].status # "deleted"
      PROVE  LeavesInOrder'
  BY <1>5, <1>6 DEF Fail
<1>7. {"ensureVolume", "createVolume", "volumeAnswer", "ensureInstance",
       "createInstance", "instanceAnswer", "ensureAttachment", "attach"}
        \subseteq Requesting
  BY DEF Requesting
<1>8. CASE RequestCapacity(i)
  <2> DEFINE r == IF record = NoRecord THEN NewRecord ELSE record
  <2>1. r.status # "deleted"
    BY <1>8 DEF RequestCapacity, NewRecord, Fresh
  <2>2. Save(i, "ensureVolume", r)
    BY <1>8 DEF RequestCapacity
  <2> QED
    BY <1>4, <1>7, <2>1, <2>2 DEF Save
<1>9. ASSUME call[i].pc # "idle" PROVE Live(rec)
  BY <1>9, LiveCalls
<1>10. ASSUME NEW pc \in Requesting \cup {"awaitAttachment", "awaitRegistration"},
              NEW x, x.status # "deleted", Save(i, pc, x)
       PROVE  LeavesInOrder'
  BY <1>4, <1>10 DEF Save
<1>11. CASE EnsureVolume(i) \/ CreateVolume(i) \/ VolumeAnswer(i)
  <2>1. Live(rec) /\ rec.status # "deleted"
    BY <1>9, <1>11 DEF EnsureVolume, CreateVolume, VolumeAnswer, At, Live
  <2>2. \A v : Has(rec, v).status # "deleted"
    BY <2>1, LiveRecords
  <2>3. /\ [rec EXCEPT !.volumeTried = TRUE].status # "deleted"
        /\ [rec EXCEPT !.status = "unknown"].status # "deleted"
        /\ [rec EXCEPT !.status = "failed"].status # "deleted"
        /\ [[rec EXCEPT !.volumeStatus = "unknown"]
              EXCEPT !.status = "unknown"].status # "deleted"
    BY <2>1 DEF Live, Record
  <2>4. CASE EnsureVolume(i)
    <3>1. CASE \E v : Save(i, "ensureInstance", Has(rec, v))
      BY <1>7, <1>10, <2>2, <3>1
    <3>2. CASE Save(i, "createVolume", [rec EXCEPT !.volumeTried = TRUE])
      BY <1>7, <1>10, <2>3, <3>2
    <3>3. CASE Fail(i, rec, "unknown")
      BY <1>6, <2>3, <3>3
    <3> QED
      BY <2>4, <3>1, <3>2, <3>3 DEF EnsureVolume
  <2>5. CASE CreateVolume(i)
    BY <1>4, <1>7, <2>1, <2>5 DEF CreateVolume
  <2>6. CASE VolumeAnswer(i)
    <3>1. CASE \E v : Save(i, "ensureInstance", Has(rec, v))
      BY <1>7, <1>10, <2>2, <3>1
    <3>2. CASE Fail(i, rec, "failed")
      BY <1>6, <2>3, <3>2
    <3>3. CASE Fail(i, [rec EXCEPT !.volumeStatus = "unknown"], "unknown")
      BY <1>6, <2>3, <3>3
    <3> QED
      BY <2>6, <3>1, <3>2, <3>3 DEF VolumeAnswer
  <2> QED
    BY <1>11, <2>4, <2>5, <2>6
<1>12. CASE EnsureInstance(i) \/ CreateInstance(i) \/ InstanceAnswer(i)
  <2>1. Live(rec) /\ rec.status # "deleted"
    BY <1>9, <1>12 DEF EnsureInstance, CreateInstance, InstanceAnswer, At, Live
  <2>2. \A v : HasVm(rec, v).status # "deleted"
    BY <2>1, LiveRecords
  <2>3. /\ [rec EXCEPT !.instanceTried = TRUE].status # "deleted"
        /\ [rec EXCEPT !.status = "unknown"].status # "deleted"
        /\ [rec EXCEPT !.status = "failed"].status # "deleted"
    BY <2>1 DEF Live, Record
  <2>4. CASE EnsureInstance(i)
    <3>1. CASE \E v : Save(i, "ensureAttachment", HasVm(rec, v))
      BY <1>7, <1>10, <2>2, <3>1
    <3>2. CASE Save(i, "createInstance", [rec EXCEPT !.instanceTried = TRUE])
      BY <1>7, <1>10, <2>3, <3>2
    <3>3. CASE Fail(i, rec, "unknown")
      BY <1>6, <2>3, <3>3
    <3> QED
      BY <2>4, <3>1, <3>2, <3>3 DEF EnsureInstance
  <2>5. CASE CreateInstance(i)
    BY <1>4, <1>7, <2>1, <2>5 DEF CreateInstance
  <2>6. CASE InstanceAnswer(i)
    <3>1. CASE \E v : Save(i, "ensureAttachment", HasVm(rec, v))
      BY <1>7, <1>10, <2>2, <3>1
    <3>2. CASE \E t \in {"failed", "unknown"} : Fail(i, rec, t)
      BY <1>6, <2>3, <3>2
    <3> QED
      BY <2>6, <3>1, <3>2 DEF InstanceAnswer
  <2> QED
    BY <1>12, <2>4, <2>5, <2>6
<1>13. CASE EnsureAttachment(i) \/ Attach(i)
  <2>1. Live(rec)
    BY <1>9, <1>13 DEF EnsureAttachment, Attach, At
  <2> QED
    BY <1>4, <1>6, <1>7, <1>13, <2>1, LiveRecords
    DEF EnsureAttachment, Attach, Save, Live
<1>14. CASE AwaitAttachment(i)
  <2>1. Live(rec)
    BY <1>9, <1>14 DEF AwaitAttachment, At
  <2>2. /\ With(rec, "attached").status # "deleted"
        /\ \A u, t : t # "deleted" =>
              [With(rec, u) EXCEPT !.status = t].status # "deleted"
    BY <2>1, LiveRecords
  <2>3. CASE Save(i, "awaitRegistration", With(rec, "attached"))
    BY <1>10, <2>2, <2>3
  <2>4. CASE \E u, t : t \in {"failed", "unknown"} /\ Fail(i, With(rec, u), t)
    BY <1>6, <2>2, <2>4
  <2> QED
    BY <1>14, <2>3, <2>4 DEF AwaitAttachment
<1>15. CASE AwaitRegistration(i)
  <2>1. /\ [rec EXCEPT !.status = "ready"].status # "deleted"
        /\ [rec EXCEPT !.status = "unknown"].status # "deleted"
    BY <1>9, <1>15 DEF AwaitRegistration, At, Live, Record
  <2> QED
    BY <1>5, <1>6, <1>15, <2>1 DEF AwaitRegistration
<1> QED
  BY <1>8, <1>11, <1>12, <1>13, <1>14, <1>15 DEF Request

(* A drain moves from one place to the next when what the next one needs   *)
(* is so.                                                                  *)
LEMMA DrainLeaves ==
    ASSUME Inv, LeavesInOrder, NEW i \in Isolates, GiveBack(i) \/ Dies(i)
    PROVE  LeavesInOrder'
<1> DEFINE rec == Rec(i)
<1>1. /\ "idle" \notin Drained /\ "idle" \notin Quieted
      /\ "drain" \notin Drained /\ "markUnknown" \notin Drained
      /\ "saveDraining" \notin Quieted /\ "awaitNoServices" \notin Quieted
      /\ Quieted \subseteq Drained
  BY DEF Drained, Quieted, Emptied, Bare
<1>2. active' = active /\ NodeOnlyLeaves
  BY DEF GiveBack, DrainNode, MarkUnknown, Drain, SaveDraining, AwaitNoServices,
     DeleteInstance, AwaitInstanceGone, Detach, AwaitDetached, DeleteVolume,
     AwaitVolumeGone, RemoveNode, SaveDeleted, Await, Dies, NodeOnlyLeaves,
     Registered, pool
<1>3. /\ call[i].pc \in Drained => node \in {"draining", "removed"}
      /\ call[i].pc \in Quieted => ~active
  BY DEF LeavesInOrder, Leaving
<1>4. AsksWhenQuiet
  <2>1. CASE DeleteInstance(i)
    <3>1. call[i].pc \in Quieted /\ node' = node
      BY <2>1 DEF DeleteInstance, At, Quieted, pool
    <3> QED
      BY <1>1, <1>3, <2>1, <3>1 DEF DeleteInstance, Ask, AsksWhenQuiet
  <2>2. CASE ~DeleteInstance(i)
    BY <2>2 DEF GiveBack, DrainNode, MarkUnknown, Drain, SaveDraining,
       AwaitNoServices, AwaitInstanceGone, Detach, AwaitDetached, DeleteVolume,
       AwaitVolumeGone, RemoveNode, SaveDeleted, Await, Dies, Ask,
       AsksWhenQuiet, cloud
  <2> QED
    BY <2>1, <2>2
<1>5. ASSUME NEW pc, NEW x, x.status # "deleted", Goto(i, pc, x),
             record' = x \/ record' = record,
             pc \in Drained => node' \in {"draining", "removed"},
             pc \in Quieted => ~active, pc = "saveDeleted" => node' = "removed"
      PROVE  LeavesInOrder'
  <2> DEFINE c == [pc |-> pc, rec |-> x]
  <2>1. c.pc = pc /\ c.rec = x /\ call' = [call EXCEPT ![i] = c]
    BY <1>5 DEF Goto
  <2> HIDE DEF c
  <2> QED
    BY <1>2, <1>4, <1>5, <2>1, CallLeaves
<1>6. ASSUME Return(i),
             record'.status = "deleted" => record' = record \/ node' = "removed"
      PROVE  LeavesInOrder'
  BY <1>1, <1>2, <1>4, <1>6, CallLeaves DEF Return, Idle
<1>7. CASE DrainNode(i)
  BY <1>1, <1>5, <1>7 DEF DrainNode
<1>8. ASSUME ~DrainNode(i) PROVE Live(rec)
  BY <1>8, LiveCalls DEF GiveBack, MarkUnknown, Drain, SaveDraining,
     AwaitNoServices, DeleteInstance, AwaitInstanceGone, Detach, AwaitDetached,
     DeleteVolume, AwaitVolumeGone, RemoveNode, SaveDeleted, Await, At, Dies,
     Inv, TypeOK, Idle, Requesting, Draining, Waiting
<1>9. ASSUME ~DrainNode(i), Fail(i, rec, "unknown") PROVE LeavesInOrder'
  BY <1>6, <1>8, <1>9, LiveRecords DEF Fail
<1>10. CASE MarkUnknown(i) \/ Dies(i)
  <2>1. CASE ~DrainNode(i)
    <3>1. [rec EXCEPT !.status = "unknown"].status # "deleted"
      BY <1>8, <2>1, LiveRecords
    <3> QED
      BY <1>6, <1>9, <1>10, <2>1, <3>1 DEF MarkUnknown, Dies
  <2> QED
    BY <1>7, <2>1
<1>11. CASE Drain(i) /\ ~DrainNode(i)
  BY <1>1, <1>5, <1>6, <1>8, <1>11 DEF Drain, Live
<1>12. CASE SaveDraining(i) /\ ~DrainNode(i)
  <2>1. node' = node /\ call[i].pc \in Drained
    BY <1>12 DEF SaveDraining, At, Drained, pool
  <2>2. [rec EXCEPT !.status = "draining"].status # "deleted"
    BY <1>8, <1>12 DEF Live, Record
  <2>3. /\ "awaitNoServices" \notin Quieted
        /\ node' \in {"draining", "removed"}
        /\ Save(i, "awaitNoServices", [rec EXCEPT !.status = "draining"])
    BY <1>1, <1>3, <1>12, <2>1 DEF SaveDraining
  <2> HIDE DEF rec
  <2> QED
    BY <1>5, <2>2, <2>3 DEF Save
<1>13. CASE AwaitNoServices(i) /\ ~DrainNode(i)
  <2>1. node' = node /\ call[i].pc \in Drained
    BY <1>13 DEF AwaitNoServices, Await, At, Drained, pool
  <2> QED
    BY <1>1, <1>3, <1>5, <1>8, <1>9, <1>13, <2>1
    DEF AwaitNoServices, Await, Save, Live
<1>14. CASE /\ ~DrainNode(i)
            /\ \/ DeleteInstance(i) \/ AwaitInstanceGone(i) \/ Detach(i)
               \/ AwaitDetached(i) \/ DeleteVolume(i) \/ AwaitVolumeGone(i)
  <2>1. node' = node /\ call[i].pc \in Quieted
    BY <1>14 DEF DeleteInstance, AwaitInstanceGone, Detach, AwaitDetached,
       DeleteVolume, AwaitVolumeGone, Await, At, Quieted, Emptied, pool
  <2>2. ASSUME NEW pc, pc # "saveDeleted", NEW x, x.status # "deleted",
               Save(i, pc, x)
        PROVE  LeavesInOrder'
    BY <1>1, <1>3, <1>5, <2>1, <2>2 DEF Save
  <2>3. /\ rec.status # "deleted" /\ With(rec, "deleted").status # "deleted"
        /\ With(rec, "detaching").status # "deleted"
    BY <1>8, <1>14, LiveRecords DEF Live
  <2> QED
    BY <1>9, <1>14, <2>2, <2>3 DEF DeleteInstance, AwaitInstanceGone, Detach,
       AwaitDetached, DeleteVolume, AwaitVolumeGone, Await
<1>15. CASE RemoveNode(i) /\ ~DrainNode(i)
  <2>1. call[i].pc \in Quieted
    BY <1>15 DEF RemoveNode, At, Quieted, Emptied, Bare
  <2> QED
    BY <1>3, <1>5, <1>8, <1>9, <1>15, <2>1 DEF RemoveNode, Live
<1>16. CASE SaveDeleted(i) /\ ~DrainNode(i)
  <2>1. node' = "removed"
    BY <1>16 DEF SaveDeleted, At, pool, LeavesInOrder
  <2> QED
    BY <1>6, <1>16, <2>1 DEF SaveDeleted
<1> QED
  BY <1>7, <1>10, <1>11, <1>12, <1>13, <1>14, <1>15, <1>16 DEF GiveBack

LEMMA LeavesStep == Inv /\ LeavesInOrder /\ [Next]_vars => LeavesInOrder'
<1> SUFFICES ASSUME Inv, LeavesInOrder, [Next]_vars PROVE LeavesInOrder'
  OBVIOUS
<1>1. ASSUME NEW i \in Isolates, Request(i) PROVE LeavesInOrder'
  BY <1>1, RequestLeaves
<1>2. ASSUME NEW i \in Isolates, GiveBack(i) \/ Dies(i) PROVE LeavesInOrder'
  BY <1>2, DrainLeaves
<1>3. ASSUME \/ \E a \in asked : Serve(a) \/ Lose(a)
             \/ Register \/ Heartbeat \/ Services \/ UNCHANGED vars
      PROVE  LeavesInOrder'
  <2>1. /\ UNCHANGED <<record, call>> /\ asked' \subseteq asked
        /\ \/ node' = node /\ active' = active
           \/ /\ active' = active /\ node \in {"none", "ready"}
              /\ node' \in {"ready", "draining"}
           \/ node' = node /\ (active' => node = "ready")
    BY <1>3 DEF Serve, Lose, Register, Heartbeat, Services, vars, cloud, pool
  <2>2. active \in BOOLEAN /\ active' \in BOOLEAN
    BY <1>3 DEF Inv, TypeOK, Serve, Lose, Register, Heartbeat, Services, vars,
       cloud, pool
  <2>3. Quieted \subseteq Drained
    BY DEF Drained
  <2> QED
    BY <2>1, <2>2, <2>3 DEF LeavesInOrder, Leaving, Rec
<1> QED
  BY <1>1, <1>2, <1>3 DEF Next

LEMMA LeavesInitially == Init => LeavesInOrder
  BY DEF Init, LeavesInOrder, Idle, NoRecord, Fresh, Drained, Quieted, Emptied,
     Bare
-----------------------------------------------------------------------------
(* Together: nothing that was forgotten comes back to mind.                *)
OrderInv == LeavesInOrder /\ (forgotten = {} => GoneInv)

LEMMA OrderHolds == Spec => []OrderInv
<1>1. Init => OrderInv
  BY GoneInitially, LeavesInitially DEF OrderInv
<1>2. Inv /\ OrderInv /\ [Next]_vars => OrderInv'
  <2> SUFFICES ASSUME Inv, OrderInv, [Next]_vars PROVE OrderInv'
    OBVIOUS
  <2>1. forgotten \subseteq forgotten'
    BY DEF Next, Request, RequestCapacity, EnsureVolume, CreateVolume,
       VolumeAnswer, EnsureInstance, CreateInstance, InstanceAnswer,
       EnsureAttachment, Attach, AwaitAttachment, AwaitRegistration, GiveBack,
       DrainNode, MarkUnknown, Drain, SaveDraining, AwaitNoServices,
       DeleteInstance, AwaitInstanceGone, Detach, AwaitDetached, DeleteVolume,
       AwaitVolumeGone, RemoveNode, SaveDeleted, Await, Dies, Serve, Lose,
       Register, Heartbeat, Services, vars
  <2> QED
    BY <2>1, GoneStep, LeavesStep DEF OrderInv
<1> QED
  BY <1>1, <1>2, Invariance, PTL DEF Spec

(* Whatever isolates, the provider and the agent do: one volume and one VM *)
(* are asked for unless a drain saved a record without the attempt; and of *)
(* a record that is deleted the pool has no node, and nothing is left, nor *)
(* will be, that costs money, unless an attempt was forgotten              *)
(* (provisionCapacity, drainNode).                                         *)
THEOREM NodesAreGivenBack == Spec => []NodesInv
<1>1. Inv /\ OrderInv => NodesInv
  BY DEF Inv, OrderInv, GoneInv, LeavesInOrder, DeletedLeftNothing,
         DeletedIsGone, NodesInv
<1> QED
  BY <1>1, OrderHolds, Invariance, PTL

(* Only the provider makes or deletes anything, and it deletes a VM when   *)
(* no service runs on its node, and the volume after the VM.               *)
LEMMA DeletesInOrder ==
    Inv /\ OrderInv /\ [Next]_vars => SparesServices /\ VolumeGoesLast
<1> SUFFICES ASSUME Inv, OrderInv, [Next]_vars
             PROVE  SparesServices /\ VolumeGoesLast
  OBVIOUS
<1>1. CASE UNCHANGED <<volumes, instances>>
  BY <1>1 DEF SparesServices, VolumeGoesLast
<1>2. ASSUME NEW a \in asked, Serve(a) PROVE SparesServices /\ VolumeGoesLast
  <2>1. instances \ instances' # {} => a.op = "deleteInstance"
    BY <1>2 DEF Serve
  <2>2. SparesServices
    BY <2>1 DEF SparesServices, OrderInv, LeavesInOrder
  <2>3. ASSUME NEW v \in volumes \ volumes'
        PROVE  at[v] = 0 /\ (forgotten = {} => instances = {})
    <3>1. a.op = "deleteVolume" /\ at[a.id] = 0 /\ v = a.id
      BY <1>2, <2>3 DEF Serve
    <3> QED
      BY <3>1 DEF OrderInv, GoneInv, DrainsInOrder
  <2> QED
    BY <2>2, <2>3 DEF VolumeGoesLast
<1>3. ASSUME NEW i \in Isolates, Request(i) \/ GiveBack(i) \/ Dies(i)
      PROVE  UNCHANGED <<volumes, instances>>
  BY <1>3 DEF Request, RequestCapacity, EnsureVolume, CreateVolume, VolumeAnswer,
     EnsureInstance, CreateInstance, InstanceAnswer, EnsureAttachment, Attach,
     AwaitAttachment, AwaitRegistration, GiveBack, DrainNode, MarkUnknown, Drain,
     SaveDraining, AwaitNoServices, DeleteInstance, AwaitInstanceGone, Detach,
     AwaitDetached, DeleteVolume, AwaitVolumeGone, RemoveNode, SaveDeleted,
     Await, Dies, cloud
<1> QED
  BY <1>1, <1>2, <1>3 DEF Next, Lose, Register, Heartbeat, Services, vars, cloud

(* A drain that is repeated, begins at any step of a request, or overlaps  *)
(* with another drain, deletes no VM while its node has active services,   *)
(* no volume while it is attached, and none while there is a VM, unless an *)
(* attempt was forgotten (drainNode).                                      *)
THEOREM NodesDrainInOrder == Spec => NodeSteps
  BY OrderHolds, Invariance, DeletesInOrder, PTL DEF Spec, NodeSteps
-----------------------------------------------------------------------------
(* Services that ask for nodes, and sweeps that overlap or die.            *)
CONSTANTS NumServices, Sweepers, SweepLimit, MaxWanted, MaxBreakdowns

VARIABLES waiting, wanted, bought, looking, buying, breakdowns

wantedVars == <<waiting, wanted, bought, looking, buying, breakdowns>>

Capacities == INSTANCE CapacityRequests
    WITH service <- waiting, requests <- wanted, rescan <- looking,
         sweep <- buying, faults <- breakdowns, Sweeps <- Sweepers,
         Limit <- SweepLimit, MaxRequests <- MaxWanted,
         MaxFaults <- MaxBreakdowns

ASSUME WantedAssumption == Capacities!CapacityAssumption

(* Requests for nodes (CapacityRequests), for any number of services and   *)
(* sweeps.                                                                 *)

(* A set of natural numbers has a least one, and that is its Min.          *)
LEMMA LeastOf ==
    ASSUME NEW S \in SUBSET Nat, S # {}
    PROVE  Capacities!Min(S) \in S /\ \A t \in S : Capacities!Min(S) <= t
<1> DEFINE Upto(x) == {n \in Nat : n < x}
           Sets == {Upto(x) : x \in S}
<1>1. \A x \in Nat : IsFiniteSet(Upto(x))
  <2> TAKE x \in Nat
  <2>1. Upto(x) \subseteq 0 .. x
    BY SMT
  <2>0. 0 \in Int /\ x \in Int
    BY SMT
  <2>2. IsFiniteSet(0 .. x)
    BY <2>0, FS_Interval, Zenon
  <2> QED BY <2>1, <2>2, FS_Subset, Zenon
<1>2. Sets \subseteq FiniteSubsetsOf(Nat) /\ Sets # {}
  BY <1>1, Zenon DEF FiniteSubsetsOf
<1>3. PICK T \in Sets : \A U \in Sets :
                    <<U, T>> \notin StrictSubsetOrdering(Nat)
  <2> HIDE DEF Sets
  <2>1. IsWellFoundedOn(StrictSubsetOrdering(Nat), FiniteSubsetsOf(Nat))
    BY FS_StrictSubsetOrderingWellFounded, Zenon
  <2> QED BY <1>2, <2>1, WFMin, Zenon
<1>4. PICK x \in S : T = Upto(x)
  BY <1>3, Zenon
<1>5. \A y \in S : x <= y
  <2> SUFFICES ASSUME NEW y \in S, y < x
               PROVE  FALSE
    BY SMT
  <2>1. Upto(y) \subseteq Upto(x) /\ y \in Upto(x) /\ y \notin Upto(y)
    BY SMT
  <2>2. <<Upto(y), T>> \in StrictSubsetOrdering(Nat)
    <3>1. Upto(y) \in SUBSET Nat /\ T \in SUBSET Nat
      BY <1>4, Zenon
    <3>2. Upto(y) \subseteq T /\ Upto(y) # T
      BY <2>1, <1>4, Zenon
    <3> DEFINE V == Upto(y)
    <3>3. V \in SUBSET Nat /\ V \subseteq T /\ V # T
      BY <3>1, <3>2, Zenon
    <3> HIDE DEF V, Upto
    <3>4. <<V, T>> \in (SUBSET Nat) \X (SUBSET Nat)
      BY <3>1, <3>3, Zenon
    <3>5. <<V, T>>[1] = V /\ <<V, T>>[2] = T
      BY SMT
    <3>6. <<V, T>> \in StrictSubsetOrdering(Nat)
      BY <3>3, <3>4, <3>5, Zenon DEF StrictSubsetOrdering
    <3> QED BY <3>6, Zenon DEF V
  <2>3. Upto(y) \in Sets
    BY Zenon
  <2> QED BY <2>2, <2>3, <1>3, Zenon
<1> HIDE DEF Upto, Sets
<1>6. \E m \in S : \A y \in S : m <= y
  BY <1>5, Zenon
<1> QED BY <1>6, Zenon DEF Capacities!Min

WantedNode == [id : Capacities!Services, late : BOOLEAN,
           status : {"queued", "processing", "completed", "failed"}]

Waiters == [Capacities!Services -> [status : {"ready", "queued", "starting"},
                                    asked : BOOLEAN]]

Buyer ==
    [pc : {"idle", "claim", "ask", "complete", "schedule", "refused",
        "unknown"},
          id : Capacities!Services \cup {None}, count : 0 .. SweepLimit]

(* A sweep that is at a request has one that is there, and room for more;  *)
(* one that completes it, or did, has a node for it.                       *)
AtRequest(w) ==
    buying[w].pc \in {"ask", "complete", "schedule", "refused", "unknown"}

AtWanted(w) ==
    /\ buying[w].id \in Capacities!Services /\ buying[w].count < SweepLimit
    /\ \E i \in DOMAIN wanted : wanted[i].id = buying[w].id

SweepsFit ==
    \A w \in Sweepers :
        /\ AtRequest(w) => AtWanted(w)
        /\ buying[w].pc \in {"complete", "schedule"} => buying[w].id \in bought

CapacityInv == Capacities!TypeOK /\ Capacities!CompletedIsBought /\ SweepsFit

LEMMA WantedType ==
    ASSUME CapacityInv
    PROVE  wanted \in Seq(WantedNode)
               /\ \A i \in DOMAIN wanted : wanted[i] \in WantedNode
<1>1. wanted \in Seq(WantedNode)
  BY DEF CapacityInv, Capacities!TypeOK, Waiters, WantedNode
<1> QED
  BY <1>1

(* Requests are changed one at a time.                                     *)
LEMMA WantedChanged ==
    ASSUME CapacityInv, NEW i \in DOMAIN wanted, NEW r \in WantedNode,
           r.id = wanted[i].id, wanted' = [wanted EXCEPT ![i] = r],
           r.status = "completed" => r.id \in bought', bought \subseteq bought'
    PROVE  /\ wanted' \in Seq(WantedNode) /\ Capacities!CompletedIsBought'
           /\ DOMAIN wanted' = DOMAIN wanted
           /\ \A j \in DOMAIN wanted : wanted'[j].id = wanted[j].id
<1>1. wanted \in Seq(WantedNode)
  BY DEF CapacityInv, Capacities!TypeOK, Waiters, WantedNode
<1>2. wanted' \in Seq(WantedNode) /\ DOMAIN wanted' = DOMAIN wanted
  BY <1>1
<1>3. \A j \in DOMAIN wanted : wanted'[j] = IF j = i THEN r ELSE wanted[j]
  BY <1>1
<1> QED
  BY <1>2, <1>3 DEF CapacityInv, Capacities!CompletedIsBought

(* They fit as long as what is asked for and bought is not taken back.     *)
LEMMA BuyersStillFit ==
    ASSUME SweepsFit, bought \subseteq bought', UNCHANGED buying,
           DOMAIN wanted \subseteq DOMAIN wanted',
           \A j \in DOMAIN wanted : wanted'[j].id = wanted[j].id
    PROVE  SweepsFit'
<1> SUFFICES ASSUME NEW w \in Sweepers
             PROVE  /\ AtRequest(w)' => AtWanted(w)'
                    /\ buying'[w].pc \in {"complete", "schedule"}
                           => buying'[w].id \in bought'
  BY DEF SweepsFit
<1>1. AtRequest(w) => AtWanted(w)
  BY DEF SweepsFit
<1>2. ASSUME AtWanted(w) PROVE AtWanted(w)'
  BY <1>2 DEF AtWanted
<1>3. AtRequest(w)' => AtRequest(w)
  BY DEF AtRequest
<1> QED
  BY <1>1, <1>2, <1>3 DEF SweepsFit

(* One sweep goes on, to where it fits.                                    *)
LEMMA SweepMoves ==
    ASSUME CapacityInv, NEW w \in Sweepers, NEW s \in Buyer,
           buying' = [buying EXCEPT ![w] = s], bought \subseteq bought',
           DOMAIN wanted \subseteq DOMAIN wanted',
           \A j \in DOMAIN wanted : wanted'[j].id = wanted[j].id,
           s.pc \in {"ask", "complete", "schedule", "refused", "unknown"} =>
              /\ s.id \in Capacities!Services /\ s.count < SweepLimit
              /\ \E i \in DOMAIN wanted' : wanted'[i].id = s.id,
           s.pc \in {"complete", "schedule"} => s.id \in bought'
    PROVE  buying' \in [Sweepers -> Buyer] /\ SweepsFit'
<1>1. buying \in [Sweepers -> Buyer]
  BY DEF CapacityInv, Capacities!TypeOK, Waiters, Buyer
<1>2. \A v \in Sweepers : buying'[v] = IF v = w THEN s ELSE buying[v]
  BY <1>1
<1>3. buying' \in [Sweepers -> Buyer]
  BY <1>1
<1>4. SweepsFit'
  <2> SUFFICES ASSUME NEW v \in Sweepers
               PROVE  /\ AtRequest(v)' => AtWanted(v)'
                      /\ buying'[v].pc \in {"complete", "schedule"}
                             => buying'[v].id \in bought'
    BY DEF SweepsFit
  <2>1. CASE v = w
    BY <1>2, <2>1 DEF AtRequest, AtWanted
  <2>2. CASE v # w
    <3>1. buying'[v] = buying[v]
      BY <1>2, <2>2
    <3>2. AtRequest(v) => AtWanted(v)
      BY DEF CapacityInv, SweepsFit
    <3>3. ASSUME AtWanted(v) PROVE AtWanted(v)'
      BY <3>1, <3>3 DEF AtWanted
    <3>4. AtRequest(v)' => AtRequest(v)
      BY <3>1 DEF AtRequest
    <3> QED BY <3>1, <3>2, <3>3, <3>4 DEF CapacityInv, SweepsFit
  <2> QED BY <2>1, <2>2
<1> QED
  BY <1>3, <1>4

LEMMA AssignStep ==
    ASSUME CapacityInv, NEW s \in Capacities!Services,
           Capacities!AssignOrQueue(s), UNCHANGED bought
    PROVE  /\ waiting' \in Waiters
           /\ wanted' \in Seq(WantedNode) /\ Capacities!CompletedIsBought'
           /\ DOMAIN wanted \subseteq DOMAIN wanted'
           /\ \A j \in DOMAIN wanted : wanted'[j].id = wanted[j].id
<1> DEFINE new == [id |-> s, status |-> "queued", late |-> FALSE]
<1>1. waiting' \in Waiters
  <2>1. \E st \in {"queued", "starting"}, a \in BOOLEAN :
           waiting' = [waiting EXCEPT ![s] = [status |-> st, asked |-> a]]
    BY DEF Capacities!AssignOrQueue
  <2>2. waiting \in Waiters
    BY DEF CapacityInv, Capacities!TypeOK, Waiters
  <2> QED BY <2>1, <2>2 DEF Waiters
<1>2. wanted' = wanted \/ wanted' = Append(wanted, new)
  BY DEF Capacities!AssignOrQueue
<1>3. wanted \in Seq(WantedNode) /\ new \in WantedNode
  BY DEF CapacityInv, Capacities!TypeOK, Waiters, WantedNode
<1>4. new.status = "queued"
  OBVIOUS
<1> HIDE DEF new
<1>5. CASE wanted' = wanted
  BY <1>1, <1>3, <1>5 DEF CapacityInv, Capacities!CompletedIsBought
<1>6. CASE wanted' = Append(wanted, new)
  <2>1. /\ wanted' \in Seq(WantedNode) /\ DOMAIN wanted' = 1 .. Len(wanted) + 1
        /\ DOMAIN wanted = 1 .. Len(wanted) /\ Len(wanted) \in Nat
        /\ \A j \in DOMAIN wanted : wanted'[j] = wanted[j]
        /\ wanted'[Len(wanted) + 1] = new
    BY <1>3, <1>6
  <2>2. \A j \in DOMAIN wanted' : j \in DOMAIN wanted \/ j = Len(wanted) + 1
    BY <2>1
  <2>3. Capacities!CompletedIsBought'
    BY <1>4, <2>1, <2>2 DEF CapacityInv, Capacities!CompletedIsBought
  <2> QED BY <1>1, <2>1, <2>3
<1> QED
  BY <1>2, <1>5, <1>6

LEMMA LeastServices ==
    ASSUME Capacities!CapacityAssumption, NEW S \in SUBSET Capacities!Services,
           S # {}
    PROVE  Capacities!Min(S) \in S
  BY LeastOf DEF Capacities!Services, Capacities!CapacityAssumption

LEMMA LeastRequests ==
    ASSUME CapacityInv, NEW S \in SUBSET DOMAIN wanted, S # {}
    PROVE  Capacities!Min(S) \in S
<1>1. wanted \in Seq(WantedNode)
  BY DEF CapacityInv, Capacities!TypeOK, Waiters, WantedNode
<1>2. DOMAIN wanted \subseteq Nat
  BY <1>1
<1> QED
  BY <1>2, LeastOf

LEMMA MarkedIs ==
    ASSUME CapacityInv, NEW id,
           NEW status \in {"queued", "completed", "failed"},
           \E i \in DOMAIN wanted : wanted[i].id = id,
           wanted' = Capacities!Marked(id, status), UNCHANGED bought,
           status = "completed" => id \in bought
    PROVE  /\ wanted' \in Seq(WantedNode) /\ Capacities!CompletedIsBought'
           /\ DOMAIN wanted' = DOMAIN wanted
           /\ \A j \in DOMAIN wanted : wanted'[j].id = wanted[j].id
<1> DEFINE found == {i \in DOMAIN wanted : wanted[i].id = id}
           first == Capacities!Min(found)
           r == [wanted[first] EXCEPT !.status = status]
<1>1. first \in found
  BY LeastRequests
<1>2. wanted' = [wanted EXCEPT ![first].status = status]
  BY DEF Capacities!Marked
<1>3. first \in DOMAIN wanted /\ wanted[first].id = id
  BY <1>1
<1> HIDE DEF found, first
<1>4. wanted[first] \in WantedNode /\ wanted \in Seq(WantedNode)
  BY <1>3, WantedType
<1>5. r \in WantedNode /\ r.id = id /\ r.status = status
  BY <1>3, <1>4 DEF WantedNode
<1>6. wanted' = [wanted EXCEPT ![first] = r]
  BY <1>2, <1>3, <1>4
<1> HIDE DEF r
<1> QED
  BY <1>3, <1>5, <1>6, WantedChanged

LEMMA ClaimStep ==
    ASSUME Capacities!CapacityAssumption, CapacityInv, NEW w \in Sweepers,
           Capacities!Claim(w)
    PROVE  CapacityInv'
<1>1. buying[w].pc = "claim"
          /\ UNCHANGED <<waiting, bought, looking, breakdowns>>
  BY DEF Capacities!Claim
<1>2. buying[w] \in Buyer /\ buying \in [Sweepers -> Buyer]
  BY DEF CapacityInv, Capacities!TypeOK, Waiters, Buyer
<1>3. CASE buying[w].count = SweepLimit \/ Capacities!Due = {}
  <2>1. buying' = [buying EXCEPT ![w] = Capacities!Idle] /\ UNCHANGED wanted
    BY <1>3 DEF Capacities!Claim
  <2>2. Capacities!Idle \in Buyer /\ Capacities!Idle.pc = "idle"
    BY DEF Capacities!Idle, Buyer, Capacities!CapacityAssumption
  <2>3. buying' \in [Sweepers -> Buyer] /\ SweepsFit'
    BY <1>1, <2>1, <2>2, SweepMoves
  <2> QED BY <1>1, <2>1, <2>3
             DEF CapacityInv, Capacities!TypeOK, Waiters,
                 Capacities!CompletedIsBought, Buyer
<1>4. CASE ~(buying[w].count = SweepLimit \/ Capacities!Due = {})
  <2> DEFINE first == Capacities!Min(Capacities!Due)
             r == [id |-> wanted[first].id, status |-> "processing",
                 late |-> FALSE]
             s == [pc |-> "ask", id |-> wanted[first].id,
                 count |-> buying[w].count]
  <2>1. /\ wanted' = [wanted EXCEPT ![first] = r]
        /\ buying' = [buying EXCEPT ![w] = s]
    BY <1>4 DEF Capacities!Claim
  <2>2. first \in DOMAIN wanted
    BY <1>4, LeastRequests DEF Capacities!Due
  <2> HIDE DEF first
  <2>3. wanted[first] \in WantedNode /\ wanted \in Seq(WantedNode)
    BY <2>2, WantedType
  <2>4. r \in WantedNode /\ r.id = wanted[first].id /\ r.status = "processing"
    BY <2>3 DEF WantedNode
  <2>6. s \in Buyer /\ s.pc = "ask" /\ s.id = wanted[first].id
            /\ s.count < SweepLimit
    BY <1>2, <1>4, <2>3 DEF Buyer, WantedNode, Capacities!CapacityAssumption
  <2> HIDE DEF r, s
  <2>8. /\ wanted' \in Seq(WantedNode) /\ Capacities!CompletedIsBought'
        /\ DOMAIN wanted' = DOMAIN wanted
        /\ \A j \in DOMAIN wanted : wanted'[j].id = wanted[j].id
    BY <1>1, <2>2, <2>1, <2>4, WantedChanged
  <2>9. s.id \in Capacities!Services
    BY <2>3, <2>6 DEF WantedNode
  <2>10. buying' \in [Sweepers -> Buyer] /\ SweepsFit'
    BY <1>1, <2>2, <2>1, <2>6, <2>8, <2>9, SweepMoves
  <2> QED BY <1>1, <2>8, <2>10
             DEF CapacityInv, Capacities!TypeOK, Waiters, Buyer, WantedNode
<1> QED
  BY <1>3, <1>4

(* The sweep stays at its request, with another pc.                        *)
LEMMA GoesStep ==
    ASSUME CapacityInv, NEW w \in Sweepers, AtRequest(w),
           NEW pc \in {"complete", "schedule", "refused", "unknown"},
               Capacities!Goes(w, pc),
           bought \subseteq bought', DOMAIN wanted \subseteq DOMAIN wanted',
           \A j \in DOMAIN wanted : wanted'[j].id = wanted[j].id,
           pc \in {"complete", "schedule"} => buying[w].id \in bought'
    PROVE  buying' \in [Sweepers -> Buyer] /\ SweepsFit'
<1> DEFINE s == [buying[w] EXCEPT !.pc = pc]
<1>1. buying[w] \in Buyer /\ buying \in [Sweepers -> Buyer]
  BY DEF CapacityInv, Capacities!TypeOK, Waiters, Buyer
<1>2. /\ s \in Buyer /\ s.pc = pc /\ s.id = buying[w].id
      /\ s.count = buying[w].count
      /\ buying' = [buying EXCEPT ![w] = s]
  BY <1>1 DEF Capacities!Goes, Buyer
<1>3. AtWanted(w)
  BY DEF CapacityInv, SweepsFit
<1> HIDE DEF s
<1>4. /\ s.id \in Capacities!Services /\ s.count < SweepLimit
      /\ \E i \in DOMAIN wanted' : wanted'[i].id = s.id
  BY <1>2, <1>3 DEF AtWanted
<1> QED
  BY <1>2, <1>4, SweepMoves

(* It turns to the next one.                                               *)
LEMMA TurnsStep ==
    ASSUME Capacities!CapacityAssumption, CapacityInv, NEW w \in Sweepers,
           AtRequest(w), Capacities!Turns(w),
           bought \subseteq bought', DOMAIN wanted \subseteq DOMAIN wanted',
           \A j \in DOMAIN wanted : wanted'[j].id = wanted[j].id
    PROVE  buying' \in [Sweepers -> Buyer] /\ SweepsFit'
<1> DEFINE s == [pc |-> "claim", id |-> None, count |-> buying[w].count + 1]
<1>1. buying[w].count \in 0 .. SweepLimit /\ buying[w].count < SweepLimit
  BY DEF CapacityInv, Capacities!TypeOK, Waiters, SweepsFit, AtWanted
<1>2. s \in Buyer /\ s.pc = "claim" /\ buying' = [buying EXCEPT ![w] = s]
  BY <1>1 DEF Capacities!Turns, Buyer, Capacities!CapacityAssumption
<1> HIDE DEF s
<1> QED
  BY <1>2, SweepMoves

LEMMA AskStep ==
    ASSUME Capacities!CapacityAssumption, CapacityInv, NEW w \in Sweepers,
           Capacities!Ask(w)
    PROVE  CapacityInv'
<1>1. /\ buying[w].pc = "ask" /\ UNCHANGED <<waiting, wanted, looking>>
      /\ AtRequest(w)
  BY DEF Capacities!Ask, AtRequest
<1>2. buying[w].id \in Capacities!Services
  BY <1>1 DEF CapacityInv, SweepsFit, AtWanted
<1>3. /\ bought' \in {bought, bought \cup {buying[w].id}}
      /\ \/ Capacities!Goes(w, "complete") /\ buying[w].id \in bought'
         \/ Capacities!Goes(w, "unknown")
         \/ Capacities!Goes(w, "refused")
      /\ breakdowns' \in 0 .. MaxBreakdowns
  BY DEF Capacities!Ask, CapacityInv, Capacities!TypeOK, Waiters,
     Capacities!CapacityAssumption
<1>4. bought \subseteq bought' /\ bought' \subseteq Capacities!Services
  BY <1>2, <1>3 DEF CapacityInv, Capacities!TypeOK, Waiters
<1>5. buying' \in [Sweepers -> Buyer] /\ SweepsFit'
  BY <1>1, <1>3, <1>4, GoesStep
<1>6. Capacities!CompletedIsBought'
  BY <1>1, <1>4 DEF CapacityInv, Capacities!CompletedIsBought
<1> QED
  BY <1>1, <1>3, <1>4, <1>5, <1>6
     DEF CapacityInv, Capacities!TypeOK, Waiters, Buyer

LEMMA CompleteStep ==
    ASSUME Capacities!CapacityAssumption, CapacityInv, NEW w \in Sweepers,
           Capacities!Complete(w)
    PROVE  CapacityInv'
<1>1. /\ buying[w].pc = "complete" /\ UNCHANGED <<waiting, bought, looking>>
      /\ AtRequest(w) /\ breakdowns' \in 0 .. MaxBreakdowns
  BY DEF Capacities!Complete, AtRequest, CapacityInv, Capacities!TypeOK,
     Waiters, Capacities!CapacityAssumption
<1>2. AtWanted(w) /\ buying[w].id \in bought
  BY <1>1 DEF CapacityInv, SweepsFit
<1>3. CASE /\ wanted' = Capacities!Marked(buying[w].id, "completed")
           /\ Capacities!Goes(w, "schedule")
  <2>1. /\ wanted' \in Seq(WantedNode) /\ Capacities!CompletedIsBought'
        /\ DOMAIN wanted' = DOMAIN wanted
        /\ \A j \in DOMAIN wanted : wanted'[j].id = wanted[j].id
    BY <1>1, <1>2, <1>3, MarkedIs DEF AtWanted
  <2>2. buying' \in [Sweepers -> Buyer] /\ SweepsFit'
    BY <1>1, <1>2, <1>3, <2>1, GoesStep
  <2> QED BY <1>1, <2>1, <2>2
             DEF CapacityInv, Capacities!TypeOK, Waiters, Buyer, WantedNode
<1>4. CASE Capacities!Goes(w, "unknown") /\ UNCHANGED wanted
  <2>1. buying' \in [Sweepers -> Buyer] /\ SweepsFit'
    BY <1>1, <1>4, GoesStep
  <2> QED BY <1>1, <1>4, <2>1
             DEF CapacityInv, Capacities!TypeOK, Waiters, Buyer,
                 Capacities!CompletedIsBought
<1> QED
  BY <1>3, <1>4 DEF Capacities!Complete

LEMMA ScheduleFirstStep ==
    ASSUME Capacities!CapacityAssumption, CapacityInv, Capacities!ScheduleFirst,
           UNCHANGED bought
    PROVE  /\ waiting' \in Waiters
           /\ wanted' \in Seq(WantedNode) /\ Capacities!CompletedIsBought'
           /\ DOMAIN wanted \subseteq DOMAIN wanted'
           /\ \A j \in DOMAIN wanted : wanted'[j].id = wanted[j].id
<1>1. Capacities!Min(Capacities!Waiting) \in Capacities!Services
  BY LeastServices DEF Capacities!ScheduleFirst, Capacities!Waiting
<1> QED
  BY <1>1, AssignStep DEF Capacities!ScheduleFirst

LEMMA ScheduleStep ==
    ASSUME Capacities!CapacityAssumption, CapacityInv, NEW w \in Sweepers,
           Capacities!Schedule(w)
    PROVE  CapacityInv'
<1>1. /\ buying[w].pc = "schedule" /\ UNCHANGED <<bought, looking>>
      /\ AtRequest(w) /\ breakdowns' \in 0 .. MaxBreakdowns
  BY DEF Capacities!Schedule, AtRequest, CapacityInv, Capacities!TypeOK,
     Waiters, Capacities!CapacityAssumption
<1>2. CASE Capacities!ScheduleFirst /\ UNCHANGED <<buying, breakdowns>>
  <2>1. /\ waiting' \in Waiters
        /\ wanted' \in Seq(WantedNode) /\ Capacities!CompletedIsBought'
        /\ DOMAIN wanted \subseteq DOMAIN wanted'
        /\ \A j \in DOMAIN wanted : wanted'[j].id = wanted[j].id
    BY <1>1, <1>2, ScheduleFirstStep
  <2>2. SweepsFit'
    BY <1>1, <1>2, <2>1, BuyersStillFit DEF CapacityInv
  <2> QED BY <1>1, <1>2, <2>1, <2>2
             DEF CapacityInv, Capacities!TypeOK, Waiters, WantedNode
<1>3. CASE Capacities!Turns(w) /\ UNCHANGED <<waiting, wanted, breakdowns>>
  <2>1. buying' \in [Sweepers -> Buyer] /\ SweepsFit'
    BY <1>1, <1>3, TurnsStep
  <2> QED BY <1>1, <1>3, <2>1
             DEF CapacityInv, Capacities!TypeOK, Waiters, Buyer,
                 Capacities!CompletedIsBought
<1>4. CASE Capacities!Goes(w, "unknown") /\ UNCHANGED <<waiting, wanted>>
  <2>1. buying' \in [Sweepers -> Buyer] /\ SweepsFit'
    BY <1>1, <1>4, GoesStep
  <2> QED BY <1>1, <1>4, <2>1
             DEF CapacityInv, Capacities!TypeOK, Waiters, Buyer,
                 Capacities!CompletedIsBought
<1> QED
  BY <1>2, <1>3, <1>4 DEF Capacities!Schedule

LEMMA FailStep ==
    ASSUME Capacities!CapacityAssumption, CapacityInv, NEW w \in Sweepers,
           Capacities!Fail(w)
    PROVE  CapacityInv'
<1>1. /\ wanted' = Capacities!Marked(buying[w].id, Capacities!Outcome(w))
      /\ Capacities!Turns(w)
      /\ UNCHANGED <<waiting, bought, looking, breakdowns>> /\ AtRequest(w)
  BY DEF Capacities!Fail, AtRequest
<1>2. Capacities!Outcome(w) \in {"failed", "queued"}
  BY DEF Capacities!Outcome
<1>3. AtWanted(w)
  BY <1>1 DEF CapacityInv, SweepsFit
<1>4. /\ wanted' \in Seq(WantedNode) /\ Capacities!CompletedIsBought'
      /\ DOMAIN wanted' = DOMAIN wanted
      /\ \A j \in DOMAIN wanted : wanted'[j].id = wanted[j].id
  BY <1>1, <1>2, <1>3, MarkedIs DEF AtWanted
<1>5. buying' \in [Sweepers -> Buyer] /\ SweepsFit'
  BY <1>1, <1>4, TurnsStep
<1> QED
  BY <1>1, <1>4, <1>5
     DEF CapacityInv, Capacities!TypeOK, Waiters, Buyer, WantedNode

LEMMA SweepStep ==
    ASSUME Capacities!CapacityAssumption, CapacityInv, NEW w \in Sweepers,
           Capacities!Begin(w) \/ Capacities!Die(w)
    PROVE  CapacityInv'
<1>1. /\ UNCHANGED <<waiting, wanted, bought, looking>>
      /\ breakdowns' \in 0 .. MaxBreakdowns
  BY DEF Capacities!Begin, Capacities!Die, CapacityInv, Capacities!TypeOK,
     Waiters, Capacities!CapacityAssumption
<1>2. PICK s \in Buyer : s.pc \in {"idle", "claim"}
                    /\ buying' = [buying EXCEPT ![w] = s]
  <2>1. buying[w] \in Buyer /\ buying \in [Sweepers -> Buyer]
    BY DEF CapacityInv, Capacities!TypeOK, Waiters, Buyer
  <2>2. CASE Capacities!Begin(w)
    <3> DEFINE s == [buying[w] EXCEPT !.pc = "claim"]
    <3>1. s \in Buyer /\ s.pc = "claim" /\ buying' = [buying EXCEPT ![w] = s]
      BY <2>1, <2>2 DEF Capacities!Begin, Capacities!Goes, Buyer
    <3> HIDE DEF s
    <3> QED BY <3>1
  <2>3. CASE Capacities!Die(w)
    <3>1. /\ Capacities!Idle \in Buyer /\ Capacities!Idle.pc = "idle"
          /\ buying' = [buying EXCEPT ![w] = Capacities!Idle]
      BY <2>3
         DEF Capacities!Die, Capacities!Idle, Buyer,
             Capacities!CapacityAssumption
    <3> QED BY <3>1
  <2> QED BY <2>2, <2>3
<1>3. buying' \in [Sweepers -> Buyer] /\ SweepsFit'
  BY <1>1, <1>2, SweepMoves
<1> QED
  BY <1>1, <1>3
     DEF CapacityInv, Capacities!TypeOK, Waiters, Buyer,
         Capacities!CompletedIsBought

LEMMA TimeOutStep ==
    ASSUME Capacities!CapacityAssumption, CapacityInv, NEW i \in DOMAIN wanted,
           Capacities!TimeOut(i)
    PROVE  CapacityInv'
<1>1. UNCHANGED <<waiting, bought, looking, buying, breakdowns>>
  BY DEF Capacities!TimeOut
<1>2. wanted[i] \in WantedNode /\ wanted \in Seq(WantedNode)
  BY WantedType
<1> DEFINE r == [wanted[i] EXCEPT !.late = TRUE]
<1>3. r \in WantedNode /\ r.id = wanted[i].id /\ r.status = "processing"
  BY <1>2 DEF Capacities!TimeOut, WantedNode
<1>6. wanted' = [wanted EXCEPT ![i].late = TRUE]
  BY DEF Capacities!TimeOut
<1>7. wanted' = [wanted EXCEPT ![i] = r]
  BY <1>2, <1>6
<1> HIDE DEF r
<1>4. /\ wanted' \in Seq(WantedNode) /\ Capacities!CompletedIsBought'
      /\ DOMAIN wanted' = DOMAIN wanted
      /\ \A j \in DOMAIN wanted : wanted'[j].id = wanted[j].id
  BY <1>1, <1>3, <1>7, WantedChanged
<1>5. SweepsFit'
  BY <1>1, <1>4, BuyersStillFit DEF CapacityInv
<1> QED
  BY <1>1, <1>4, <1>5 DEF CapacityInv, Capacities!TypeOK, Waiters, WantedNode

LEMMA QueueStep ==
    ASSUME Capacities!CapacityAssumption, CapacityInv,
           \/ Capacities!Rescan
           \/ \E s \in Capacities!Services : Capacities!Start(s)
                  \/ Capacities!Stop(s)
    PROVE  CapacityInv'
<1>1. UNCHANGED <<bought, buying, breakdowns>> /\ looking' \in BOOLEAN
  BY DEF Capacities!Rescan, Capacities!Start, Capacities!Stop, CapacityInv,
     Capacities!TypeOK, Waiters
<1>2. /\ waiting' \in Waiters
      /\ wanted' \in Seq(WantedNode) /\ Capacities!CompletedIsBought'
      /\ DOMAIN wanted \subseteq DOMAIN wanted'
      /\ \A j \in DOMAIN wanted : wanted'[j].id = wanted[j].id
  <2>1. CASE Capacities!ScheduleFirst
    BY <1>1, <2>1, ScheduleFirstStep
  <2>2. CASE \E s \in Capacities!Services : Capacities!Start(s)
    <3>1. PICK s \in Capacities!Services : Capacities!Start(s)
      BY <2>2
    <3> QED BY <1>1, <3>1, AssignStep DEF Capacities!Start
  <2>3. CASE \E s \in Capacities!Services : Capacities!Stop(s)
    <3>1. UNCHANGED wanted
      BY <2>3 DEF Capacities!Stop
    <3>2. waiting' \in Waiters
      <4>1. waiting \in Waiters
        BY DEF CapacityInv, Capacities!TypeOK, Waiters
      <4>2. PICK s \in Capacities!Services : Capacities!Stop(s)
        BY <2>3
      <4>3. waiting' = [waiting EXCEPT ![s] = [@ EXCEPT !.status = "ready"]]
        BY <4>2 DEF Capacities!Stop
      <4>4. [waiting[s] EXCEPT !.status = "ready"]
               \in [status : {"ready", "queued", "starting"}, asked : BOOLEAN]
        <5>1. waiting[s] \in [status : {"ready", "queued", "starting"},
                              asked : BOOLEAN]
          BY <4>1 DEF Waiters
        <5> QED BY <5>1
      <4> QED BY <4>1, <4>3, <4>4 DEF Waiters
    <3> QED BY <1>1, <3>1, <3>2
               DEF CapacityInv, Capacities!TypeOK, Waiters,
                   Capacities!CompletedIsBought, WantedNode
  <2>4. CASE UNCHANGED <<waiting, wanted>>
    BY <1>1, <2>4
       DEF CapacityInv, Capacities!TypeOK, Waiters,
           Capacities!CompletedIsBought, WantedNode
  <2> QED BY <2>1, <2>2, <2>3, <2>4 DEF Capacities!Rescan
<1>3. SweepsFit'
  BY <1>1, <1>2, BuyersStillFit DEF CapacityInv
<1> QED
  BY <1>1, <1>2, <1>3 DEF CapacityInv, Capacities!TypeOK, Waiters, WantedNode

LEMMA CapacityNext ==
    ASSUME Capacities!CapacityAssumption, CapacityInv,
           [Capacities!Next]_(Capacities!vars)
    PROVE  CapacityInv'
<1>1. CASE UNCHANGED Capacities!vars
  BY <1>1
     DEF Capacities!vars, CapacityInv, Capacities!TypeOK, Waiters,
         Capacities!CompletedIsBought, SweepsFit, AtRequest, AtWanted
<1>2. CASE Capacities!Next
  BY <1>2, ClaimStep, AskStep, CompleteStep, ScheduleStep, FailStep, SweepStep,
     TimeOutStep, QueueStep DEF Capacities!Next, Capacities!Step
<1> QED
  BY <1>1, <1>2

LEMMA CapacityInit == Capacities!CapacityAssumption /\ Capacities!Init
    => CapacityInv
<1> SUFFICES ASSUME Capacities!CapacityAssumption, Capacities!Init
             PROVE  CapacityInv
  OBVIOUS
<1>1. Capacities!Idle \in Buyer /\ Capacities!Idle.pc = "idle"
  BY DEF Capacities!Idle, Buyer, Capacities!CapacityAssumption
<1>2. Capacities!TypeOK
  <2>1. waiting \in Waiters
    BY DEF Capacities!Init, Waiters
  <2>2. buying \in [Sweepers -> Buyer]
    BY <1>1 DEF Capacities!Init
  <2>3. breakdowns \in 0 .. MaxBreakdowns
    BY DEF Capacities!Init, Capacities!CapacityAssumption
  <2>4. wanted \in Seq(WantedNode)
    BY DEF Capacities!Init
  <2> QED BY <2>1, <2>2, <2>3, <2>4
             DEF Capacities!Init, Capacities!TypeOK, Waiters, Buyer, WantedNode
<1> QED
  BY <1>1, <1>2
     DEF Capacities!Init, CapacityInv, Capacities!CompletedIsBought, SweepsFit,
         AtRequest
-----------------------------------------------------------------------------
(* Modpacks: drafts that are previewed, applied and rolled back.           *)
CONSTANTS Packs, PreviewKeys, ApplyKeys, RollbackKeys, PackFaults,
          PackOutages, PackRequests, PackSnapshots, PackDeaths

VARIABLES imported, validated, modpack, claims, jobs, queue, requesting, runs,
          running, machine, snapshots, ends

modpackVars == <<imported, validated, modpack, claims, jobs, queue, requesting,
                 runs, running, machine, snapshots, ends>>

Job(kind, targets, keys) == [kind : {kind}, target : targets, key : keys]
Owned(targets, previews, applies, rollbacks) ==
    Job("preview", targets, previews) \cup Job("apply", targets, applies)
    \cup Job("rollback", targets, rollbacks)
DraftJobs == Owned(Packs, PreviewKeys, ApplyKeys, RollbackKeys)

Modpacks == INSTANCE ModpackDeployments
    WITH deployment <- modpack, tasks <- jobs, asking <- requesting,
         deaths <- ends, Deployments <- Packs, Tasks <- DraftJobs,
         Import <- "import", Drafts <- TRUE, Outages <- PackOutages,
         Faults <- PackFaults, MaxRequests <- PackRequests,
         MaxSnapshots <- PackSnapshots, MaxDeaths <- PackDeaths

(* The owner asks for one preview of a deployment.  With two that overlap  *)
(* the record may name another manifest than the machine was switched to:  *)
(* a preview may claim what another is previewing (deploymentTasks.ts:623) *)
(* and each freezes a manifest of its own.                                 *)
ASSUME OnePreview == \A k, l \in PreviewKeys : k = l
ASSUME PacksAssumption == Modpacks!DeploymentsAssumption

(***************************************************************************)
(* What the owner of a modpack may rely on, for any deployments with one   *)
(* preview each, any keys of applies and rollbacks, with all faults: a     *)
(* task that dies, or whose answer is lost, is run again, and the record   *)
(* of a deployment still says what the machine did.                        *)
(*                                                                         *)
(* PackKept says why.  The status that a task claims a deployment with     *)
(* (transitionDeployment) is what gives it the machine, and it is the only *)
(* task to have it until it settles (OneHolds, HoldsIt).  The manifest is  *)
(* made once, by a preview that found none, and until then no apply can    *)
(* have been asked for (PreviewsIt, AppliesIt); so the copy of the         *)
(* deployment that a task carries across its calls has the manifest still. *)
(***************************************************************************)
(* Drafts, which owners preview (once), apply and roll back.               *)
OwnersTasks ==
    /\ \A t \in DraftJobs : t.kind \in {"preview", "apply", "rollback"}
    /\ \A t, u \in DraftJobs :
          t.kind = "preview" /\ u.kind = "preview" /\ t.target = u.target
              => t = u

PackRun == [pc : {"read", "mark", "archive", "report", "claim",
              "keep", "snapshot", "freeze", "target", "stage",
              "switch", "restore", "undo", "done", "ok", "bad"},
        copy : Modpacks!Imports \cup Modpacks!Deployment \cup {None},
        made : Modpacks!Snapshots \cup {None},
        found : {"valid", "invalid", None}]

PackRequest == [pc : {"complete", "claim", "create", "put", "enqueue"},
            body : 0 .. PackSnapshots, read : Modpacks!Imports]

Moves ==
    [did : {"nothing", "switched", "restored"}, manifest :
        Modpacks!Snapshots \cup {None}]

(* What a run of a task may be doing.                                      *)
Places(kind) ==
    CASE kind = "preview" -> {"read", "claim", "keep", "snapshot", "freeze",
             "ok", "bad"}
      [] kind = "apply" -> {"read", "claim", "target", "stage", "switch",
          "undo", "done",
                            "ok", "bad"}
      [] kind = "rollback" -> {"read", "claim", "restore", "undo", "done", "ok",
          "bad"}

Of(t) == modpack[t.target]

(* A run that has the deployment to itself until it settles.               *)
Holds(t) ==
    runs[t].pc \in {"target", "stage", "switch", "restore", "undo", "done"}

Did(t) == IF t.kind = "apply" THEN "switched" ELSE "restored"

PackRecords ==
    /\ imported \in Modpacks!Imports
    /\ validated \in {"valid", "invalid", None}
    /\ modpack \in [Packs -> Modpacks!Deployment]
    /\ claims \in [DraftJobs -> 0 .. PackSnapshots \cup {None}]
    /\ jobs \in [DraftJobs -> {"none", "queued", "running", "succeeded",
           "failed"}]
    /\ queue \subseteq DraftJobs
    /\ requesting \in [DraftJobs -> PackRequest \cup {Modpacks!Idle}]
    /\ runs \in [DraftJobs -> PackRun \cup {Modpacks!Idle}]
    /\ running \in BOOLEAN
    /\ machine \in [Packs -> Moves]
    /\ snapshots \in 0 .. PackSnapshots /\ ends \in 0 .. PackDeaths

(* A run is of a task that was queued, whose key is claimed.               *)
PackQueued(t) ==
    /\ t \in queue => jobs[t] # "none"
    /\ runs[t] # Modpacks!Idle
           => jobs[t] # "none" /\ runs[t].pc \in Places(t.kind)
    /\ jobs[t] # "none" => claims[t] # None
    /\ requesting[t] # Modpacks!Idle
           => requesting[t].pc \in {"claim", "create", "enqueue"}
    /\ requesting[t].pc = "create" => claims[t] # None
    /\ requesting[t].pc = "enqueue" => jobs[t] # "none"

(* A preview makes the manifest of a deployment that has none.             *)
PreviewsIt(t) ==
    t.kind = "preview" =>
        /\ runs[t].pc \in {"claim", "keep", "snapshot", "freeze"} =>
              /\ runs[t].copy \in Modpacks!Deployment
              /\ runs[t].copy.manifest = Of(t).manifest
        /\ runs[t].pc \in {"keep", "snapshot", "freeze"}
               => Of(t).status = "previewing"
        /\ runs[t].pc = "keep" => Of(t).manifest # None
        /\ runs[t].pc \in {"snapshot", "freeze"} => Of(t).manifest = None
        /\ runs[t].pc = "freeze" => runs[t].made \in Modpacks!Snapshots

(* An apply is of the manifest that its request named.                     *)
AppliesIt(t) ==
    t.kind = "apply" =>
        /\ runs[t].pc
               \in {"claim", "target", "stage", "switch", "undo", "done"} =>
              runs[t].copy \in Modpacks!Deployment
                  /\ runs[t].copy.manifest = Of(t).manifest
        /\ requesting[t] # Modpacks!Idle => requesting[t].body = Of(t).manifest
        /\ claims[t] # None => claims[t] = Of(t).manifest

HoldsIt(t) ==
    Holds(t) =>
        /\ Of(t).status = Modpacks!Into(t)
        /\ t.kind = "rollback" => runs[t].made = Of(t).manifest
        /\ runs[t].pc = "done" =>
              machine[t.target] = [did |-> Did(t), manifest |-> Of(t).manifest]

OneHolds == \A t, u \in DraftJobs : t.target = u.target /\ Holds(t) /\ Holds(u)
    => t = u

Frozen ==
    \A d \in Packs :
        modpack[d].status \notin {"draft", "previewing"}
            => modpack[d].manifest # None

Agree(t) == PackQueued(t) /\ PreviewsIt(t) /\ AppliesIt(t) /\ HoldsIt(t)

PackKept ==
    /\ PackRecords /\ Frozen /\ OneHolds /\ Modpacks!RecordFollowsMachine
    /\ \A t \in DraftJobs : Agree(t)

-----------------------------------------------------------------------------
(* Who is at a place runs.                                                 *)
LEMMA RunIs ==
    ASSUME PackRecords, NEW t \in DraftJobs
    PROVE  /\ runs[t] = Modpacks!Idle \/ runs[t] \in PackRun
           /\ runs[t].pc # "idle" => runs[t] \in PackRun
           /\ runs[t] \in PackRun
                  => runs[t].pc # "idle" /\ runs[t] # Modpacks!Idle
           /\ requesting[t] = Modpacks!Idle \/ requesting[t] \in PackRequest
           /\ requesting[t].pc # "idle" => requesting[t] \in PackRequest
           /\ requesting[t] \in PackRequest
                  => requesting[t].pc # "idle" /\ requesting[t] # Modpacks!Idle
<1>1. /\ runs[t] \in PackRun \cup {Modpacks!Idle}
      /\ requesting[t] \in PackRequest \cup {Modpacks!Idle}
  BY DEF PackRecords
<1>2. \A r \in PackRun : r.pc # "idle" /\ r # Modpacks!Idle
  BY DEF PackRun, Modpacks!Idle
<1>3. \A q \in PackRequest : q.pc # "idle" /\ q # Modpacks!Idle
  BY DEF PackRequest, Modpacks!Idle
<1>4. Modpacks!Idle.pc = "idle"
  BY DEF Modpacks!Idle
<1> QED BY <1>1, <1>2, <1>3, <1>4

LEMMA RunMoves ==
    ASSUME PackRecords, NEW t \in DraftJobs, runs[t] \in PackRun, NEW pc, NEW x
    PROVE  /\ Modpacks!Go(t, pc) =>
                 runs' = [runs EXCEPT ![t] =
                    [pc |-> pc, copy |-> runs[t].copy, made |-> runs[t].made,
                     found |-> runs[t].found]]
           /\ Modpacks!GoWith(t, pc, x) =>
                 runs' = [runs EXCEPT ![t] =
                    [pc |-> pc, copy |-> x, made |-> runs[t].made,
                     found |-> runs[t].found]]
           /\ Modpacks!Made(t, pc, x) =>
                 runs' = [runs EXCEPT ![t] =
                    [pc |-> pc, copy |-> runs[t].copy, made |-> x,
                     found |-> runs[t].found]]
<1> DEFINE r == runs[t]
<1>1. r \in PackRun /\ r = runs[t]
          /\ runs \in [DraftJobs -> PackRun \cup {Modpacks!Idle}]
  BY DEF PackRecords
<1> HIDE DEF r
<1>2. Modpacks!Go(t, pc) => runs' = [runs EXCEPT ![t] = [r EXCEPT !.pc = pc]]
  BY <1>1 DEF Modpacks!Go
<1>3. Modpacks!GoWith(t, pc, x)
          => runs' = [runs EXCEPT ![t] = [r EXCEPT !.pc = pc, !.copy = x]]
  BY <1>1 DEF Modpacks!GoWith
<1>4. Modpacks!Made(t, pc, x)
          => runs' = [runs EXCEPT ![t] = [r EXCEPT !.pc = pc, !.made = x]]
  BY <1>1 DEF Modpacks!Made
<1> DEFINE s == [pc |-> pc, copy |-> r.copy, made |-> r.made, found |-> r.found]
<1>5. [r EXCEPT !.pc = pc] = s
  BY <1>1 DEF PackRun
<1>6. /\ [r EXCEPT !.pc = pc, !.copy = x] = [s EXCEPT !.copy = x]
      /\ [r EXCEPT !.pc = pc, !.made = x] = [s EXCEPT !.made = x]
  <2> HIDE DEF s
  <2>1. [r EXCEPT !.pc = pc, !.copy = x]
            = [[r EXCEPT !.pc = pc] EXCEPT !.copy = x]
    OBVIOUS
  <2>2. [r EXCEPT !.pc = pc, !.made = x]
            = [[r EXCEPT !.pc = pc] EXCEPT !.made = x]
    OBVIOUS
  <2> QED BY <1>5, <2>1, <2>2
<1>7. /\ [s EXCEPT !.copy = x]
            = [pc |-> pc, copy |-> x, made |-> r.made, found |-> r.found]
      /\ [s EXCEPT !.made = x]
            = [pc |-> pc, copy |-> r.copy, made |-> x, found |-> r.found]
  OBVIOUS
<1> QED
  <2> HIDE DEF s
  <2>1. r.copy = runs[t].copy /\ r.made = runs[t].made
            /\ r.found = runs[t].found
    BY <1>1
  <2>2. Modpacks!Go(t, pc) => runs' = [runs EXCEPT ![t] =
            [pc |-> pc, copy |-> r.copy, made |-> r.made, found |-> r.found]]
    BY <1>2, <1>5 DEF s
  <2>3. Modpacks!GoWith(t, pc, x) => runs' = [runs EXCEPT ![t] =
            [pc |-> pc, copy |-> x, made |-> r.made, found |-> r.found]]
    BY <1>3, <1>6, <1>7
  <2>4. Modpacks!Made(t, pc, x) => runs' = [runs EXCEPT ![t] =
            [pc |-> pc, copy |-> r.copy, made |-> x, found |-> r.found]]
    BY <1>4, <1>6, <1>7
  <2> QED BY <2>1, <2>2, <2>3, <2>4

(* A run that is put.                                                      *)
LEMMA RunPut ==
    ASSUME PackRecords, NEW t \in DraftJobs,
           NEW y \in PackRun \cup {Modpacks!Idle},
           runs' = [runs EXCEPT ![t] = y]
    PROVE  /\ runs' \in [DraftJobs -> PackRun \cup {Modpacks!Idle}]
           /\ runs'[t] = y
           /\ \A u \in DraftJobs : u # t => runs'[u] = runs[u]
BY DEF PackRecords

LEMMA AskMoves ==
    ASSUME PackRecords, NEW t \in DraftJobs, requesting[t] \in PackRequest,
           NEW pc,
               Modpacks!AskNext(t, pc),
           pc \in {"complete", "claim", "create", "put", "enqueue"}
    PROVE  /\ requesting' \in [DraftJobs -> PackRequest \cup {Modpacks!Idle}]
           /\ requesting'[t]
                  = [pc |-> pc, body |-> requesting[t].body,
                      read |-> requesting[t].read]
           /\ \A u \in DraftJobs : u # t => requesting'[u] = requesting[u]
<1> DEFINE q == requesting[t]
<1>1. q \in PackRequest /\ q = requesting[t]
          /\ requesting \in [DraftJobs -> PackRequest \cup {Modpacks!Idle}]
  BY DEF PackRecords
<1> HIDE DEF q
<1>2. requesting' = [requesting EXCEPT ![t] = [q EXCEPT !.pc = pc]]
  BY <1>1 DEF Modpacks!AskNext
<1>3. [q EXCEPT !.pc = pc] = [pc |-> pc, body |-> q.body, read |-> q.read]
  BY <1>1 DEF PackRequest
<1>5. [pc |-> pc, body |-> q.body, read |-> q.read] \in PackRequest
  BY <1>1 DEF PackRequest
<1>4. /\ requesting'[t] = [q EXCEPT !.pc = pc]
      /\ \A u \in DraftJobs : u # t => requesting'[u] = requesting[u]
  BY <1>1, <1>2
<1>6. requesting' \in [DraftJobs -> PackRequest \cup {Modpacks!Idle}]
  BY <1>1, <1>2, <1>3, <1>5
<1> QED BY <1>1, <1>3, <1>4, <1>6
-----------------------------------------------------------------------------
(* What another task does leaves a task as it agreed.                      *)
SameTask(u) ==
    /\ runs'[u] = runs[u] /\ requesting'[u] = requesting[u]
    /\ claims'[u] = claims[u] /\ jobs'[u] = jobs[u]
    /\ u \in queue' => u \in queue

Apart(u) ==
    /\ ~Holds(u)
    /\ ~(u.kind = "preview" /\ runs[u].pc \in {"keep", "snapshot", "freeze"})
    /\ \/ Of(u)'.manifest = Of(u).manifest
       \/ Of(u).manifest = None /\ u.kind # "preview"

LEMMA AgreeStays ==
    ASSUME OwnersTasks, Modpacks!DeploymentsAssumption, PackRecords,
           NEW u \in DraftJobs,
               Agree(u), SameTask(u),
           \/ Of(u)' = Of(u) /\ machine'[u.target] = machine[u.target]
           \/ Apart(u)
    PROVE  Agree(u)'
<1>1. PackQueued(u)'
  <2>1. Places(u.kind)' = Places(u.kind) /\ Modpacks!Idle' = Modpacks!Idle
    BY DEF Places, Modpacks!Idle
  <2> QED BY <2>1 DEF Agree, SameTask, PackQueued
<1>2. Holds(u)' = Holds(u) /\ (Modpacks!Into(u))' = Modpacks!Into(u)
  BY DEF SameTask, Holds, Modpacks!Into
<1>3. CASE Of(u)' = Of(u) /\ machine'[u.target] = machine[u.target]
  <2>1. PreviewsIt(u)'
    BY <1>3 DEF Agree, SameTask, PreviewsIt
  <2>2. AppliesIt(u)'
    BY <1>3 DEF Agree, SameTask, AppliesIt
  <2>3. HoldsIt(u)'
    BY <1>2, <1>3 DEF Agree, SameTask, HoldsIt, Did
  <2> QED BY <1>1, <2>1, <2>2, <2>3 DEF Agree
<1>4. CASE Apart(u)
  <2>1. PreviewsIt(u)'
    BY <1>4 DEF Agree, SameTask, PreviewsIt, Apart
  <2>2. HoldsIt(u)'
    BY <1>2, <1>4 DEF HoldsIt, Apart
  <2>3. AppliesIt(u)'
    <3>1. CASE Of(u)'.manifest = Of(u).manifest
      BY <3>1 DEF Agree, SameTask, AppliesIt
    <3>2. CASE Of(u).manifest = None
      <4> SUFFICES ASSUME u.kind = "apply" PROVE AppliesIt(u)'
        BY DEF AppliesIt
      <4>1. claims[u] = None
        BY <3>2
           DEF Agree, AppliesIt, PackRecords, Modpacks!DeploymentsAssumption
      <4>2. runs[u] = Modpacks!Idle
        BY <4>1 DEF Agree, PackQueued
      <4>3. requesting[u] = Modpacks!Idle
        <5>1. requesting[u] # Modpacks!Idle
                  => requesting[u] \in PackRequest /\ requesting[u].body = None
          BY <3>2 DEF Agree, AppliesIt, PackRecords
        <5> QED BY <5>1 DEF PackRequest, Modpacks!DeploymentsAssumption
      <4>4. Modpacks!Idle.pc = "idle"
        BY DEF Modpacks!Idle
      <4> QED BY <4>1, <4>2, <4>3, <4>4 DEF SameTask, AppliesIt
    <3> QED BY <1>4, <3>1, <3>2 DEF Apart
  <2> QED BY <1>1, <2>1, <2>2, <2>3 DEF Agree
<1> QED BY <1>3, <1>4

LEMMA AloneKeeps ==
    ASSUME OwnersTasks, Modpacks!DeploymentsAssumption, PackKept,
           NEW t \in DraftJobs,
           PackRecords', modpack' = modpack, machine' = machine,
           \A u \in DraftJobs : u # t => SameTask(u),
           Agree(t)', Holds(t)' => Holds(t)
    PROVE  PackKept'
<1>1. \A u \in DraftJobs : Agree(u)'
  <2> TAKE u \in DraftJobs
  <2>1. CASE u = t
    BY <2>1
  <2>2. CASE u # t
    <3>1. Of(u)' = Of(u) /\ machine'[u.target] = machine[u.target]
      BY DEF Of
    <3> QED BY <2>2, <3>1, AgreeStays DEF PackKept
  <2> QED BY <2>1, <2>2
<1>2. OneHolds'
  <2>1. \A u \in DraftJobs : Holds(u)' => Holds(u)
    BY DEF SameTask, Holds
  <2> QED BY <2>1 DEF PackKept, OneHolds
<1>3. Frozen' /\ Modpacks!RecordFollowsMachine'
  BY DEF PackKept, Frozen, Modpacks!RecordFollowsMachine, Modpacks!Is
<1> QED BY <1>1, <1>2, <1>3 DEF PackKept
-----------------------------------------------------------------------------
(* Requests.                                                               *)
LEMMA AskKeeps ==
    ASSUME OwnersTasks, Modpacks!DeploymentsAssumption, PackKept,
           NEW t \in DraftJobs, Modpacks!Ask(t)
    PROVE  PackKept'
<1> DEFINE q == [pc |-> "claim", body |-> Modpacks!Body(t), read |-> imported]
<1>1. PackRecords /\ Frozen /\ Agree(t)
          /\ t.kind \in {"preview", "apply", "rollback"}
  BY DEF PackKept, OwnersTasks
<1>2. requesting' = [requesting EXCEPT ![t] = q]
  BY <1>1 DEF Modpacks!Ask
<1>3. q \in PackRequest
  <2>1. t.target \in Packs
    BY <1>1 DEF Modpacks!DeploymentsAssumption
  <2>2. Modpacks!Body(t) \in 0 .. PackSnapshots
    BY <1>1, <2>1
       DEF Modpacks!Body, PackRecords, Modpacks!Deployment, Modpacks!Snapshots,
           Modpacks!DeploymentsAssumption
  <2> QED BY <1>1, <2>2 DEF PackRequest, PackRecords
<1>4. q.pc = "claim" /\ q.body = Modpacks!Body(t)
  OBVIOUS
<1> HIDE DEF q
<1>5. /\ requesting' \in [DraftJobs -> PackRequest \cup {Modpacks!Idle}]
      /\ requesting'[t] = q
      /\ \A u \in DraftJobs : u # t => requesting'[u] = requesting[u]
  BY <1>1, <1>2, <1>3 DEF PackRecords
<1>6. PackRecords'
  BY <1>1, <1>5 DEF PackRecords, Modpacks!Ask, Modpacks!repository
<1>7. \A u \in DraftJobs : u # t => SameTask(u)
  BY <1>5 DEF SameTask, Modpacks!Ask, Modpacks!repository
<1>8. Agree(t)'
  <2>1. UNCHANGED <<queue, jobs, runs, claims, modpack, machine>>
            /\ claims[t] = None
    BY DEF Modpacks!Ask, Modpacks!repository
  <2>2. PackQueued(t)'
    <3>1. Places(t.kind)' = Places(t.kind) /\ Modpacks!Idle' = Modpacks!Idle
      BY DEF Places, Modpacks!Idle
    <3> QED BY <1>1, <1>4, <1>5, <2>1, <3>1 DEF Agree, PackQueued
  <2>3. PreviewsIt(t)' /\ HoldsIt(t)'
    BY <1>1, <2>1 DEF Agree, PreviewsIt, HoldsIt, Holds, Of, Modpacks!Into, Did
  <2>4. AppliesIt(t)'
    <3> SUFFICES ASSUME t.kind = "apply" PROVE AppliesIt(t)'
      BY DEF AppliesIt
    <3>1. t.target \in Packs
              /\ Modpacks!Is(t.target,
                     {"previewed", "applying", "applied", "apply_failed"})
      BY <1>1 DEF Modpacks!DeploymentsAssumption, Modpacks!Ask, Modpacks!Askable
    <3>2. Of(t).manifest # None
      BY <1>1, <3>1 DEF Modpacks!Is, Of, Frozen
    <3>3. q.body = Of(t).manifest
      BY <1>4, <3>2 DEF Modpacks!Body, Of
    <3> QED BY <1>1, <1>5, <2>1, <3>3 DEF Agree, AppliesIt, Of
  <2> QED BY <2>2, <2>3, <2>4 DEF Agree
<1>9. modpack' = modpack /\ machine' = machine /\ (Holds(t)' => Holds(t))
  BY DEF Modpacks!Ask, Modpacks!repository, Holds
<1> QED BY <1>6, <1>7, <1>8, <1>9, AloneKeeps

(* A request at a place has read the import.                               *)
LEMMA RequestAt ==
    ASSUME PackRecords, NEW t \in DraftJobs, NEW pc, Modpacks!Asking(t, pc),
           pc # "idle"
    PROVE  requesting[t] \in PackRequest /\ requesting[t] # Modpacks!Idle
BY RunIs DEF Modpacks!Asking

LEMMA ClaimKeeps ==
    ASSUME OwnersTasks, Modpacks!DeploymentsAssumption, PackKept,
           NEW t \in DraftJobs,
               Modpacks!Claim(t)
    PROVE  PackKept'
<1>1. PackRecords /\ Agree(t) /\ requesting[t] \in PackRequest
          /\ requesting[t] # Modpacks!Idle
  BY RequestAt DEF PackKept, Modpacks!Claim
<1>2. /\ requesting' \in [DraftJobs -> PackRequest \cup {Modpacks!Idle}]
      /\ requesting'[t]
             = [pc |-> "create", body |-> requesting[t].body,
                 read |-> requesting[t].read]
      /\ \A u \in DraftJobs : u # t => requesting'[u] = requesting[u]
  BY <1>1, AskMoves DEF Modpacks!Claim
<1>3. requesting[t].body \in 0 .. PackSnapshots /\ requesting[t].body # None
  BY <1>1 DEF PackRequest, Modpacks!DeploymentsAssumption
<1>4. /\ claims' \in [DraftJobs -> 0 .. PackSnapshots \cup {None}]
      /\ claims'[t] = requesting[t].body /\ \A u \in DraftJobs : u # t
             => claims'[u] = claims[u]
  BY <1>1, <1>3 DEF Modpacks!Claim, PackRecords
<1>6. PackRecords'
  BY <1>1, <1>2, <1>4 DEF PackRecords, Modpacks!Claim
<1>7. \A u \in DraftJobs : u # t => SameTask(u)
  BY <1>2, <1>4 DEF SameTask, Modpacks!Claim
<1>8. Agree(t)'
  <2>1. UNCHANGED <<queue, jobs, runs, modpack, machine>>
    BY DEF Modpacks!Claim
  <2>2. PackQueued(t)'
    <3>1. Places(t.kind)' = Places(t.kind) /\ Modpacks!Idle' = Modpacks!Idle
      BY DEF Places, Modpacks!Idle
    <3> QED BY <1>1, <1>2, <1>3, <1>4, <2>1, <3>1 DEF Agree, PackQueued
  <2>3. PreviewsIt(t)' /\ HoldsIt(t)'
    BY <1>1, <2>1 DEF Agree, PreviewsIt, HoldsIt, Holds, Of, Modpacks!Into, Did
  <2>4. AppliesIt(t)'
    BY <1>1, <1>2, <1>4, <2>1 DEF Agree, AppliesIt, Of
  <2> QED BY <2>2, <2>3, <2>4 DEF Agree
<1>9. modpack' = modpack /\ machine' = machine /\ (Holds(t)' => Holds(t))
  BY DEF Modpacks!Claim, Holds
<1> QED BY <1>6, <1>7, <1>8, <1>9, AloneKeeps

LEMMA CreateKeeps ==
    ASSUME OwnersTasks, Modpacks!DeploymentsAssumption, PackKept,
           NEW t \in DraftJobs,
               Modpacks!CreateTask(t)
    PROVE  PackKept'
<1>1. PackRecords /\ Agree(t) /\ requesting[t] \in PackRequest
          /\ requesting[t] # Modpacks!Idle
          /\ t.kind # "prepare"
  BY RequestAt DEF PackKept, Modpacks!CreateTask, OwnersTasks
<1>2. /\ requesting' \in [DraftJobs -> PackRequest \cup {Modpacks!Idle}]
      /\ requesting'[t]
             = [pc |-> "enqueue", body |-> requesting[t].body,
                 read |-> requesting[t].read]
      /\ \A u \in DraftJobs : u # t => requesting'[u] = requesting[u]
  BY <1>1, AskMoves DEF Modpacks!CreateTask
<1>3. claims[t] # None
  BY <1>1 DEF Modpacks!CreateTask, Modpacks!Asking, Agree, PackQueued
<1>4. /\ jobs' \in [DraftJobs -> {"none", "queued", "running", "succeeded",
             "failed"}]
      /\ jobs'[t] = "queued" /\ \A u \in DraftJobs : u # t => jobs'[u] = jobs[u]
  BY <1>1 DEF Modpacks!CreateTask, PackRecords
<1>6. PackRecords'
  BY <1>1, <1>2, <1>4 DEF PackRecords, Modpacks!CreateTask
<1>7. \A u \in DraftJobs : u # t => SameTask(u)
  BY <1>2, <1>4 DEF SameTask, Modpacks!CreateTask
<1>8. Agree(t)'
  <2>1. UNCHANGED <<queue, claims, runs, modpack, machine>>
    BY DEF Modpacks!CreateTask
  <2>2. PackQueued(t)'
    <3>1. Places(t.kind)' = Places(t.kind) /\ Modpacks!Idle' = Modpacks!Idle
      BY DEF Places, Modpacks!Idle
    <3> QED BY <1>1, <1>2, <1>3, <1>4, <2>1, <3>1 DEF Agree, PackQueued
  <2>3. PreviewsIt(t)' /\ HoldsIt(t)'
    BY <1>1, <2>1 DEF Agree, PreviewsIt, HoldsIt, Holds, Of, Modpacks!Into, Did
  <2>4. AppliesIt(t)'
    BY <1>1, <1>2, <2>1 DEF Agree, AppliesIt, Of
  <2> QED BY <2>2, <2>3, <2>4 DEF Agree
<1>9. modpack' = modpack /\ machine' = machine /\ (Holds(t)' => Holds(t))
  BY DEF Modpacks!CreateTask, Holds
<1> QED BY <1>6, <1>7, <1>8, <1>9, AloneKeeps

LEMMA EnqueueKeeps ==
    ASSUME OwnersTasks, Modpacks!DeploymentsAssumption, PackKept,
           NEW t \in DraftJobs,
               Modpacks!Enqueue(t)
    PROVE  PackKept'
<1>1. PackRecords /\ Agree(t) /\ requesting[t] \in PackRequest
          /\ requesting[t] # Modpacks!Idle
  BY RequestAt DEF PackKept, Modpacks!Enqueue
<1>2. /\ requesting' \in [DraftJobs -> PackRequest \cup {Modpacks!Idle}]
      /\ requesting'[t] = Modpacks!Idle
      /\ \A u \in DraftJobs : u # t => requesting'[u] = requesting[u]
  BY <1>1 DEF Modpacks!Enqueue, PackRecords
<1>3. jobs[t] # "none"
  BY <1>1 DEF Modpacks!Enqueue, Modpacks!Asking, Agree, PackQueued
<1>6. PackRecords'
  BY <1>1, <1>2 DEF PackRecords, Modpacks!Enqueue, Modpacks!repository
<1>7. \A u \in DraftJobs : u # t => SameTask(u)
  BY <1>2 DEF SameTask, Modpacks!Enqueue, Modpacks!repository
<1>8. Agree(t)'
  <2>1. UNCHANGED <<jobs, claims, runs, modpack, machine>>
            /\ Modpacks!Idle.pc = "idle"
    BY DEF Modpacks!Enqueue, Modpacks!repository, Modpacks!Idle
  <2>2. PackQueued(t)'
    <3>1. Places(t.kind)' = Places(t.kind) /\ Modpacks!Idle' = Modpacks!Idle
      BY DEF Places, Modpacks!Idle
    <3> QED BY <1>1, <1>2, <1>3, <2>1, <3>1 DEF Agree, PackQueued
  <2>3. PreviewsIt(t)' /\ HoldsIt(t)'
    BY <1>1, <2>1 DEF Agree, PreviewsIt, HoldsIt, Holds, Of, Modpacks!Into, Did
  <2>4. AppliesIt(t)'
    BY <1>1, <1>2, <2>1 DEF Agree, AppliesIt, Of, Modpacks!Idle
  <2> QED BY <2>2, <2>3, <2>4 DEF Agree
<1>9. modpack' = modpack /\ machine' = machine /\ (Holds(t)' => Holds(t))
  BY DEF Modpacks!Enqueue, Modpacks!repository, Holds
<1> QED BY <1>6, <1>7, <1>8, <1>9, AloneKeeps

(* Owners complete no import and prepare no deployment.                    *)
LEMMA OwnersDoNot ==
    ASSUME OwnersTasks, PackKept, NEW t \in DraftJobs
    PROVE  ~(Modpacks!Complete(t) \/ Modpacks!PutDeployment(t)
               \/ Modpacks!Mark(t) \/ Modpacks!Validate(t)
               \/ Modpacks!Report(t))
<1>1. PackRecords /\ Agree(t) /\ t.kind \in {"preview", "apply", "rollback"}
  BY DEF PackKept, OwnersTasks
<1>2. requesting[t].pc \notin {"complete", "put"}
  BY <1>1, RunIs DEF Agree, PackQueued
<1>3. runs[t].pc \notin {"mark", "archive", "report"}
  BY <1>1, RunIs DEF Agree, PackQueued, Places
<1> QED BY <1>2, <1>3
           DEF Modpacks!Complete, Modpacks!PutDeployment, Modpacks!Mark,
               Modpacks!Validate, Modpacks!Report, Modpacks!Asking, Modpacks!At
-----------------------------------------------------------------------------
(* A run that goes on, and does nothing to the deployment or the machine.  *)
LEMMA MoveKeeps ==
    ASSUME OwnersTasks, Modpacks!DeploymentsAssumption, PackKept,
           NEW t \in DraftJobs,
           NEW y \in PackRun, runs[t] \in PackRun,
               runs' = [runs EXCEPT ![t] = y],
           y.pc \in Places(t.kind),
           UNCHANGED <<imported, validated, modpack, jobs, machine>>,
           UNCHANGED Modpacks!Elsewhere, snapshots' \in 0 .. PackSnapshots,
           t.kind = "preview" =>
              /\ y.pc \in {"claim", "keep", "snapshot", "freeze"} =>
                    y.copy \in Modpacks!Deployment
                        /\ y.copy.manifest = Of(t).manifest
              /\ y.pc \in {"keep", "snapshot", "freeze"} =>
                    runs[t].pc = "snapshot" /\ y.pc = "freeze"
                        /\ y.made \in Modpacks!Snapshots,
           t.kind = "apply"
               /\ y.pc \in {"claim", "target", "stage", "switch", "undo",
                      "done"} =>
              y.copy \in Modpacks!Deployment
                  /\ y.copy.manifest = Of(t).manifest,
           y.pc \in {"target", "stage", "switch", "restore", "undo", "done"} =>
              Holds(t) /\ y.made = runs[t].made /\ y.pc # "done"
    PROVE  PackKept'
<1>1. PackRecords /\ Agree(t)
  BY DEF PackKept
<1>2. /\ runs' \in [DraftJobs -> PackRun \cup {Modpacks!Idle}] /\ runs'[t] = y
      /\ \A u \in DraftJobs : u # t => runs'[u] = runs[u]
  BY <1>1, RunPut
<1>3. UNCHANGED <<imported, validated, modpack, jobs, machine, claims,
          queue,
                  requesting, running, ends>>
  BY DEF Modpacks!Elsewhere
<1>6. PackRecords'
  BY <1>1, <1>2, <1>3 DEF PackRecords
<1>7. \A u \in DraftJobs : u # t => SameTask(u)
  BY <1>2, <1>3 DEF SameTask
<1>8. Agree(t)'
  <2>2. PackQueued(t)'
    <3>1. Places(t.kind)' = Places(t.kind) /\ Modpacks!Idle' = Modpacks!Idle
      BY DEF Places, Modpacks!Idle
    <3>2. runs[t] # Modpacks!Idle
      BY <1>1, RunIs
    <3> QED BY <1>1, <1>2, <1>3, <3>1, <3>2 DEF Agree, PackQueued
  <2>3. PreviewsIt(t)'
    BY <1>1, <1>2, <1>3 DEF Agree, PreviewsIt, Of
  <2>4. AppliesIt(t)'
    BY <1>1, <1>2, <1>3 DEF Agree, AppliesIt, Of
  <2>5. HoldsIt(t)'
    <3>1. Of(t)' = Of(t) /\ (Modpacks!Into(t))' = Modpacks!Into(t)
      BY <1>3 DEF Of, Modpacks!Into
    <3>2. Holds(t)' => Holds(t) /\ y.made = runs[t].made /\ y.pc # "done"
      BY <1>2 DEF Holds
    <3> QED BY <1>1, <1>2, <1>3, <3>1, <3>2 DEF Agree, HoldsIt
  <2> QED BY <2>2, <2>3, <2>4, <2>5 DEF Agree
<1>9. modpack' = modpack /\ machine' = machine /\ (Holds(t)' => Holds(t))
  BY <1>2, <1>3 DEF Holds
<1> QED BY <1>6, <1>7, <1>8, <1>9, AloneKeeps

(* What a run at a place is.                                               *)
LEMMA RunAt ==
    ASSUME PackRecords, NEW t \in DraftJobs, NEW pc, Modpacks!At(t, pc),
           pc # "idle"
    PROVE  runs[t] \in PackRun /\ runs[t] # Modpacks!Idle /\ runs[t].pc = pc
BY RunIs DEF Modpacks!At

(* A run that fails.                                                       *)
LEMMA FailKeeps ==
    ASSUME OwnersTasks, Modpacks!DeploymentsAssumption, PackKept,
           NEW t \in DraftJobs,
           runs[t] \in PackRun, Modpacks!Go(t, "bad"),
           UNCHANGED <<imported, validated, modpack, jobs, machine>>,
           UNCHANGED Modpacks!Elsewhere, snapshots' \in 0 .. PackSnapshots
    PROVE  PackKept'
<1> DEFINE y == [pc |-> "bad", copy |-> runs[t].copy, made |-> runs[t].made,
                 found |-> runs[t].found]
<1>1. runs' = [runs EXCEPT ![t] = y]
  BY RunMoves DEF PackKept
<1>2. y \in PackRun /\ y.pc = "bad"
  BY DEF PackRun
<1>3. "bad" \in Places(t.kind)
  BY DEF OwnersTasks, Places
<1> HIDE DEF y
<1> QED BY <1>1, <1>2, <1>3, MoveKeeps

LEMMA ReadKeeps ==
    ASSUME OwnersTasks, Modpacks!DeploymentsAssumption, PackKept,
           NEW t \in DraftJobs,
               Modpacks!Read(t)
    PROVE  PackKept'
<1>1. PackRecords /\ runs[t] \in PackRun /\ runs[t].pc = "read"
  BY RunAt DEF PackKept, Modpacks!Read
<1>2. t.kind \in {"preview", "apply", "rollback"} /\ t.target \in Packs
  BY DEF OwnersTasks, Modpacks!DeploymentsAssumption
<1>3. /\ UNCHANGED <<imported, validated, modpack, jobs, machine>>
      /\ UNCHANGED Modpacks!Elsewhere /\ snapshots' \in 0 .. PackSnapshots
  BY <1>1 DEF Modpacks!Read, PackRecords
<1>4. Modpacks!GoWith(t, "claim", Of(t)) \/ Modpacks!Go(t, "bad")
  BY <1>2 DEF Modpacks!Read, Of
<1>5. CASE Modpacks!GoWith(t, "claim", Of(t))
  <2> DEFINE y == [pc |-> "claim", copy |-> Of(t), made |-> runs[t].made,
                   found |-> runs[t].found]
  <2>1. runs' = [runs EXCEPT ![t] = y]
    BY <1>1, <1>5, RunMoves
  <2>2. Of(t) \in Modpacks!Deployment
    BY <1>1, <1>2 DEF Of, PackRecords
  <2>3. y \in PackRun /\ y.pc = "claim" /\ y.copy = Of(t)
    BY <1>1, <2>2 DEF PackRun
  <2>4. "claim" \in Places(t.kind)
    BY <1>2 DEF Places
  <2> HIDE DEF y
  <2> QED BY <1>1, <1>3, <2>1, <2>2, <2>3, <2>4, MoveKeeps
<1> QED BY <1>1, <1>3, <1>4, <1>5, FailKeeps

LEMMA SnapshotKeeps ==
    ASSUME OwnersTasks, Modpacks!DeploymentsAssumption, PackKept,
           NEW t \in DraftJobs,
               Modpacks!Snapshot(t)
    PROVE  PackKept'
<1>1. PackRecords /\ Agree(t) /\ runs[t] \in PackRun /\ runs[t].pc = "snapshot"
  BY RunAt DEF PackKept, Modpacks!Snapshot
<1>2. t.kind = "preview"
  <2>1. runs[t].pc \in Places(t.kind)
            /\ t.kind \in {"preview", "apply", "rollback"}
    BY <1>1, RunIs DEF Agree, PackQueued, OwnersTasks
  <2> QED BY <1>1, <2>1 DEF Places
<1>3. /\ UNCHANGED <<imported, validated, modpack, jobs, machine>>
      /\ UNCHANGED Modpacks!Elsewhere
  BY DEF Modpacks!Snapshot
<1>4. CASE snapshots < PackSnapshots /\ snapshots' = snapshots + 1
               /\ Modpacks!Made(t, "freeze", snapshots + 1)
  <2> DEFINE y ==
          [pc |-> "freeze", copy |-> runs[t].copy, made |-> snapshots + 1,
                   found |-> runs[t].found]
  <2>1. runs' = [runs EXCEPT ![t] = y]
    BY <1>1, <1>4, RunMoves
  <2>2. snapshots + 1 \in Modpacks!Snapshots
            /\ snapshots' \in 0 .. PackSnapshots
    BY <1>1, <1>4
       DEF Modpacks!Snapshots, PackRecords, Modpacks!DeploymentsAssumption
  <2>3. y \in PackRun /\ y.pc = "freeze" /\ y.copy = runs[t].copy
            /\ y.made = snapshots + 1
    BY <1>1, <2>2 DEF PackRun
  <2>4. "freeze" \in Places(t.kind)
    BY <1>2 DEF Places
  <2>5. runs[t].copy \in Modpacks!Deployment
            /\ runs[t].copy.manifest = Of(t).manifest
    BY <1>1, <1>2 DEF Agree, PreviewsIt
  <2> HIDE DEF y
  <2> QED BY <1>1, <1>2, <1>3, <2>1, <2>2, <2>3, <2>4, <2>5, MoveKeeps
<1>5. CASE Modpacks!Go(t, "bad") /\ UNCHANGED snapshots
  BY <1>1, <1>3, <1>5, FailKeeps DEF PackRecords
<1> QED BY <1>4, <1>5 DEF Modpacks!Snapshot

(* An apply that goes on holding the deployment.                           *)
LEMMA HoldKeeps ==
    ASSUME OwnersTasks, Modpacks!DeploymentsAssumption, PackKept,
           NEW t \in DraftJobs,
           NEW pc \in {"stage", "switch", "undo"}, Modpacks!Go(t, pc),
           runs[t] \in PackRun, runs[t].pc \in {"target", "stage"},
           UNCHANGED <<imported, validated, modpack, jobs, machine>>,
           UNCHANGED Modpacks!Elsewhere, UNCHANGED snapshots
    PROVE  PackKept'
<1> DEFINE y == [pc |-> pc, copy |-> runs[t].copy, made |-> runs[t].made,
                 found |-> runs[t].found]
<1>1. PackRecords /\ Agree(t) /\ runs[t] # Modpacks!Idle
  BY RunIs DEF PackKept
<1>2. t.kind = "apply"
  <2>1. runs[t].pc \in Places(t.kind)
            /\ t.kind \in {"preview", "apply", "rollback"}
    BY <1>1 DEF Agree, PackQueued, OwnersTasks
  <2> QED BY <2>1 DEF Places
<1>3. runs' = [runs EXCEPT ![t] = y]
  BY <1>1, RunMoves
<1>4. y \in PackRun /\ y.pc = pc /\ y.copy = runs[t].copy
          /\ y.made = runs[t].made
  BY DEF PackRun
<1>5. pc \in Places(t.kind) /\ Holds(t)
  BY <1>2 DEF Places, Holds
<1>6. runs[t].copy \in Modpacks!Deployment
          /\ runs[t].copy.manifest = Of(t).manifest
  BY <1>1, <1>2 DEF Agree, AppliesIt
<1>7. snapshots' \in 0 .. PackSnapshots
  BY <1>1 DEF PackRecords
<1> HIDE DEF y
<1> QED BY <1>1, <1>2, <1>3, <1>4, <1>5, <1>6, <1>7, MoveKeeps

LEMMA TargetKeeps ==
    ASSUME OwnersTasks, Modpacks!DeploymentsAssumption, PackKept,
           NEW t \in DraftJobs,
               Modpacks!Target(t)
    PROVE  PackKept'
<1>1. PackRecords /\ runs[t] \in PackRun /\ runs[t].pc = "target"
  BY RunAt DEF PackKept, Modpacks!Target
<1>2. Modpacks!Go(t, "stage") \/ Modpacks!Go(t, "bad")
  BY DEF Modpacks!Target
<1> QED BY <1>1, <1>2, FailKeeps, HoldKeeps DEF Modpacks!Target, PackRecords

LEMMA StageKeeps ==
    ASSUME OwnersTasks, Modpacks!DeploymentsAssumption, PackKept,
           NEW t \in DraftJobs,
               Modpacks!Stage(t)
    PROVE  PackKept'
<1>1. PackRecords /\ runs[t] \in PackRun /\ runs[t].pc = "stage"
  BY RunAt DEF PackKept, Modpacks!Stage
<1>2. Modpacks!Go(t, "switch") \/ Modpacks!Go(t, "undo")
  BY DEF Modpacks!Stage
<1> QED BY <1>1, <1>2, HoldKeeps DEF Modpacks!Stage

LEMMA DeliverKeeps ==
    ASSUME OwnersTasks, Modpacks!DeploymentsAssumption, PackKept,
           NEW t \in DraftJobs,
               Modpacks!Deliver(t)
    PROVE  PackKept'
<1>1. PackRecords /\ Agree(t) /\ t \in queue /\ jobs[t] # "none"
          /\ claims[t] # None
  BY DEF PackKept, Modpacks!Deliver, Agree, PackQueued
<1>2. UNCHANGED <<imported, validated, modpack, claims, requesting, running,
          machine,
                  snapshots, ends>>
  BY DEF Modpacks!Deliver
<1> DEFINE y == [pc |-> "read", copy |-> None, made |-> None, found |-> None]
<1>3. y \in PackRun /\ y.pc = "read"
  BY DEF PackRun
<1> HIDE DEF y
<1>4. \/ jobs' = jobs /\ runs' = runs /\ queue' = queue \ {t}
      \/ jobs' = [jobs EXCEPT ![t] = "running"]
             /\ runs' = [runs EXCEPT ![t] = y]
         /\ queue' = queue
  BY DEF Modpacks!Deliver, y
<1>5. /\ jobs' \in [DraftJobs -> {"none", "queued", "running", "succeeded",
             "failed"}]
      /\ jobs'[t] # "none" /\ \A u \in DraftJobs : u # t => jobs'[u] = jobs[u]
  BY <1>1, <1>4 DEF PackRecords
<1>6. /\ runs' \in [DraftJobs -> PackRun \cup {Modpacks!Idle}]
      /\ runs'[t] \in {runs[t], y}
      /\ \A u \in DraftJobs : u # t => runs'[u] = runs[u]
  BY <1>1, <1>3, <1>4 DEF PackRecords
<1>7. PackRecords'
  BY <1>1, <1>2, <1>4, <1>5, <1>6 DEF PackRecords
<1>8. \A u \in DraftJobs : u # t => SameTask(u)
  BY <1>2, <1>4, <1>5, <1>6 DEF SameTask
<1>9. Agree(t)'
  <2>1. "read" \in Places(t.kind)
    BY DEF OwnersTasks, Places
  <2>2. PackQueued(t)'
    <3>1. Places(t.kind)' = Places(t.kind) /\ Modpacks!Idle' = Modpacks!Idle
      BY DEF Places, Modpacks!Idle
    <3> QED BY <1>1, <1>2, <1>3, <1>5, <1>6, <2>1, <3>1 DEF Agree, PackQueued
  <2>3. PreviewsIt(t)' /\ AppliesIt(t)'
    BY <1>1, <1>2, <1>3, <1>6 DEF Agree, PreviewsIt, AppliesIt, Of
  <2>4. HoldsIt(t)'
    <3>1. Of(t)' = Of(t) /\ (Modpacks!Into(t))' = Modpacks!Into(t)
      BY <1>2 DEF Of, Modpacks!Into
    <3>2. Holds(t)' => Holds(t) /\ runs'[t] = runs[t]
      BY <1>3, <1>6 DEF Holds
    <3> QED BY <1>1, <1>2, <3>1, <3>2 DEF Agree, HoldsIt
  <2> QED BY <2>2, <2>3, <2>4 DEF Agree
<1>10. Holds(t)' => Holds(t)
  BY <1>3, <1>6 DEF Holds
<1> QED BY <1>2, <1>7, <1>8, <1>9, <1>10, AloneKeeps

(* A run that is over.                                                     *)
LEMMA OverKeeps ==
    ASSUME OwnersTasks, Modpacks!DeploymentsAssumption, PackKept,
           NEW t \in DraftJobs,
           runs[t] # Modpacks!Idle, runs' = [runs EXCEPT ![t] = Modpacks!Idle],
           UNCHANGED <<imported, validated, modpack, claims, requesting,
               running,
                       machine, snapshots>>,
           ends' \in 0 .. PackDeaths, queue' \subseteq queue,
           NEW status \in {"succeeded", "failed", jobs[t]},
           jobs' = [jobs EXCEPT ![t] = status]
    PROVE  PackKept'
<1>1. PackRecords /\ Agree(t) /\ jobs[t] # "none" /\ claims[t] # None
  BY DEF PackKept, Agree, PackQueued
<1>2. /\ runs' \in [DraftJobs -> PackRun \cup {Modpacks!Idle}]
      /\ runs'[t] = Modpacks!Idle
      /\ \A u \in DraftJobs : u # t => runs'[u] = runs[u]
  BY <1>1 DEF PackRecords
<1>3. /\ jobs' \in [DraftJobs -> {"none", "queued", "running", "succeeded",
             "failed"}]
      /\ jobs'[t] # "none" /\ \A u \in DraftJobs : u # t => jobs'[u] = jobs[u]
  BY <1>1 DEF PackRecords
<1>4. PackRecords'
  BY <1>1, <1>2, <1>3 DEF PackRecords
<1>5. \A u \in DraftJobs : u # t => SameTask(u)
  BY <1>2, <1>3 DEF SameTask
<1>6. Modpacks!Idle.pc = "idle"
  BY DEF Modpacks!Idle
<1>7. Agree(t)'
  <2>1. PackQueued(t)'
    <3>1. Places(t.kind)' = Places(t.kind) /\ Modpacks!Idle' = Modpacks!Idle
      BY DEF Places, Modpacks!Idle
    <3> QED BY <1>1, <1>2, <1>3, <3>1 DEF Agree, PackQueued
  <2>2. PreviewsIt(t)' /\ AppliesIt(t)'
    BY <1>1, <1>2, <1>6 DEF Agree, PreviewsIt, AppliesIt, Of
  <2>3. HoldsIt(t)'
    BY <1>2, <1>6 DEF HoldsIt, Holds
  <2> QED BY <2>1, <2>2, <2>3 DEF Agree
<1>8. Holds(t)' => Holds(t)
  BY <1>2, <1>6 DEF Holds
<1> QED BY <1>4, <1>5, <1>7, <1>8, AloneKeeps

LEMMA EndKeeps ==
    ASSUME OwnersTasks, Modpacks!DeploymentsAssumption, PackKept,
           NEW t \in DraftJobs, Modpacks!End(t)
    PROVE  PackKept'
<1>1. PackRecords
  BY DEF PackKept
<1>2. runs[t] # Modpacks!Idle
  BY DEF Modpacks!End, Modpacks!Idle
<1> DEFINE status == IF Modpacks!At(t, "ok") THEN "succeeded" ELSE "failed"
<1>3. status \in {"succeeded", "failed", jobs[t]}
          /\ jobs' = [jobs EXCEPT ![t] = status]
  BY DEF Modpacks!End
<1> HIDE DEF status
<1>4. queue' \subseteq queue /\ ends' \in 0 .. PackDeaths
  BY <1>1 DEF Modpacks!End, PackRecords
<1> QED BY <1>2, <1>3, <1>4, OverKeeps DEF Modpacks!End

LEMMA DiesKeeps ==
    ASSUME OwnersTasks, Modpacks!DeploymentsAssumption, PackKept,
           NEW t \in DraftJobs,
               Modpacks!Dies(t)
    PROVE  PackKept'
<1>1. PackRecords
  BY DEF PackKept
<1>2. jobs' = [jobs EXCEPT ![t] = jobs[t]]
  BY <1>1 DEF Modpacks!Dies, Modpacks!repository, PackRecords
<1>3. ends' \in 0 .. PackDeaths
  BY <1>1 DEF Modpacks!Dies, PackRecords, Modpacks!DeploymentsAssumption
<1> QED BY <1>2, <1>3, OverKeeps DEF Modpacks!Dies, Modpacks!repository

LEMMA StopKeeps ==
    ASSUME OwnersTasks, Modpacks!DeploymentsAssumption, PackKept,
           Modpacks!ServerStops
    PROVE  PackKept'
<1>1. PackRecords' /\ Frozen' /\ OneHolds' /\ Modpacks!RecordFollowsMachine'
  BY DEF PackKept, Modpacks!ServerStops, Modpacks!repository, PackRecords,
     Frozen, OneHolds, Holds,
         Modpacks!RecordFollowsMachine, Modpacks!Is
<1>2. \A t \in DraftJobs : Agree(t)'
  BY AgreeStays
     DEF PackKept, Modpacks!ServerStops, Modpacks!repository, SameTask, Of
<1> QED BY <1>1, <1>2 DEF PackKept
-----------------------------------------------------------------------------
(* A task that writes the deployment, or works on the machine.             *)
LEMMA HoldsStatus ==
    ASSUME OwnersTasks, PackRecords, NEW u \in DraftJobs, Agree(u), Holds(u)
    PROVE  /\ u.kind \in {"apply", "rollback"}
           /\ Of(u).status = Modpacks!Into(u)
           /\ Modpacks!Into(u) \in {"applying", "rolling_back"}
<1>1. runs[u] # Modpacks!Idle /\ runs[u].pc \in Places(u.kind)
  BY RunIs DEF Agree, PackQueued, Holds
<1>2. u.kind \in {"apply", "rollback"}
  BY <1>1 DEF OwnersTasks, Places, Holds
<1> QED BY <1>2 DEF Agree, HoldsIt, Modpacks!Into

LEMMA OthersApart ==
    ASSUME OwnersTasks, PackKept, NEW t \in DraftJobs, NEW u \in DraftJobs,
           u # t, u.target = t.target,
           \/ Holds(t)
           \/ /\ Of(t).status \notin {"applying", "rolling_back"}
              /\ t.kind = "preview" \/ Of(t).status # "previewing",
           \/ Of(t)'.manifest = Of(t).manifest
           \/ Of(t).manifest = None /\ t.kind = "preview"
    PROVE  Apart(u)
<1>1. PackRecords /\ Agree(t) /\ Agree(u) /\ Of(u) = Of(t) /\ Of(u)' = Of(t)'
  BY DEF PackKept, Of
<1>2. ~Holds(u)
  BY <1>1, HoldsStatus DEF PackKept, OneHolds
<1>3. t.kind = "preview" => u.kind # "preview"
  BY DEF OwnersTasks
<1>4. ~(u.kind = "preview" /\ runs[u].pc \in {"keep", "snapshot", "freeze"})
  <2> SUFFICES ASSUME u.kind = "preview",
                          runs[u].pc \in {"keep", "snapshot", "freeze"}
               PROVE  FALSE
    OBVIOUS
  <2>1. Of(u).status = "previewing" /\ t.kind # "preview"
    BY <1>1, <1>3 DEF Agree, PreviewsIt
  <2> QED BY <1>1, <2>1, HoldsStatus
<1> QED BY <1>1, <1>2, <1>3, <1>4 DEF Apart

LEMMA WorkKeeps ==
    ASSUME OwnersTasks, Modpacks!DeploymentsAssumption, PackKept,
           NEW t \in DraftJobs,
           PackRecords', Agree(t)', \A u \in DraftJobs : u # t => SameTask(u),
           \A d \in Packs : d # t.target =>
              modpack'[d] = modpack[d] /\ machine'[d] = machine[d],
           \/ Holds(t)
           \/ /\ Of(t).status \notin {"applying", "rolling_back"}
              /\ t.kind = "preview" \/ Of(t).status # "previewing",
           \/ Of(t)'.manifest = Of(t).manifest
           \/ Of(t).manifest = None /\ t.kind = "preview",
           Of(t)'.status \notin {"draft", "previewing"}
               => Of(t)'.manifest # None,
           Of(t)'.status = "applied" =>
              machine'[t.target]
                  = [did |-> "switched", manifest |-> Of(t)'.manifest],
           Of(t)'.status = "rolled_back" =>
              machine'[t.target]
                  = [did |-> "restored", manifest |-> Of(t)'.manifest]
    PROVE  PackKept'
<1>1. PackRecords /\ \A u \in DraftJobs : Agree(u) /\ u.target \in Packs
  BY DEF PackKept, Modpacks!DeploymentsAssumption, OwnersTasks
<1>2. \A u \in DraftJobs : u # t /\ u.target = t.target => Apart(u)
  BY OthersApart
<1>3. \A u \in DraftJobs : Agree(u)'
  <2> TAKE u \in DraftJobs
  <2>1. CASE u = t
    BY <2>1
  <2>2. CASE u # t /\ u.target = t.target
    BY <1>1, <1>2, <2>2, AgreeStays
  <2>3. CASE u # t /\ u.target # t.target
    <3>1. Of(u)' = Of(u) /\ machine'[u.target] = machine[u.target]
      BY <1>1, <2>3 DEF Of
    <3> QED BY <1>1, <2>3, <3>1, AgreeStays
  <2> QED BY <2>1, <2>2, <2>3
<1>4. OneHolds'
  <2> SUFFICES ASSUME NEW u \in DraftJobs, NEW v \in DraftJobs,
                      u.target = v.target,
                      Holds(u)', Holds(v)', u # v
               PROVE  FALSE
    BY DEF OneHolds
  <2>1. \A w \in DraftJobs : w # t => Holds(w)' = Holds(w)
    BY DEF SameTask, Holds
  <2>2. CASE u # t /\ v # t
    BY <2>1, <2>2 DEF PackKept, OneHolds
  <2>3. CASE u = t \/ v = t
    BY <1>2, <2>1, <2>3 DEF Apart
  <2> QED BY <2>2, <2>3
<1>5. Frozen'
  <2> SUFFICES ASSUME NEW d \in Packs,
                          modpack'[d].status \notin {"draft", "previewing"}
               PROVE  modpack'[d].manifest # None
    BY DEF Frozen
  <2> QED BY DEF PackKept, Frozen, Of
<1>6. Modpacks!RecordFollowsMachine'
  <2> SUFFICES ASSUME NEW d \in Packs
               PROVE  /\ Modpacks!Is(d, {"applied"})' =>
                           machine'[d]
                               = [did |-> "switched",
                                   manifest |-> modpack'[d].manifest]
                      /\ Modpacks!Is(d, {"rolled_back"})' =>
                           machine'[d]
                               = [did |-> "restored",
                                   manifest |-> modpack'[d].manifest]
    BY DEF Modpacks!RecordFollowsMachine
  <2>1. CASE d = t.target
    BY <2>1 DEF Modpacks!Is, Of
  <2>2. CASE d # t.target
    BY <2>2 DEF Modpacks!Is, PackKept, Modpacks!RecordFollowsMachine
  <2> QED BY <2>1, <2>2
<1> QED BY <1>3, <1>4, <1>5, <1>6 DEF PackKept

LEMMA TransitionKeeps ==
    ASSUME OwnersTasks, Modpacks!DeploymentsAssumption, PackKept,
           NEW t \in DraftJobs,
               Modpacks!Transition(t)
    PROVE  PackKept'
<1>1. PackRecords /\ Frozen /\ Agree(t) /\ runs[t] \in PackRun
          /\ runs[t].pc = "claim"
          /\ runs[t] # Modpacks!Idle
  BY RunAt DEF PackKept, Modpacks!Transition
<1>2. t.kind \in {"preview", "apply", "rollback"} /\ t.target \in Packs
  BY DEF OwnersTasks, Modpacks!DeploymentsAssumption
<1>3. /\ UNCHANGED <<imported, validated, jobs, machine, snapshots>>
      /\ UNCHANGED <<claims, queue, requesting, running, ends>>
  BY DEF Modpacks!Transition, Modpacks!Elsewhere
<1>4. CASE Modpacks!Go(t, "bad") /\ UNCHANGED modpack
  BY <1>1, <1>4, FailKeeps DEF Modpacks!Transition, PackRecords
<1>5. CASE /\ Modpacks!Is(t.target, Modpacks!From(t))
           /\ modpack' = [modpack EXCEPT ![t.target].status = Modpacks!Into(t)]
           /\ Modpacks!Made(t, Modpacks!Then(t), modpack[t.target].manifest)
  <2>1. Of(t) \in Modpacks!Deployment
    BY <1>1, <1>2 DEF PackRecords, Of
  <2>2. Of(t).status \in Modpacks!From(t)
            /\ Modpacks!Into(t) \in Modpacks!Statuses
    BY <1>2, <1>5 DEF Modpacks!Is, Of, Modpacks!Into, Modpacks!Statuses
  <2>3. /\ Of(t)' = [status |-> Modpacks!Into(t), manifest |-> Of(t).manifest]
        /\ \A d \in Packs : d # t.target => modpack'[d] = modpack[d]
        /\ modpack' \in [Packs -> Modpacks!Deployment]
    <3> DEFINE r == [status |-> Modpacks!Into(t), manifest |-> Of(t).manifest]
    <3>1. r \in Modpacks!Deployment
      BY <2>1, <2>2 DEF Modpacks!Deployment
    <3>2. [modpack[t.target] EXCEPT !.status = Modpacks!Into(t)] = r
      BY <2>1 DEF Of, Modpacks!Deployment
    <3>3. modpack' = [modpack EXCEPT ![t.target] = r]
      BY <1>5, <3>2
    <3> HIDE DEF r
    <3>4. /\ modpack'[t.target] = r
          /\ modpack' \in [Packs -> Modpacks!Deployment]
          /\ \A d \in Packs : d # t.target
                 => modpack'[d] = modpack[d]
      BY <1>1, <1>2, <3>1, <3>3 DEF PackRecords
    <3> QED BY <3>4 DEF Of, r
  <2> DEFINE y ==
          [pc |-> Modpacks!Then(t), copy |-> runs[t].copy,
              made |-> Of(t).manifest,
                   found |-> runs[t].found]
  <2>4. runs' = [runs EXCEPT ![t] = y]
    BY <1>1, <1>5, RunMoves DEF Of
  <2>5. Modpacks!Then(t) \in {"keep", "snapshot", "target", "restore"}
            /\ Modpacks!Then(t) \in Places(t.kind)
    BY <1>2 DEF Modpacks!Then, Places
  <2>6. /\ y \in PackRun /\ y.pc = Modpacks!Then(t) /\ y.copy = runs[t].copy
        /\ y.made = Of(t).manifest
    BY <1>1, <2>1, <2>5 DEF PackRun, Modpacks!Deployment
  <2> HIDE DEF y
  <2>7. /\ runs' \in [DraftJobs -> PackRun \cup {Modpacks!Idle}] /\ runs'[t] = y
        /\ \A u \in DraftJobs : u # t => runs'[u] = runs[u]
    BY <1>1, <2>4, <2>6, RunPut
  <2>8. Of(t)'.status = Modpacks!Into(t) /\ Of(t)'.manifest = Of(t).manifest
    BY <2>3
  <2>9. PackRecords'
    BY <1>1, <1>3, <2>3, <2>7 DEF PackRecords
  <2>10. \A u \in DraftJobs : u # t => SameTask(u)
    BY <1>3, <2>7 DEF SameTask
  <2>11. Agree(t)'
    <3>1. PackQueued(t)'
      <4>1. Places(t.kind)' = Places(t.kind) /\ Modpacks!Idle' = Modpacks!Idle
        BY DEF Places, Modpacks!Idle
      <4> QED BY <1>1, <1>3, <2>5, <2>6, <2>7, <4>1 DEF Agree, PackQueued
    <3>2. PreviewsIt(t)'
      <4> SUFFICES ASSUME t.kind = "preview" PROVE PreviewsIt(t)'
        BY DEF PreviewsIt
      <4>1. runs[t].copy \in Modpacks!Deployment
                /\ runs[t].copy.manifest = Of(t).manifest
        BY <1>1 DEF Agree, PreviewsIt
      <4>2. /\ Modpacks!Into(t) = "previewing"
            /\ Modpacks!Then(t) \in {"keep", "snapshot"}
            /\ Modpacks!Then(t) = "keep" <=> runs[t].copy.manifest # None
        BY DEF Modpacks!Into, Modpacks!Then
      <4> QED BY <2>6, <2>7, <2>8, <4>1, <4>2 DEF PreviewsIt
    <3>3. AppliesIt(t)'
      BY <1>1, <1>3, <2>6, <2>7, <2>8 DEF Agree, AppliesIt
    <3>4. HoldsIt(t)'
      <4>1. (Modpacks!Into(t))' = Modpacks!Into(t)
        BY DEF Modpacks!Into
      <4> QED BY <2>5, <2>6, <2>7, <2>8, <4>1 DEF HoldsIt
    <3> QED BY <3>1, <3>2, <3>3, <3>4 DEF Agree
  <2>12. /\ Of(t).status \notin {"applying", "rolling_back"}
         /\ t.kind = "preview" \/ Of(t).status # "previewing"
    BY <1>2, <2>2 DEF Modpacks!From
  <2>13. /\ Of(t)'.status \notin {"draft", "previewing"}
                => Of(t)'.manifest # None
         /\ Of(t)'.status \notin {"applied", "rolled_back"}
    <3>1. Modpacks!Into(t) \in {"previewing", "applying", "rolling_back"}
      BY <1>2 DEF Modpacks!Into
    <3>2. t.kind # "preview" => Of(t).status \notin {"draft", "previewing"}
      BY <1>2, <2>2 DEF Modpacks!From
    <3>3. t.kind = "preview" => Modpacks!Into(t) = "previewing"
      BY DEF Modpacks!Into
    <3>4. Of(t).status \notin {"draft", "previewing"} => Of(t).manifest # None
      BY <1>1, <1>2 DEF Frozen, Of
    <3> QED BY <2>8, <3>1, <3>2, <3>3, <3>4
  <2> QED BY <1>3, <2>3, <2>8, <2>9, <2>10, <2>11, <2>12, <2>13, WorkKeeps
<1> QED BY <1>4, <1>5 DEF Modpacks!Transition

(* A preview that ends has the manifest it found, or made.                 *)
LEMMA PreviewEnds ==
    ASSUME OwnersTasks, Modpacks!DeploymentsAssumption, PackKept,
           NEW t \in DraftJobs,
           runs[t] \in PackRun, runs[t].pc \in {"keep", "freeze"},
           NEW m \in Modpacks!Snapshots,
           \/ runs[t].pc = "keep" /\ m = Of(t).manifest
           \/ runs[t].pc = "freeze" /\ m = runs[t].made,
           modpack' = [modpack EXCEPT ![t.target] =
                            [status |-> "previewed", manifest |-> m]],
           Modpacks!Go(t, "ok"),
               UNCHANGED <<imported, validated, jobs, machine, snapshots>>,
           UNCHANGED Modpacks!Elsewhere
    PROVE  PackKept'
<1>1. PackRecords /\ Agree(t) /\ runs[t] # Modpacks!Idle /\ t.target \in Packs
  BY RunIs DEF PackKept, Modpacks!DeploymentsAssumption, OwnersTasks
<1>2. t.kind = "preview"
  <2>1. runs[t].pc \in Places(t.kind)
            /\ t.kind \in {"preview", "apply", "rollback"}
    BY <1>1 DEF Agree, PackQueued, OwnersTasks
  <2> QED BY <2>1 DEF Places
<1>3. /\ UNCHANGED <<imported, validated, jobs, machine, snapshots>>
      /\ UNCHANGED <<claims, queue, requesting, running, ends>>
  BY DEF Modpacks!Elsewhere
<1> DEFINE r == [status |-> "previewed", manifest |-> m]
<1>4. r \in Modpacks!Deployment /\ r.status = "previewed" /\ r.manifest = m
  BY DEF Modpacks!Deployment, Modpacks!Statuses
<1> HIDE DEF r
<1>5. /\ modpack'[t.target] = r
      /\ modpack' \in [Packs -> Modpacks!Deployment]
      /\ \A d \in Packs : d # t.target => modpack'[d] = modpack[d]
  BY <1>1, <1>4 DEF PackRecords, r
<1>6. m # None
  BY DEF Modpacks!Snapshots, Modpacks!DeploymentsAssumption
<1> DEFINE y == [pc |-> "ok", copy |-> runs[t].copy, made |-> runs[t].made,
                 found |-> runs[t].found]
<1>7. runs' = [runs EXCEPT ![t] = y]
  BY <1>1, RunMoves
<1>8. y \in PackRun /\ y.pc = "ok"
  BY DEF PackRun
<1>9. "ok" \in Places(t.kind)
  BY <1>2 DEF Places
<1> HIDE DEF y
<1>10. /\ runs' \in [DraftJobs -> PackRun \cup {Modpacks!Idle}] /\ runs'[t] = y
       /\ \A u \in DraftJobs : u # t => runs'[u] = runs[u]
  BY <1>1, <1>7, <1>8, RunPut
<1>11. PackRecords'
  BY <1>1, <1>3, <1>5, <1>10 DEF PackRecords
<1>12. \A u \in DraftJobs : u # t => SameTask(u)
  BY <1>3, <1>10 DEF SameTask
<1>13. Agree(t)'
  <2>1. PackQueued(t)'
    <3>1. Places(t.kind)' = Places(t.kind) /\ Modpacks!Idle' = Modpacks!Idle
      BY DEF Places, Modpacks!Idle
    <3> QED BY <1>1, <1>3, <1>8, <1>9, <1>10, <3>1 DEF Agree, PackQueued
  <2>2. PreviewsIt(t)' /\ AppliesIt(t)' /\ HoldsIt(t)'
    BY <1>2, <1>8, <1>10 DEF PreviewsIt, AppliesIt, HoldsIt, Holds
  <2> QED BY <2>1, <2>2 DEF Agree
<1>14. /\ Of(t).status = "previewing"
       /\ m = Of(t).manifest \/ Of(t).manifest = None
  BY <1>1, <1>2 DEF Agree, PreviewsIt
<1>15. Of(t)'.status = "previewed" /\ Of(t)'.manifest = m
  BY <1>4, <1>5 DEF Of
<1> QED BY <1>2, <1>3, <1>5, <1>6, <1>11, <1>12, <1>13, <1>14, <1>15, WorkKeeps

LEMMA KeepKeeps ==
    ASSUME OwnersTasks, Modpacks!DeploymentsAssumption, PackKept,
           NEW t \in DraftJobs,
               Modpacks!Keep(t)
    PROVE  PackKept'
<1>1. PackRecords /\ Agree(t) /\ runs[t] \in PackRun /\ runs[t].pc = "keep"
          /\ runs[t] # Modpacks!Idle
  BY RunAt DEF PackKept, Modpacks!Keep
<1>2. t.kind = "preview"
  <2>1. runs[t].pc \in Places(t.kind)
            /\ t.kind \in {"preview", "apply", "rollback"}
    BY <1>1 DEF Agree, PackQueued, OwnersTasks
  <2> QED BY <1>1, <2>1 DEF Places
<1> DEFINE c == runs[t].copy
<1>3. c \in Modpacks!Deployment /\ c.manifest = Of(t).manifest
          /\ c.manifest \in Modpacks!Snapshots
  BY <1>1, <1>2 DEF Agree, PreviewsIt, Modpacks!Deployment
<1> HIDE DEF c
<1>4. [c EXCEPT !.status = "previewed"]
          = [status |-> "previewed", manifest |-> c.manifest]
  BY <1>3 DEF Modpacks!Deployment
<1>5. modpack' = [modpack EXCEPT ![t.target] =
                        [status |-> "previewed", manifest |-> c.manifest]]
  BY <1>4 DEF Modpacks!Keep, c
<1> QED BY <1>1, <1>3, <1>5, PreviewEnds DEF Modpacks!Keep

LEMMA FreezeKeeps ==
    ASSUME OwnersTasks, Modpacks!DeploymentsAssumption, PackKept,
           NEW t \in DraftJobs,
               Modpacks!Freeze(t)
    PROVE  PackKept'
<1>1. PackRecords /\ Agree(t) /\ runs[t] \in PackRun /\ runs[t].pc = "freeze"
          /\ runs[t] # Modpacks!Idle
  BY RunAt DEF PackKept, Modpacks!Freeze
<1>2. t.kind = "preview"
  <2>1. runs[t].pc \in Places(t.kind)
            /\ t.kind \in {"preview", "apply", "rollback"}
    BY <1>1 DEF Agree, PackQueued, OwnersTasks
  <2> QED BY <1>1, <2>1 DEF Places
<1>3. runs[t].made \in Modpacks!Snapshots
  BY <1>1, <1>2 DEF Agree, PreviewsIt
<1> QED BY <1>1, <1>3, PreviewEnds DEF Modpacks!Freeze
-----------------------------------------------------------------------------
(* The machine.                                                            *)
LEMMA ActsKeeps ==
    ASSUME OwnersTasks, Modpacks!DeploymentsAssumption, PackKept,
           NEW t \in DraftJobs,
           runs[t] \in PackRun, Holds(t), NEW pc \in {"done", "undo"},
               Modpacks!Go(t, pc),
           \/ pc = "undo" /\ machine' = machine
           \/ machine' = [machine EXCEPT ![t.target] =
                            [did |-> Did(t), manifest |-> Of(t).manifest]],
           UNCHANGED <<imported, validated, modpack, jobs, snapshots>>,
           UNCHANGED Modpacks!Elsewhere
    PROVE  PackKept'
<1>1. PackRecords /\ Frozen /\ Agree(t) /\ runs[t] # Modpacks!Idle
          /\ t.target \in Packs
  BY RunIs DEF PackKept, Modpacks!DeploymentsAssumption, OwnersTasks
<1>2. /\ t.kind \in {"apply", "rollback"} /\ Of(t).status = Modpacks!Into(t)
      /\ Modpacks!Into(t) \in {"applying", "rolling_back"}
  BY <1>1, HoldsStatus
<1>3. /\ UNCHANGED <<imported, validated, modpack, jobs, snapshots>>
      /\ UNCHANGED <<claims, queue, requesting, running, ends>>
  BY DEF Modpacks!Elsewhere
<1>4. Of(t)' = Of(t) /\ Of(t) \in Modpacks!Deployment
  BY <1>1, <1>3 DEF Of, PackRecords
<1> DEFINE r == [did |-> Did(t), manifest |-> Of(t).manifest]
<1>5. r \in Moves
  BY <1>4 DEF Moves, Did, Modpacks!Deployment
<1> HIDE DEF r
<1>6. /\ machine' \in [Packs -> Moves]
      /\ pc = "done" => machine'[t.target] = r
      /\ \A d \in Packs : d # t.target => machine'[d] = machine[d]
  BY <1>1, <1>5 DEF PackRecords, r
<1> DEFINE y == [pc |-> pc, copy |-> runs[t].copy, made |-> runs[t].made,
                 found |-> runs[t].found]
<1>7. runs' = [runs EXCEPT ![t] = y]
  BY <1>1, RunMoves
<1>8. y \in PackRun /\ y.pc = pc /\ y.copy = runs[t].copy
          /\ y.made = runs[t].made
  BY DEF PackRun
<1>9. pc \in Places(t.kind)
  BY <1>2 DEF Places
<1> HIDE DEF y
<1>10. /\ runs' \in [DraftJobs -> PackRun \cup {Modpacks!Idle}] /\ runs'[t] = y
       /\ \A u \in DraftJobs : u # t => runs'[u] = runs[u]
  BY <1>1, <1>7, <1>8, RunPut
<1>11. PackRecords'
  BY <1>1, <1>3, <1>6, <1>10 DEF PackRecords
<1>12. \A u \in DraftJobs : u # t => SameTask(u)
  BY <1>3, <1>10 DEF SameTask
<1>13. Agree(t)'
  <2>1. PackQueued(t)'
    <3>1. Places(t.kind)' = Places(t.kind) /\ Modpacks!Idle' = Modpacks!Idle
      BY DEF Places, Modpacks!Idle
    <3> QED BY <1>1, <1>3, <1>8, <1>9, <1>10, <3>1 DEF Agree, PackQueued
  <2>2. PreviewsIt(t)'
    BY <1>2 DEF PreviewsIt
  <2>3. AppliesIt(t)'
    <3>1. /\ runs[t].pc
                 \in {"target", "stage", "switch", "restore", "undo", "done"}
      BY DEF Holds
    <3>2. t.kind = "apply" => runs[t].pc # "restore"
      BY <1>1 DEF Agree, PackQueued, Places
    <3> QED BY <1>1, <1>3, <1>4, <1>8, <1>10, <3>1, <3>2 DEF Agree, AppliesIt
  <2>4. HoldsIt(t)'
    <3>1. (Modpacks!Into(t))' = Modpacks!Into(t) /\ (Did(t))' = Did(t)
      BY DEF Modpacks!Into, Did
    <3> QED BY <1>1, <1>2, <1>4, <1>6, <1>8, <1>10, <3>1 DEF Agree, HoldsIt, r
  <2> QED BY <2>1, <2>2, <2>3, <2>4 DEF Agree
<1>14. Of(t).manifest # None
  BY <1>1, <1>2 DEF Frozen, Of
<1> QED BY <1>2, <1>3, <1>4, <1>6, <1>11, <1>12, <1>13, <1>14, WorkKeeps

LEMMA SwitchKeeps ==
    ASSUME OwnersTasks, Modpacks!DeploymentsAssumption, PackKept,
           NEW t \in DraftJobs,
               Modpacks!Switch(t)
    PROVE  PackKept'
<1>1. PackRecords /\ Agree(t) /\ runs[t] \in PackRun /\ runs[t].pc = "switch"
          /\ runs[t] # Modpacks!Idle
  BY RunAt DEF PackKept, Modpacks!Switch, Modpacks!Acts
<1>2. t.kind = "apply"
  <2>1. runs[t].pc \in Places(t.kind)
            /\ t.kind \in {"preview", "apply", "rollback"}
    BY <1>1 DEF Agree, PackQueued, OwnersTasks
  <2> QED BY <1>1, <2>1 DEF Places
<1>3. runs[t].copy.manifest = Of(t).manifest /\ Did(t) = "switched" /\ Holds(t)
  BY <1>1, <1>2 DEF Agree, AppliesIt, Did, Holds
<1> QED BY <1>1, <1>3, ActsKeeps DEF Modpacks!Switch, Modpacks!Acts

LEMMA RestoreKeeps ==
    ASSUME OwnersTasks, Modpacks!DeploymentsAssumption, PackKept,
           NEW t \in DraftJobs,
               Modpacks!Restore(t)
    PROVE  PackKept'
<1>1. PackRecords /\ Agree(t) /\ runs[t] \in PackRun /\ runs[t].pc = "restore"
          /\ runs[t] # Modpacks!Idle
  BY RunAt DEF PackKept, Modpacks!Restore, Modpacks!Acts
<1>2. t.kind = "rollback" /\ Holds(t)
  <2>1. runs[t].pc \in Places(t.kind)
            /\ t.kind \in {"preview", "apply", "rollback"}
    BY <1>1 DEF Agree, PackQueued, OwnersTasks
  <2> QED BY <1>1, <2>1 DEF Places, Holds
<1>3. runs[t].made = Of(t).manifest /\ Did(t) = "restored"
  BY <1>1, <1>2 DEF Agree, HoldsIt, Did
<1> QED BY <1>1, <1>2, <1>3, ActsKeeps DEF Modpacks!Restore, Modpacks!Acts

LEMMA SettleKeeps ==
    ASSUME OwnersTasks, Modpacks!DeploymentsAssumption, PackKept,
           NEW t \in DraftJobs,
               Modpacks!Settle(t)
    PROVE  PackKept'
<1>1. /\ PackRecords /\ Frozen /\ Agree(t) /\ runs[t] \in PackRun
      /\ runs[t] # Modpacks!Idle
      /\ Holds(t)
      /\ t.target \in Packs /\ runs[t].pc \in {"done", "undo"}
  BY RunIs
     DEF PackKept, Modpacks!Settle, Modpacks!DeploymentsAssumption, OwnersTasks,
         Holds
<1>2. /\ t.kind \in {"apply", "rollback"} /\ Of(t).status = Modpacks!Into(t)
      /\ Modpacks!Into(t) \in {"applying", "rolling_back"}
  BY <1>1, HoldsStatus
<1>3. /\ UNCHANGED <<imported, validated, jobs, machine, snapshots>>
      /\ UNCHANGED <<claims, queue, requesting, running, ends>>
  BY DEF Modpacks!Settle, Modpacks!Elsewhere
<1>4. Of(t) \in Modpacks!Deployment /\ Of(t).manifest # None
  BY <1>1, <1>2 DEF Of, PackRecords, Frozen
<1>5. /\ runs[t].pc = "done"
             => Modpacks!Ended(t) = IF t.kind = "apply" THEN "applied"
                 ELSE "rolled_back"
      /\ runs[t].pc = "undo"
             => Modpacks!Ended(t) \in {"apply_failed", "rollback_failed"}
      /\ Modpacks!Ended(t) \in Modpacks!Statuses
  BY <1>1, <1>2 DEF Modpacks!Ended, Modpacks!At, Modpacks!Statuses
<1> DEFINE e == Modpacks!Ended(t)
<1> HIDE DEF e
<1>6. modpack' = [modpack EXCEPT ![t.target].status = e]
  <2>1. Modpacks!Is(t.target, {Modpacks!Into(t)})
    BY <1>2, <1>4 DEF Modpacks!Is, Of, Modpacks!DeploymentsAssumption
  <2> QED BY <2>1 DEF Modpacks!Settle, e
<1> DEFINE r == [status |-> e, manifest |-> Of(t).manifest]
<1>7. r \in Modpacks!Deployment /\ r.status = e /\ r.manifest = Of(t).manifest
  BY <1>4, <1>5 DEF Modpacks!Deployment, e
<1>8. [modpack[t.target] EXCEPT !.status = e] = r
  BY <1>4 DEF Of, Modpacks!Deployment
<1> HIDE DEF r
<1>9. /\ modpack'[t.target] = r
      /\ modpack' \in [Packs -> Modpacks!Deployment]
      /\ \A d \in Packs : d # t.target => modpack'[d] = modpack[d]
  BY <1>1, <1>6, <1>7, <1>8 DEF PackRecords
<1>10. PICK pc \in {"ok", "bad"} : Modpacks!Go(t, pc)
  BY DEF Modpacks!Settle
<1> DEFINE y == [pc |-> pc, copy |-> runs[t].copy, made |-> runs[t].made,
                 found |-> runs[t].found]
<1>11. runs' = [runs EXCEPT ![t] = y]
  BY <1>1, <1>10, RunMoves
<1>12. y \in PackRun /\ y.pc = pc
  BY <1>1 DEF PackRun
<1> HIDE DEF y
<1>13. /\ runs' \in [DraftJobs -> PackRun \cup {Modpacks!Idle}] /\ runs'[t] = y
       /\ \A u \in DraftJobs : u # t => runs'[u] = runs[u]
  BY <1>1, <1>11, <1>12, RunPut
<1>14. PackRecords'
  BY <1>1, <1>3, <1>9, <1>13 DEF PackRecords
<1>15. \A u \in DraftJobs : u # t => SameTask(u)
  BY <1>3, <1>13 DEF SameTask
<1>16. Of(t)'.status = e /\ Of(t)'.manifest = Of(t).manifest
  BY <1>7, <1>9 DEF Of
<1>17. Agree(t)'
  <2>1. PackQueued(t)'
    <3>1. Places(t.kind)' = Places(t.kind) /\ Modpacks!Idle' = Modpacks!Idle
      BY DEF Places, Modpacks!Idle
    <3>2. pc \in Places(t.kind)
      BY <1>2 DEF Places
    <3> QED BY <1>1, <1>3, <1>12, <1>13, <3>1, <3>2 DEF Agree, PackQueued
  <2>2. PreviewsIt(t)' /\ HoldsIt(t)'
    BY <1>2, <1>12, <1>13 DEF PreviewsIt, HoldsIt, Holds
  <2>3. AppliesIt(t)'
    BY <1>1, <1>3, <1>12, <1>13, <1>16 DEF Agree, AppliesIt
  <2> QED BY <2>1, <2>2, <2>3 DEF Agree
<1>18. /\ e = "applied"
              => machine[t.target]
                  = [did |-> "switched", manifest |-> Of(t).manifest]
       /\ e = "rolled_back"
              => machine[t.target]
                  = [did |-> "restored", manifest |-> Of(t).manifest]
  <2>1. e \in {"applied", "rolled_back"} => runs[t].pc = "done"
    BY <1>1, <1>5 DEF e
  <2> QED BY <1>1, <1>2, <1>5, <2>1 DEF Agree, HoldsIt, Did, e
<1> QED BY <1>1, <1>3, <1>4, <1>9, <1>14, <1>15, <1>16, <1>17, <1>18, WorkKeeps
-----------------------------------------------------------------------------
LEMMA PackInit == OwnersTasks /\ Modpacks!DeploymentsAssumption /\ Modpacks!Init
    => PackKept
<1> SUFFICES ASSUME OwnersTasks, Modpacks!DeploymentsAssumption, Modpacks!Init
             PROVE  PackKept
  OBVIOUS
<1>1. [status |-> "draft", manifest |-> None] \in Modpacks!Deployment
  BY DEF Modpacks!Deployment, Modpacks!Statuses
<1>2. [status |-> "valid", report |-> "valid"] \in Modpacks!Imports
  BY DEF Modpacks!Imports
<1>3. [did |-> "nothing", manifest |-> None] \in Moves
  BY DEF Moves
<1>4. /\ modpack
             = [d \in Packs |-> [status |-> "draft", manifest |-> None]]
      /\ imported = [status |-> "valid", report |-> "valid"]
      /\ validated = "valid"
      /\ machine = [d
             \in Packs |-> [did |-> "nothing", manifest |-> None]]
  BY DEF Modpacks!Init, OwnersTasks
<1>5. PackRecords
  BY <1>1, <1>2, <1>3, <1>4
     DEF PackRecords, Modpacks!Init, Modpacks!DeploymentsAssumption
<1>6. \A t \in DraftJobs : runs[t] = Modpacks!Idle
          /\ requesting[t] = Modpacks!Idle /\ claims[t] = None
          /\ jobs[t] = "none"
  BY DEF Modpacks!Init
<1>7. Modpacks!Idle.pc = "idle"
  BY DEF Modpacks!Idle
<1>8. \A t \in DraftJobs : Agree(t) /\ ~Holds(t)
  BY <1>6, <1>7
     DEF Modpacks!Init, Agree, PackQueued, PreviewsIt, AppliesIt, HoldsIt, Holds
<1>9. Frozen /\ Modpacks!RecordFollowsMachine /\ OneHolds
  BY <1>4, <1>8 DEF Frozen, Modpacks!RecordFollowsMachine, Modpacks!Is, OneHolds
<1> QED BY <1>5, <1>8, <1>9 DEF PackKept

LEMMA PackStep ==
    ASSUME OwnersTasks, Modpacks!DeploymentsAssumption, PackKept, Modpacks!Next
    PROVE  PackKept'
<1>1. CASE Modpacks!ServerStops
  BY <1>1, StopKeeps
<1>2. ASSUME NEW t \in DraftJobs,
             Modpacks!Ask(t) \/ Modpacks!RequestStep(t) \/ Modpacks!Deliver(t)
                 \/ Modpacks!RunStep(t) \/ Modpacks!Dies(t)
      PROVE  PackKept'
  <2>1. CASE Modpacks!Ask(t) \/ Modpacks!Deliver(t) \/ Modpacks!Dies(t)
    BY <2>1, AskKeeps, DeliverKeeps, DiesKeeps
  <2>2. CASE Modpacks!RequestStep(t)
    BY <2>2, OwnersDoNot, ClaimKeeps, CreateKeeps, EnqueueKeeps
       DEF Modpacks!RequestStep
  <2>3. CASE Modpacks!RunStep(t)
    BY <2>3, OwnersDoNot, ReadKeeps, TransitionKeeps, KeepKeeps, SnapshotKeeps,
       FreezeKeeps,
       TargetKeeps, StageKeeps, SwitchKeeps, RestoreKeeps, SettleKeeps, EndKeeps
       DEF Modpacks!RunStep
  <2> QED BY <1>2, <2>1, <2>2, <2>3
<1> QED BY <1>1, <1>2 DEF Modpacks!Next

LEMMA PackSame ==
    ASSUME OwnersTasks, Modpacks!DeploymentsAssumption, PackKept,
           UNCHANGED Modpacks!vars
    PROVE  PackKept'
<1>1. PackRecords' /\ Frozen' /\ OneHolds' /\ Modpacks!RecordFollowsMachine'
  BY DEF PackKept, Modpacks!vars, Modpacks!repository, PackRecords, Frozen,
     OneHolds, Holds,
         Modpacks!RecordFollowsMachine, Modpacks!Is
<1>2. \A t \in DraftJobs : Agree(t)'
  BY AgreeStays DEF PackKept, Modpacks!vars, Modpacks!repository, SameTask, Of
<1> QED BY <1>1, <1>2 DEF PackKept

LEMMA PackTypes == PackKept => Modpacks!TypeOK /\ Modpacks!RecordFollowsMachine
<1> SUFFICES ASSUME PackKept PROVE Modpacks!TypeOK
  BY DEF PackKept
<1>1. PackRecords /\ \A t \in DraftJobs : Agree(t)
  BY DEF PackKept
<1>2. queue \subseteq {t \in DraftJobs : jobs[t] # "none"}
  BY <1>1 DEF PackRecords, Agree, PackQueued
<1>3. \A t \in DraftJobs :
         (runs[t] = Modpacks!Idle \/ runs[t] \in PackRun)
             /\ (requesting[t] = Modpacks!Idle \/ requesting[t] \in PackRequest)
  BY <1>1, RunIs
<1> QED BY <1>1, <1>2, <1>3
           DEF Modpacks!TypeOK, PackRecords, PackRun, PackRequest, Moves

LEMMA PackOne == PackKept => Modpacks!OneAtTheMachine
<1> SUFFICES ASSUME PackKept, NEW t \in DraftJobs, NEW u \in DraftJobs,
                        t.target = u.target,
                    {runs[t].pc, runs[u].pc}
                        \subseteq {"stage", "switch", "restore"}
             PROVE  t = u
  BY DEF Modpacks!OneAtTheMachine
<1>1. Holds(t) /\ Holds(u)
  BY DEF Holds
<1> QED BY <1>1 DEF PackKept, OneHolds

(* What is written of a deployment keeps its manifest.                     *)
LEMMA PackFreezes ==
    ASSUME OwnersTasks, Modpacks!DeploymentsAssumption, PackKept, Modpacks!Next
    PROVE  Modpacks!FreezesManifest
<1> SUFFICES ASSUME NEW d \in Packs, modpack[d].manifest # None
             PROVE  modpack'[d].manifest = modpack[d].manifest
  BY DEF Modpacks!FreezesManifest
<1>1. PackRecords
  BY DEF PackKept
<1>2. CASE modpack' = modpack
  BY <1>2
<1>3. ASSUME NEW t \in DraftJobs, NEW s,
                 modpack' = [modpack EXCEPT ![t.target].status = s]
      PROVE  modpack'[d].manifest = modpack[d].manifest
  <2>1. modpack[d] \in Modpacks!Deployment /\ t.target \in Packs
    BY <1>1 DEF PackRecords, OwnersTasks, Modpacks!DeploymentsAssumption
  <2>2. [modpack[d] EXCEPT !.status = s].manifest = modpack[d].manifest
    BY <2>1 DEF Modpacks!Deployment
  <2>3. modpack'[d] \in {modpack[d], [modpack[d] EXCEPT !.status = s]}
    BY <1>1, <1>3, <2>1 DEF PackRecords
  <2> QED BY <2>2, <2>3
<1>4. ASSUME NEW t \in DraftJobs, Modpacks!Keep(t)
      PROVE  modpack'[d].manifest = modpack[d].manifest
  <2>1. Agree(t) /\ runs[t] \in PackRun /\ runs[t].pc = "keep"
            /\ runs[t] # Modpacks!Idle
    BY <1>1, <1>4, RunAt DEF PackKept, Modpacks!Keep
  <2>2. t.kind = "preview"
    <3>1. runs[t].pc \in Places(t.kind)
              /\ t.kind \in {"preview", "apply", "rollback"}
      BY <2>1 DEF Agree, PackQueued, OwnersTasks
    <3> QED BY <2>1, <3>1 DEF Places
  <2> DEFINE c == runs[t].copy
  <2>3. c \in Modpacks!Deployment /\ c.manifest = Of(t).manifest
    BY <2>1, <2>2 DEF Agree, PreviewsIt
  <2> HIDE DEF c
  <2>4. [c EXCEPT !.status = "previewed"].manifest = c.manifest
    BY <2>3 DEF Modpacks!Deployment
  <2>5. modpack'
            = [modpack EXCEPT ![t.target]
                = [c EXCEPT !.status = "previewed"]]
    BY <1>4 DEF Modpacks!Keep, c
  <2>6. CASE d = t.target
    BY <1>1, <2>3, <2>4, <2>5, <2>6 DEF Of, PackRecords
  <2>7. CASE d # t.target
    BY <1>1, <2>5, <2>7 DEF PackRecords
  <2> QED BY <2>6, <2>7
<1>5. ASSUME NEW t \in DraftJobs, Modpacks!Freeze(t)
      PROVE  modpack'[d].manifest = modpack[d].manifest
  <2>1. Agree(t) /\ runs[t] \in PackRun /\ runs[t].pc = "freeze"
            /\ runs[t] # Modpacks!Idle
    BY <1>1, <1>5, RunAt DEF PackKept, Modpacks!Freeze
  <2>2. t.kind = "preview"
    <3>1. runs[t].pc \in Places(t.kind)
              /\ t.kind \in {"preview", "apply", "rollback"}
      BY <2>1 DEF Agree, PackQueued, OwnersTasks
    <3> QED BY <2>1, <3>1 DEF Places
  <2>3. d # t.target
    BY <2>1, <2>2 DEF Agree, PreviewsIt, Of
  <2> QED BY <1>1, <1>5, <2>3 DEF Modpacks!Freeze, PackRecords
<1>6. ASSUME NEW t \in DraftJobs, Modpacks!RunStep(t)
      PROVE  modpack'[d].manifest = modpack[d].manifest
  <2>1. CASE Modpacks!Keep(t) \/ Modpacks!Freeze(t)
    BY <1>4, <1>5, <2>1
  <2>2. CASE Modpacks!Transition(t)
    BY <1>2, <1>3, <2>2 DEF Modpacks!Transition
  <2>3. CASE Modpacks!Settle(t)
    BY <1>2, <1>3, <2>3 DEF Modpacks!Settle
  <2>4. CASE \/ Modpacks!Read(t) \/ Modpacks!Mark(t) \/ Modpacks!Validate(t)
                    \/ Modpacks!Report(t) \/ Modpacks!Snapshot(t)
             \/ Modpacks!Target(t) \/ Modpacks!Stage(t) \/ Modpacks!Switch(t)
                    \/ Modpacks!Restore(t) \/ Modpacks!End(t)
    <3>1. modpack' = modpack
      BY <2>4
         DEF Modpacks!Read, Modpacks!Mark, Modpacks!Validate, Modpacks!Report,
             Modpacks!Snapshot, Modpacks!Target, Modpacks!Stage,
             Modpacks!Switch,
         Modpacks!Restore,
                  Modpacks!Acts, Modpacks!End
    <3> QED BY <1>2, <3>1
  <2> QED BY <1>6, <2>1, <2>2, <2>3, <2>4 DEF Modpacks!RunStep
<1>7. ASSUME NEW t \in DraftJobs,
             Modpacks!Ask(t) \/ Modpacks!RequestStep(t) \/ Modpacks!Deliver(t)
                 \/ Modpacks!Dies(t)
      PROVE  modpack' = modpack
  BY <1>7, OwnersDoNot
     DEF Modpacks!Ask, Modpacks!RequestStep, Modpacks!Claim,
         Modpacks!CreateTask, Modpacks!Enqueue, Modpacks!Deliver, Modpacks!Dies,
         Modpacks!repository
<1>8. CASE Modpacks!ServerStops
  BY <1>2, <1>8 DEF Modpacks!ServerStops, Modpacks!repository
<1> QED BY <1>2, <1>6, <1>7, <1>8 DEF Modpacks!Next

(* Who works on the machine is the only one that moves.                    *)
LEMMA PackSwitches ==
    ASSUME OwnersTasks, Modpacks!DeploymentsAssumption, PackKept, Modpacks!Next
    PROVE  Modpacks!SwitchesAsAsked
<1> SUFFICES ASSUME NEW t \in DraftJobs, Modpacks!At(t, "switch"),
                    machine' # machine,
                        runs'[t] # runs[t]
             PROVE  claims[t] = machine'[t.target].manifest
  BY DEF Modpacks!SwitchesAsAsked
<1>1. PackRecords /\ Agree(t) /\ runs[t] \in PackRun /\ runs[t].pc = "switch"
          /\ runs[t] # Modpacks!Idle
  BY RunAt DEF PackKept
<1>2. PICK u \in DraftJobs : Modpacks!Switch(u) \/ Modpacks!Restore(u)
  <2>1. ASSUME NEW u \in DraftJobs,
               Modpacks!Ask(u) \/ Modpacks!RequestStep(u) \/ Modpacks!Deliver(u)
                   \/ Modpacks!Dies(u)
        PROVE  machine' = machine
    BY <2>1
       DEF Modpacks!Ask, Modpacks!RequestStep, Modpacks!Complete,
           Modpacks!Claim, Modpacks!CreateTask, Modpacks!PutDeployment,
       Modpacks!Enqueue,
                Modpacks!Deliver, Modpacks!Dies
  <2>2. ASSUME NEW u \in DraftJobs, Modpacks!RunStep(u),
               ~(Modpacks!Switch(u) \/ Modpacks!Restore(u))
        PROVE  machine' = machine
    BY <2>2
       DEF Modpacks!RunStep, Modpacks!Read, Modpacks!Mark, Modpacks!Validate,
           Modpacks!Report, Modpacks!Transition, Modpacks!Keep,
       Modpacks!Snapshot, Modpacks!Freeze,
                Modpacks!Target, Modpacks!Stage, Modpacks!Settle, Modpacks!End
  <2>3. ~Modpacks!ServerStops
    BY DEF Modpacks!ServerStops
  <2> QED BY <2>1, <2>2, <2>3 DEF Modpacks!Next
<1>3. u = t
  <2>1. \E y : runs' = [runs EXCEPT ![u] = y]
    BY <1>2 DEF Modpacks!Switch, Modpacks!Restore, Modpacks!Acts, Modpacks!Go
  <2> QED BY <1>1, <2>1 DEF PackRecords
<1>4. Modpacks!Switch(t)
  BY <1>1, <1>2, <1>3 DEF Modpacks!Restore, Modpacks!Acts, Modpacks!At
<1>5. machine' = [machine EXCEPT ![t.target] =
                    [did |-> "switched", manifest |-> runs[t].copy.manifest]]
  BY <1>4 DEF Modpacks!Switch, Modpacks!Acts
<1>6. t.kind = "apply" /\ t.target \in Packs
  <2>1. runs[t].pc \in Places(t.kind)
            /\ t.kind \in {"preview", "apply", "rollback"}
    BY <1>1 DEF Agree, PackQueued, OwnersTasks
  <2> QED BY <1>1, <2>1 DEF Places, Modpacks!DeploymentsAssumption
<1>7. runs[t].copy.manifest = Of(t).manifest /\ claims[t] = Of(t).manifest
  BY <1>1, <1>6 DEF Agree, AppliesIt, PackQueued
<1>8. machine'[t.target].manifest = runs[t].copy.manifest
  BY <1>1, <1>5, <1>6 DEF PackRecords
<1> QED BY <1>7, <1>8

LEMMA PackNext ==
    ASSUME OwnersTasks, Modpacks!DeploymentsAssumption, PackKept,
           [Modpacks!Next]_(Modpacks!vars)
    PROVE  PackKept'
BY PackStep, PackSame
-----------------------------------------------------------------------------
(***************************************************************************)
(* Backups of worlds, with one call at a time, whatever is asked of them.  *)
(***************************************************************************)
CONSTANT Things   \* executors; backups; jobs

VARIABLES backup, object, event, cursor, outbox, billed, asking, now, deaths

backupVars == <<backup, object, event, cursor, outbox, billed, asking, now,
                deaths>>

(* What a part asks of backups: operations, what is free, for how long,    *)
(* and how many calls die.                                                 *)
Offer == [operations : SUBSET {"create", "upload", "complete", "restore",
                               "event", "delete"},
          free : Nat, time : Nat, deaths : Nat]

Worlds(p) == INSTANCE WorldBackups
    WITH call <- asking, faults <- deaths, Backups <- Things, Keys <- Isolates,
         Calls <- {"c1"}, Operations <- p.operations, Free <- p.free,
         Lifetime <- 2, MaxTime <- p.time, MaxSequence <- 2,
         MaxFaults <- p.deaths

(* An event is not billed twice if nobody dies, or if there is one         *)
(* interval to be billed.                                                  *)
Sound(p) == p \in Offer /\ (p.deaths = 0 \/ p.time <= 1)

Doing == asking["c1"]
Stored(b) == backup[b].status # "none"
IsLive(b) == backup[b].status \notin {"none", "deleted"}
Backups == {b \in Things : Stored(b)}
Layers(q) == {b \in Things : IsLive(b) /\ backup[b].parent = q}
Verified == {b \in Things : IsLive(b) /\ backup[b].verified}

Settling == {"settle", "usage", "publish", "commit", "move"}

(* Where a call may be.                                                    *)
CallPlaces(op) ==
    CASE op = "create" -> Settling \cup {"find", "parent", "claim", "insert"}
      [] op = "upload" -> Settling \cup {"grant", "save"}
      [] op = "complete" -> Settling \cup {"head", "save"}
      [] op = "restore" -> {"save"}
      [] op = "event" -> {"record", "save"}
      [] OTHER -> Settling \cup {"remove", "save", "drop"}

Back(op) ==
    CASE op = "create" -> "claim" [] op = "upload" -> "grant"
      [] op = "complete" -> "save" [] OTHER -> "remove"

(* A create has a key that no backup has, and may have a parent.           *)
Creating ==
    /\ Doing.backup # None => Stored(Doing.backup)
    /\ Doing.pc \in Settling \cup {"parent", "claim"} => Doing.backup # None
    /\ Doing.pc # "find" =>
          \A b \in Things : Stored(b) => backup[b].key # Doing.key
    /\ Doing.pc = "insert" /\ Doing.backup # None
           => backup[Doing.backup].status # "deleted"

(* Any other call has a backup that stays, and its copy is the document    *)
(* but for what the call changes.                                          *)
Changing ==
    /\ Doing.backup # None
    /\ Doing.pc # "drop" =>
          /\ IsLive(Doing.backup)
          /\ Doing.copy.parent = backup[Doing.backup].parent
          /\ Doing.copy.key = backup[Doing.backup].key
          /\ Doing.copy.refs = backup[Doing.backup].refs
          /\ Doing.op # "complete"
                => Doing.copy.verified = backup[Doing.backup].verified
          /\ Doing.op # "delete"
                => Doing.copy.status \notin {"none", "deleted"}
          /\ Doing.op = "delete" => backup[Doing.backup].refs <= 0
          /\ Doing.op = "delete" /\ Doing.pc = "save"
                => Doing.copy.status = "deleted"
    /\ Doing.pc = "drop" => Doing.copy.parent # None

Calling(p) ==
    /\ Doing.pc \in CallPlaces(Doing.op)
    /\ Doing.pc \in Settling => Doing.next = Back(Doing.op)
    /\ Doing.at <= now
    /\ IF Doing.op = "create" THEN Creating ELSE Changing

(* What is counted of the parent before there is a layer, or still.        *)
Ahead(q) ==
    IF \/ Doing.pc = "insert" /\ Doing.backup = q
       \/ Doing.pc = "drop" /\ Doing.copy.parent = q
    THEN 1 ELSE 0

Documents ==
    /\ \A b \in Things : ~Stored(b) => backup[b].key = None
    /\ \A a, b \in Things : backup[a].key # None /\ backup[a].key = backup[b].key
           => a = b
    /\ \A b \in Things : IsLive(b) /\ backup[b].parent # None
           => IsLive(backup[b].parent)
    /\ IsFiniteSet(Backups)
    /\ \A q \in Things : backup[q].refs >= Cardinality(Layers(q)) + Ahead(q)

(* What is billed                                                          *)
Bill(p) ==
    [from |-> Doing.from.at, to |-> Doing.at,
     quantity |-> (Cardinality(Verified) - p.free) * (Doing.at - Doing.from.at),
     sequence |-> Doing.from.sequence + 1]

(* The interval of a bill begins where the cursor is.                      *)
Interval(p) ==
    /\ Doing.pc \in {"usage", "publish", "commit", "move"} =>
          Doing.from = cursor /\ cursor \in [at : 0 .. p.time, sequence : Nat]
             /\ Doing.at > cursor.at
    /\ Doing.pc \in {"publish", "commit"}
          => Doing.owed = Cardinality(Verified) - p.free
    /\ cursor.at = 0 => cursor.sequence <= 0
    /\ \A u \in outbox : u.from < u.to /\ u.to <= cursor.at
    /\ \A u, v \in billed : u # v => u.to <= v.from \/ v.to <= u.from

(* When nobody dies, what is billed is before the cursor.                  *)
BilledBefore(p) ==
    p.deaths = 0 =>
        \A u \in billed : \/ u.to <= cursor.at
                          \/ Doing.pc = "commit" /\ u = Bill(p)

(* When there is one interval, there is one bill: what changes what is     *)
(* stored settles first.                                                   *)
Repeats ==
    Doing.op \in {"complete", "delete"} =>
          /\ Doing.pc \in Settling \cup {"head"}
          /\ Doing.pc \in Settling => Doing.at = 1

Again(p) ==
    /\ now = 1 /\ cursor.sequence = 0
    /\ billed = {[from |-> 0, to |-> 1, sequence |-> 1,
                  quantity |-> Cardinality(Verified) - p.free]}
    /\ Doing.pc # "idle" => Repeats

BilledAgain(p) ==
    p.deaths # 0 =>
        /\ \A u, v \in billed : u = v
        /\ \A u \in billed : u.from = 0 /\ u.to = 1
        /\ cursor.at = 0 /\ billed # {} => Again(p)

BackupsKept(p) ==
    /\ Worlds(p)!TypeOK
    /\ Doing.pc # "idle" => Calling(p)
    /\ Documents
    /\ Interval(p) /\ BilledBefore(p) /\ BilledAgain(p)
-----------------------------------------------------------------------------
Pcs == {"find", "parent", "claim", "insert", "head", "grant", "save",
        "remove", "drop", "record", "settle", "usage", "publish",
        "commit", "move"}

(* A call is idle, or has all that a call has.                             *)
LEMMA DoingIs ==
    ASSUME NEW p \in Offer, Worlds(p)!TypeOK
    PROVE  /\ Doing = Worlds(p)!Idle \/ Doing \in Worlds(p)!Call
           /\ Doing.pc # "idle" => Doing \in Worlds(p)!Call
           /\ Doing \in Worlds(p)!Call
                  => Doing.pc # "idle" /\ Doing # Worlds(p)!Idle
           /\ Worlds(p)!Idle.pc = "idle"
<1>1. Doing \in Worlds(p)!Call \cup {Worlds(p)!Idle}
  BY DEF Worlds!TypeOK, Doing
<1>2. \A r \in Worlds(p)!Call : r.pc # "idle"
  BY DEF Worlds!Call
<1>3. Worlds(p)!Idle.pc = "idle"
  BY DEF Worlds!Idle
<1> QED BY <1>1, <1>2, <1>3

(* What a step makes of the call.                                          *)
Puts(x) == asking' = [asking EXCEPT !["c1"] = x]

LEMMA DoingPut ==
    ASSUME NEW p \in Offer, Worlds(p)!TypeOK,
           NEW y \in Worlds(p)!Call \cup {Worlds(p)!Idle},
           Puts(y)
    PROVE  /\ asking' \in [{"c1"} -> Worlds(p)!Call \cup {Worlds(p)!Idle}]
           /\ Doing' = y
BY DEF Worlds!TypeOK, Doing, Puts

(* What a step leaves of a call.                                           *)
SameCall ==
    /\ Doing'.op = Doing.op /\ Doing'.backup = Doing.backup
    /\ Doing'.key = Doing.key /\ Doing'.sequence = Doing.sequence
    /\ Doing'.result = Doing.result

(* The same call, with what a step makes of it.                            *)
CallTo(pc, copy, next, moment, from, owed) ==
    [pc |-> pc, op |-> Doing.op, backup |-> Doing.backup, key |-> Doing.key,
     copy |-> copy, next |-> next, at |-> moment, from |-> from, owed |-> owed,
     sequence |-> Doing.sequence, result |-> Doing.result]

LEMMA CallWith ==
    ASSUME NEW p \in Offer, Worlds(p)!TypeOK, Doing \in Worlds(p)!Call,
           NEW pc \in Pcs, NEW copy \in Worlds(p)!Backup,
           NEW next \in {"claim", "grant", "save", "remove", "none"},
           NEW moment \in Worlds(p)!Time,
           NEW from \in Worlds(p)!Cursor \cup {Worlds(p)!NoCursor},
           NEW owed \in Nat,
           Puts(CallTo(pc, copy, next, moment, from, owed))
    PROVE  /\ asking' \in [{"c1"} -> Worlds(p)!Call \cup {Worlds(p)!Idle}]
           /\ Doing'.pc = pc /\ Doing'.copy = copy /\ Doing'.next = next
           /\ Doing'.at = moment /\ Doing'.from = from /\ Doing'.owed = owed
           /\ SameCall
<1> DEFINE y == CallTo(pc, copy, next, moment, from, owed)
<1>1. y \in Worlds(p)!Call
  BY DEF Worlds!Call, Pcs, CallTo
<1>2. Doing' = y
  BY <1>1, DoingPut
<1> QED BY <1>1, <1>2, DoingPut DEF SameCall, CallTo

LEMMA CallParts ==
    ASSUME NEW p \in Offer, Doing \in Worlds(p)!Call
    PROVE  /\ Doing.copy \in Worlds(p)!Backup
           /\ Doing.next \in {"claim", "grant", "save", "remove", "none"}
           /\ Doing.at \in Worlds(p)!Time
           /\ Doing.from \in Worlds(p)!Cursor \cup {Worlds(p)!NoCursor}
           /\ Doing.owed \in Nat /\ Doing.pc \in Pcs
           /\ Doing.backup \in Things \cup {None}
           /\ Doing.key \in Isolates \cup {None}
           /\ Doing.op \in p.operations /\ Doing.sequence \in 0 .. 2
           /\ Doing.result \in {"started", "ready", "failed"}
BY DEF Worlds!Call, Pcs

(* A call that only goes on.                                               *)
LEMMA CallGoes ==
    ASSUME NEW p \in Offer, Worlds(p)!TypeOK, Doing \in Worlds(p)!Call,
           NEW pc \in Pcs,
           Puts(CallTo(pc, Doing.copy, Doing.next, Doing.at, Doing.from,
                       Doing.owed))
    PROVE  /\ asking' \in [{"c1"} -> Worlds(p)!Call \cup {Worlds(p)!Idle}]
           /\ Doing'.pc = pc /\ Doing'.copy = Doing.copy
           /\ Doing'.next = Doing.next /\ Doing'.at = Doing.at
           /\ Doing'.from = Doing.from /\ Doing'.owed = Doing.owed
           /\ SameCall
<1> DEFINE y == CallTo(pc, Doing.copy, Doing.next, Doing.at, Doing.from,
                       Doing.owed)
<1>1. y \in Worlds(p)!Call
  BY DEF Worlds!Call, Pcs, CallTo
<1>2. Doing' = y /\ asking' \in [{"c1"} -> Worlds(p)!Call \cup {Worlds(p)!Idle}]
  <2> HIDE DEF y
  <2>1. Puts(y)
    BY DEF y
  <2> QED BY <1>1, <2>1, DoingPut
<1> QED BY <1>2 DEF SameCall, CallTo

(* The ways in which steps move a call.                                    *)
PutsPair(pc, x) == asking' = [asking EXCEPT !["c1"].pc = pc, !["c1"].copy = x]
PutsFrom(pc, x) == asking' = [asking EXCEPT !["c1"].pc = pc, !["c1"].from = x]
PutsOwed(pc, x) == asking' = [asking EXCEPT !["c1"].pc = pc, !["c1"].owed = x]
PutsStatus(pc, x) ==
    asking' = [asking EXCEPT !["c1"].pc = pc, !["c1"].copy.status = x]

LEMMA CallMoves ==
    ASSUME NEW p \in Offer, Worlds(p)!TypeOK, Doing \in Worlds(p)!Call,
           NEW pc, NEW x, NEW y
    PROVE  /\ Worlds(p)!Goto("c1", pc) =>
                 Puts(CallTo(pc, Doing.copy, Doing.next, Doing.at, Doing.from,
                             Doing.owed))
           /\ Worlds(p)!Settle("c1", x, y) =>
                 Puts(CallTo("settle", y, x, now, Doing.from, Doing.owed))
           /\ PutsPair(pc, x) =>
                 Puts(CallTo(pc, x, Doing.next, Doing.at, Doing.from, Doing.owed))
           /\ PutsFrom(pc, x) =>
                 Puts(CallTo(pc, Doing.copy, Doing.next, Doing.at, x, Doing.owed))
           /\ PutsOwed(pc, x) =>
                 Puts(CallTo(pc, Doing.copy, Doing.next, Doing.at, Doing.from, x))
           /\ PutsStatus(pc, x) =>
                 Puts(CallTo(pc, [Doing.copy EXCEPT !.status = x], Doing.next,
                             Doing.at, Doing.from, Doing.owed))
<1> DEFINE r == Doing
<1>1. /\ r \in Worlds(p)!Call /\ r = asking["c1"] /\ r = Doing
      /\ asking \in [{"c1"} -> Worlds(p)!Call \cup {Worlds(p)!Idle}]
  BY DEF Doing, Worlds!TypeOK
<1> HIDE DEF r
<1>2. Worlds(p)!Goto("c1", pc) => Puts([r EXCEPT !.pc = pc])
  BY <1>1 DEF Worlds!Goto, Puts
<1>3. Worlds(p)!Settle("c1", x, y) =>
        Puts([r EXCEPT !.pc = "settle", !.next = x, !.copy = y, !.at = now])
  BY <1>1 DEF Worlds!Settle, Puts
<1>4. PutsPair(pc, x) => Puts([r EXCEPT !.pc = pc, !.copy = x])
  BY <1>1 DEF PutsPair, Puts
<1>5. PutsFrom(pc, x) => Puts([r EXCEPT !.pc = pc, !.from = x])
  BY <1>1 DEF PutsFrom, Puts
<1>6. PutsOwed(pc, x) => Puts([r EXCEPT !.pc = pc, !.owed = x])
  BY <1>1 DEF PutsOwed, Puts
<1>7. PutsStatus(pc, x) => Puts([r EXCEPT !.pc = pc, !.copy.status = x])
  BY <1>1 DEF PutsStatus, Puts
<1> DEFINE s == CallTo(pc, r.copy, r.next, r.at, r.from, r.owed)
<1>8. [r EXCEPT !.pc = pc] = s
  BY <1>1 DEF Worlds!Call, CallTo
<1>9. /\ [s EXCEPT !.copy = x] = CallTo(pc, x, r.next, r.at, r.from, r.owed)
      /\ [s EXCEPT !.from = x] = CallTo(pc, r.copy, r.next, r.at, x, r.owed)
      /\ [s EXCEPT !.owed = x] = CallTo(pc, r.copy, r.next, r.at, r.from, x)
  BY DEF CallTo
<1>10. [s EXCEPT !.copy = [r.copy EXCEPT !.status = x]] =
         CallTo(pc, [r.copy EXCEPT !.status = x], r.next, r.at, r.from, r.owed)
  BY DEF CallTo
<1>11. [r EXCEPT !.pc = "settle", !.next = x, !.copy = y, !.at = now]
            = CallTo("settle", y, x, now, r.from, r.owed)
  <2>1. [r EXCEPT !.pc = "settle"]
          = CallTo("settle", r.copy, r.next, r.at, r.from, r.owed)
    BY <1>1 DEF Worlds!Call, CallTo
  <2>2. \A c : [c EXCEPT !.pc = "settle", !.next = x, !.copy = y, !.at = now]
          = [[[[c EXCEPT !.pc = "settle"] EXCEPT !.next = x] EXCEPT !.copy = y]
               EXCEPT !.at = now]
    OBVIOUS
  <2>3. [CallTo("settle", r.copy, r.next, r.at, r.from, r.owed)
            EXCEPT !.next = x] = CallTo("settle", r.copy, x, r.at, r.from, r.owed)
    BY DEF CallTo
  <2>4. [CallTo("settle", r.copy, x, r.at, r.from, r.owed) EXCEPT !.copy = y]
          = CallTo("settle", y, x, r.at, r.from, r.owed)
    BY DEF CallTo
  <2>5. [CallTo("settle", y, x, r.at, r.from, r.owed) EXCEPT !.at = now]
          = CallTo("settle", y, x, now, r.from, r.owed)
    BY DEF CallTo
  <2> QED BY <2>1, <2>2, <2>3, <2>4, <2>5
<1>12. /\ [r EXCEPT !.pc = pc, !.copy = x] = [s EXCEPT !.copy = x]
       /\ [r EXCEPT !.pc = pc, !.from = x] = [s EXCEPT !.from = x]
       /\ [r EXCEPT !.pc = pc, !.owed = x] = [s EXCEPT !.owed = x]
       /\ [r EXCEPT !.pc = pc, !.copy.status = x]
             = [s EXCEPT !.copy = [r.copy EXCEPT !.status = x]]
  <2> HIDE DEF s
  <2>1. /\ [r EXCEPT !.pc = pc, !.copy = x]
              = [[r EXCEPT !.pc = pc] EXCEPT !.copy = x]
        /\ [r EXCEPT !.pc = pc, !.from = x]
              = [[r EXCEPT !.pc = pc] EXCEPT !.from = x]
        /\ [r EXCEPT !.pc = pc, !.owed = x]
              = [[r EXCEPT !.pc = pc] EXCEPT !.owed = x]
    OBVIOUS
  <2>2. [r EXCEPT !.pc = pc, !.copy.status = x]
          = [[r EXCEPT !.pc = pc] EXCEPT !.copy = [r.copy EXCEPT !.status = x]]
    BY <1>1 DEF Worlds!Call
  <2> QED BY <1>8, <2>1, <2>2
<1>13. Worlds(p)!Goto("c1", pc) => Puts(s)
  BY <1>2, <1>8
<1> QED
  <2> HIDE DEF s
  <2>1. Puts(s) => Puts(CallTo(pc, r.copy, r.next, r.at, r.from, r.owed))
    BY DEF s
  <2> QED BY <1>1, <1>3, <1>4, <1>5, <1>6, <1>7, <1>9, <1>10, <1>11, <1>12,
             <1>13, <2>1

-----------------------------------------------------------------------------
(* The terms of a call that is asked for.                                  *)
NewCall(pc, op, b, key, copy, next, sequence, result) ==
    [pc |-> pc, op |-> op, backup |-> b, key |-> key, copy |-> copy,
     next |-> next, at |-> now, from |-> [at |-> 0, sequence |-> -1],
     owed |-> 0, sequence |-> sequence, result |-> result]

LEMMA NewCallIs ==
    ASSUME NEW p \in Offer, NEW op, NEW b, NEW key, b # None
    PROVE  Worlds(p)!Start("c1", op, b, key)
             = NewCall("find", op, b, key, backup[b], "none", 0, "started")
BY DEF Worlds!Start, NewCall, Worlds!NoCursor

LEMMA UploadAsked ==
    ASSUME NEW p \in Offer, NEW b \in Things, b # None,
           Worlds(p)!IssueUpload("c1", b)
    PROVE  Puts(NewCall("settle", "upload", b, None, backup[b], "grant", 0,
                        "started"))
<1> DEFINE s == Worlds(p)!Start("c1", "upload", b, None)
<1>1. [s EXCEPT !.pc = "settle"]
        = NewCall("settle", "upload", b, None, backup[b], "none", 0, "started")
  BY NewCallIs DEF NewCall
<1>2. [NewCall("settle", "upload", b, None, backup[b], "none", 0, "started")
         EXCEPT !.next = "grant"]
        = NewCall("settle", "upload", b, None, backup[b], "grant", 0, "started")
  BY DEF NewCall
<1>3. [s EXCEPT !.pc = "settle", !.next = "grant"]
        = [[s EXCEPT !.pc = "settle"] EXCEPT !.next = "grant"]
  <2> HIDE DEF s
  <2> QED OBVIOUS
<1>4. asking' = [asking EXCEPT !["c1"] =
        [s EXCEPT !.pc = "settle", !.next = "grant"]]
  BY DEF Worlds!IssueUpload
<1> HIDE DEF s
<1> QED BY <1>1, <1>2, <1>3, <1>4 DEF Puts

LEMMA DeleteAsked ==
    ASSUME NEW p \in Offer, NEW b \in Things, b # None,
           Worlds(p)!Delete("c1", b)
    PROVE  Puts(NewCall("settle", "delete", b, None, backup[b], "remove", 0,
                        "started"))
<1> DEFINE s == Worlds(p)!Start("c1", "delete", b, None)
<1>1. [s EXCEPT !.pc = "settle"]
        = NewCall("settle", "delete", b, None, backup[b], "none", 0, "started")
  BY NewCallIs DEF NewCall
<1>2. [NewCall("settle", "delete", b, None, backup[b], "none", 0, "started")
         EXCEPT !.next = "remove"]
        = NewCall("settle", "delete", b, None, backup[b], "remove", 0, "started")
  BY DEF NewCall
<1>3. [s EXCEPT !.pc = "settle", !.next = "remove"]
        = [[s EXCEPT !.pc = "settle"] EXCEPT !.next = "remove"]
  <2> HIDE DEF s
  <2> QED OBVIOUS
<1>4. asking' = [asking EXCEPT !["c1"] =
        [s EXCEPT !.pc = "settle", !.next = "remove"]]
  BY DEF Worlds!Delete
<1> HIDE DEF s
<1> QED BY <1>1, <1>2, <1>3, <1>4 DEF Puts

LEMMA CompleteAsked ==
    ASSUME NEW p \in Offer, NEW b \in Things, b # None,
           Worlds(p)!Complete("c1", b)
    PROVE  Puts(NewCall("head", "complete", b, None, backup[b], "none", 0,
                        "started"))
<1>1. [Worlds(p)!Start("c1", "complete", b, None) EXCEPT !.pc = "head"]
        = NewCall("head", "complete", b, None, backup[b], "none", 0, "started")
  BY NewCallIs DEF NewCall
<1> QED BY <1>1 DEF Worlds!Complete, Puts

LEMMA RestoreAsked ==
    ASSUME NEW p \in Offer, NEW b \in Things, b # None,
           Worlds(p)!Restore("c1", b)
    PROVE  Puts(NewCall("save", "restore", b, None,
                        [backup[b] EXCEPT !.status = "restoring"], "none", 0,
                        "started"))
<1> DEFINE s == NewCall("find", "restore", b, None, backup[b], "none", 0,
                        "started")
<1>1. [s EXCEPT !.pc = "save"]
        = NewCall("save", "restore", b, None, backup[b], "none", 0, "started")
  BY DEF NewCall
<1>2. [NewCall("save", "restore", b, None, backup[b], "none", 0, "started")
         EXCEPT !.copy.status = "restoring"]
        = NewCall("save", "restore", b, None,
                  [backup[b] EXCEPT !.status = "restoring"], "none", 0,
                  "started")
  BY DEF NewCall
<1>3. [s EXCEPT !.pc = "save", !.copy.status = "restoring"]
        = [[s EXCEPT !.pc = "save"] EXCEPT !.copy.status = "restoring"]
  BY DEF NewCall
<1>4. Worlds(p)!Start("c1", "restore", b, None) = s
  BY NewCallIs
<1>5. asking' = [asking EXCEPT !["c1"] =
        [Worlds(p)!Start("c1", "restore", b, None)
           EXCEPT !.pc = "save", !.copy.status = "restoring"]]
  BY DEF Worlds!Restore
<1> QED
  <2> HIDE DEF s
  <2> QED BY <1>1, <1>2, <1>3, <1>4, <1>5 DEF Puts

LEMMA EventAsked ==
    ASSUME NEW p \in Offer, NEW b \in Things, b # None, NEW x, NEW y,
           Worlds(p)!RestoreEvent("c1", b, x, y)
    PROVE  Puts(NewCall("record", "event", b, None, backup[b], "none", x, y))
<1> DEFINE s == Worlds(p)!Start("c1", "event", b, None)
<1>1. [s EXCEPT !.pc = "record"]
        = NewCall("record", "event", b, None, backup[b], "none", 0, "started")
  BY NewCallIs DEF NewCall
<1>2. [NewCall("record", "event", b, None, backup[b], "none", 0, "started")
         EXCEPT !.sequence = x]
        = NewCall("record", "event", b, None, backup[b], "none", x, "started")
  BY DEF NewCall
<1>3. [NewCall("record", "event", b, None, backup[b], "none", x, "started")
         EXCEPT !.result = y]
        = NewCall("record", "event", b, None, backup[b], "none", x, y)
  BY DEF NewCall
<1>4. [s EXCEPT !.pc = "record", !.sequence = x, !.result = y]
        = [[[s EXCEPT !.pc = "record"] EXCEPT !.sequence = x]
             EXCEPT !.result = y]
  <2> HIDE DEF s
  <2> QED OBVIOUS
<1>5. asking' = [asking EXCEPT !["c1"] =
        [s EXCEPT !.pc = "record", !.sequence = x, !.result = y]]
  BY DEF Worlds!RestoreEvent
<1> HIDE DEF s
<1> QED BY <1>1, <1>2, <1>3, <1>4, <1>5 DEF Puts

(* A call that is asked for.                                               *)
LEMMA CallAsked ==
    ASSUME NEW p \in Offer, Worlds(p)!TypeOK,
           NEW pc \in Pcs, NEW op \in p.operations,
           NEW b \in Things \cup {None}, NEW key \in Isolates \cup {None},
           NEW copy \in Worlds(p)!Backup,
           NEW next \in {"claim", "grant", "save", "remove", "none"},
           NEW sequence \in 0 .. 2, NEW result \in {"started", "ready", "failed"},
           Puts(NewCall(pc, op, b, key, copy, next, sequence, result))
    PROVE  /\ asking' \in [{"c1"} -> Worlds(p)!Call \cup {Worlds(p)!Idle}]
           /\ Doing'.pc = pc /\ Doing'.op = op /\ Doing'.backup = b
           /\ Doing'.key = key /\ Doing'.copy = copy /\ Doing'.next = next
           /\ Doing'.at = now
<1> DEFINE y == NewCall(pc, op, b, key, copy, next, sequence, result)
<1>1. now \in Worlds(p)!Time
  BY DEF Worlds!Time, Offer, Worlds!TypeOK
<1>2. [at |-> 0, sequence |-> -1] = Worlds(p)!NoCursor
  BY DEF Worlds!NoCursor
<1>3. y \in Worlds(p)!Call
  BY <1>1, <1>2 DEF Worlds!Call, Pcs, NewCall
<1>4. Doing' = y
  BY <1>3, DoingPut
<1> QED BY <1>3, <1>4, DoingPut DEF NewCall
-----------------------------------------------------------------------------
(* Steps that read, and go on outside of `settle`.                         *)
LEMMA AsideKept ==
    ASSUME NEW p, Sound(p), BackupsKept(p),
           UNCHANGED <<backup, cursor, outbox, billed, now>>,
           Worlds(p)!TypeOK',
           Doing'.pc # "idle" =>
               /\ Calling(p)'
               /\ Doing'.pc \notin {"usage", "publish", "commit", "move"}
               /\ Again(p) => Repeats',
           \A q \in Things : Ahead(q)' <= Ahead(q),
           Doing.pc = "commit" => Doing' = Doing \/ p.deaths # 0
    PROVE  BackupsKept(p)'
<1>1. /\ \A q \in Things : Layers(q)' = Layers(q)
      /\ Verified' = Verified
      /\ \A b : IsLive(b)' = IsLive(b) /\ Stored(b)' = Stored(b)
  BY DEF Layers, Verified, IsLive, Stored
<1>2. Documents'
  <2>1. \A q \in Things : backup'[q].refs >= Cardinality(Layers(q)') + Ahead(q)'
    <3> TAKE q \in Things
    <3>1. backup[q].refs >= Cardinality(Layers(q)) + Ahead(q)
      BY DEF BackupsKept, Documents
    <3>2. backup[q].refs \in Int /\ Ahead(q) \in Int /\ Ahead(q)' \in Int
      BY DEF BackupsKept, Worlds!TypeOK, Worlds!Backup, Ahead
    <3>3. IsFiniteSet(Layers(q))
      <4>1. Layers(q) \subseteq Backups
        BY DEF Layers, IsLive, Stored, Backups
      <4> QED BY <4>1, FS_Subset DEF BackupsKept, Documents
    <3>4. Cardinality(Layers(q)) \in Nat
      BY <3>3, FS_CardinalityType
    <3> QED BY <1>1, <3>1, <3>2, <3>4
  <2>2. Backups' = Backups
    BY <1>1 DEF Backups
  <2> QED BY <1>1, <2>1, <2>2 DEF BackupsKept, Documents
<1>3. Interval(p)'
  <2>1. Doing'.pc \notin {"usage", "publish", "commit", "move"}
    OBVIOUS
  <2> QED BY <2>1 DEF BackupsKept, Interval
<1>4. BilledBefore(p)'
  BY <1>1 DEF BackupsKept, BilledBefore, Bill
<1>5. BilledAgain(p)'
  <2>1. p.deaths' = p.deaths
    OBVIOUS
  <2> QED BY <1>1 DEF BackupsKept, BilledAgain, Again
<1> QED BY <1>2, <1>3, <1>4, <1>5 DEF BackupsKept

LEMMA AskKept ==
    ASSUME NEW p, Sound(p), None \notin Things, BackupsKept(p),
           asking["c1"] = Worlds(p)!Idle,
           NEW pc \in Pcs, NEW op \in p.operations,
           NEW b \in Things \cup {None}, NEW key \in Isolates \cup {None},
           NEW copy \in Worlds(p)!Backup,
           NEW next \in {"claim", "grant", "save", "remove", "none"},
           NEW sequence \in 0 .. 2, NEW result \in {"started", "ready", "failed"},
           Puts(NewCall(pc, op, b, key, copy, next, sequence, result)),
           Worlds(p)!Reads,
           pc \in CallPlaces(op), pc \in Settling => next = Back(op),
           pc \notin {"usage", "publish", "commit", "move", "insert", "drop"},
           op = "create" => pc = "find" /\ (b # None => Stored(b)),
           op # "create" =>
               /\ b # None /\ IsLive(b)
               /\ copy.parent = backup[b].parent /\ copy.key = backup[b].key
               /\ copy.refs = backup[b].refs
               /\ copy.verified = backup[b].verified
               /\ op # "delete" => copy.status \notin {"none", "deleted"}
               /\ op = "delete" => backup[b].refs <= 0 /\ pc # "save",
           op \in {"complete", "delete"} => pc \in Settling \cup {"head"}
    PROVE  BackupsKept(p)'
<1>1. p \in Offer /\ Worlds(p)!TypeOK /\ now \in Int
  BY DEF Sound, BackupsKept, Worlds!TypeOK
<1>2. /\ asking' \in [{"c1"} -> Worlds(p)!Call \cup {Worlds(p)!Idle}]
      /\ Doing'.pc = pc /\ Doing'.op = op /\ Doing'.backup = b
      /\ Doing'.key = key /\ Doing'.copy = copy /\ Doing'.next = next
      /\ Doing'.at = now
  BY <1>1, CallAsked
<1>3. UNCHANGED <<backup, object, event, cursor, outbox, billed, now, deaths>>
  BY DEF Worlds!Reads, Worlds!documents, Worlds!money
<1>4. Worlds(p)!TypeOK'
  BY <1>1, <1>2, <1>3 DEF Worlds!TypeOK
<1>5. \A x : IsLive(x)' = IsLive(x) /\ Stored(x)' = Stored(x)
  BY <1>3 DEF IsLive, Stored
<1>6. Calling(p)'
  <2>1. CallPlaces(op)' = CallPlaces(op) /\ Back(op)' = Back(op)
        /\ Settling' = Settling
    BY DEF CallPlaces, Back, Settling
  <2>2. CASE op = "create"
    BY <1>1, <1>2, <1>3, <1>5, <2>1, <2>2 DEF Calling, Creating, Settling
  <2>3. CASE op # "create"
    BY <1>1, <1>2, <1>3, <1>5, <2>1, <2>3 DEF Calling, Changing
  <2> QED BY <2>2, <2>3
<1>7. \A q \in Things : Ahead(q)' <= Ahead(q)
  BY <1>2 DEF Ahead
<1>8. Again(p) => Repeats'
  BY <1>2, <1>3 DEF Again, Repeats
<1>9. Doing.pc # "commit"
  BY <1>1, DoingIs DEF Doing
<1> QED BY <1>2, <1>3, <1>4, <1>6, <1>7, <1>8, <1>9, AsideKept

LEMMA BackupIs ==
    ASSUME NEW p \in Offer, Worlds(p)!TypeOK, NEW b \in Things
    PROVE  /\ backup[b] \in Worlds(p)!Backup
           /\ Worlds(p)!NoBackup \in Worlds(p)!Backup
           /\ backup[b].parent \in Things \cup {None}
           /\ backup[b].key \in Isolates \cup {None}
           /\ backup[b].refs \in Int /\ backup[b].verified \in BOOLEAN
BY DEF Worlds!TypeOK, Worlds!Backup, Worlds!NoBackup, Worlds!Time, Offer

LEMMA AsksKept ==
    ASSUME NEW p, Sound(p), None \notin Things, BackupsKept(p),
           Worlds(p)!Ask("c1")
    PROVE  BackupsKept(p)'
<1>1. p \in Offer /\ Worlds(p)!TypeOK
  BY DEF Sound, BackupsKept
<1>2. ASSUME NEW key \in Isolates, NEW b \in Things \cup {None},
             Worlds(p)!Create("c1", key, b)
      PROVE  BackupsKept(p)'
  <2> DEFINE copy == IF b = None THEN Worlds(p)!NoBackup ELSE backup[b]
  <2>1. /\ asking["c1"] = Worlds(p)!Idle /\ "create" \in p.operations
        /\ b # None => Stored(b)
        /\ Puts(Worlds(p)!Start("c1", "create", b, key))
        /\ Worlds(p)!Reads
    BY <1>2 DEF Worlds!Create, Stored, Puts
  <2>2. Worlds(p)!Start("c1", "create", b, key)
          = NewCall("find", "create", b, key, copy, "none", 0, "started")
    BY <1>1 DEF Worlds!Start, NewCall, Worlds!NoCursor
  <2>3. copy \in Worlds(p)!Backup
    BY <1>1, BackupIs DEF Worlds!NoBackup, Worlds!Backup, Worlds!Time, Offer
  <2>4. "find" \in CallPlaces("create") /\ "find" \notin Settling /\ "find" \in Pcs
    BY DEF CallPlaces, Settling, Pcs
  <2> HIDE DEF copy
  <2> QED BY <2>1, <2>2, <2>3, <2>4, AskKept
<1>3. ASSUME NEW b \in Things, Worlds(p)!IssueUpload("c1", b)
      PROVE  BackupsKept(p)'
  <2>1. /\ asking["c1"] = Worlds(p)!Idle /\ "upload" \in p.operations
        /\ IsLive(b) /\ b # None /\ Worlds(p)!Reads
    BY <1>3 DEF Worlds!IssueUpload, IsLive, Worlds!Uploadable
  <2>2. Puts(NewCall("settle", "upload", b, None, backup[b], "grant", 0,
                    "started"))
    BY <1>1, <1>3, <2>1, UploadAsked
  <2>3. "settle" \in CallPlaces("upload") /\ "settle" \in Pcs
        /\ "grant" = Back("upload")
    BY DEF CallPlaces, Settling, Pcs, Back
  <2>4. backup[b] \in Worlds(p)!Backup
    BY <1>1, BackupIs
  <2> QED BY <1>1, <2>1, <2>2, <2>3, <2>4, AskKept DEF IsLive
<1>4. ASSUME NEW b \in Things, Worlds(p)!Complete("c1", b)
      PROVE  BackupsKept(p)'
  <2>1. /\ asking["c1"] = Worlds(p)!Idle /\ "complete" \in p.operations
        /\ IsLive(b) /\ b # None /\ Worlds(p)!Reads
    BY <1>4 DEF Worlds!Complete, IsLive
  <2>2. Puts(NewCall("head", "complete", b, None, backup[b], "none", 0,
                    "started"))
    BY <1>1, <1>4, <2>1, CompleteAsked
  <2>3. "head" \in CallPlaces("complete") /\ "head" \in Pcs /\ "head" \notin Settling
    BY DEF CallPlaces, Settling, Pcs, Back
  <2>4. backup[b] \in Worlds(p)!Backup
    BY <1>1, BackupIs
  <2> QED BY <1>1, <2>1, <2>2, <2>3, <2>4, AskKept DEF IsLive
<1>5. ASSUME NEW b \in Things, Worlds(p)!Restore("c1", b)
      PROVE  BackupsKept(p)'
  <2> DEFINE copy == [backup[b] EXCEPT !.status = "restoring"]
  <2>1. /\ asking["c1"] = Worlds(p)!Idle /\ "restore" \in p.operations
        /\ IsLive(b) /\ b # None /\ Worlds(p)!Reads
    BY <1>5 DEF Worlds!Restore, IsLive
  <2>2. Puts(NewCall("save", "restore", b, None, copy, "none", 0, "started"))
    BY <1>1, <1>5, <2>1, RestoreAsked
  <2>3. /\ "save" \in CallPlaces("restore") /\ "save" \in Pcs
        /\ "save" \notin Settling
    BY DEF CallPlaces, Settling, Pcs
  <2>4. backup[b] \in Worlds(p)!Backup
    BY <1>1, BackupIs
  <2>5. /\ copy \in Worlds(p)!Backup /\ copy.status = "restoring"
        /\ copy.parent = backup[b].parent /\ copy.key = backup[b].key
        /\ copy.refs = backup[b].refs /\ copy.verified = backup[b].verified
    BY <2>4 DEF Worlds!Backup
  <2> HIDE DEF copy
  <2> QED BY <1>1, <2>1, <2>2, <2>3, <2>5, AskKept
<1>6. ASSUME NEW b \in Things, NEW n \in 1 .. 2,
             NEW r \in {"started", "ready", "failed"},
             Worlds(p)!RestoreEvent("c1", b, n, r)
      PROVE  BackupsKept(p)'
  <2>1. /\ asking["c1"] = Worlds(p)!Idle /\ "event" \in p.operations
        /\ IsLive(b) /\ b # None /\ Worlds(p)!Reads
    BY <1>6 DEF Worlds!RestoreEvent, IsLive
  <2>2. Puts(NewCall("record", "event", b, None, backup[b], "none", n, r))
    BY <1>1, <1>6, <2>1, EventAsked
  <2>3. "record" \in CallPlaces("event") /\ "record" \in Pcs /\ "record" \notin Settling
    BY DEF CallPlaces, Settling, Pcs, Back
  <2>4. backup[b] \in Worlds(p)!Backup /\ n \in 0 .. 2
    BY <1>1, BackupIs
  <2>5. backup[b].status \notin {"none", "deleted"}
    BY <2>1 DEF IsLive
  <2> QED BY <1>1, <2>1, <2>2, <2>3, <2>4, <2>5, AskKept
<1>7. ASSUME NEW b \in Things, Worlds(p)!Delete("c1", b)
      PROVE  BackupsKept(p)'
  <2>1. /\ asking["c1"] = Worlds(p)!Idle /\ "delete" \in p.operations
        /\ IsLive(b) /\ b # None /\ Worlds(p)!Reads /\ backup[b].refs <= 0
    BY <1>7 DEF Worlds!Delete, IsLive, Worlds!Deletable
  <2>2. Puts(NewCall("settle", "delete", b, None, backup[b], "remove", 0,
                    "started"))
    BY <1>1, <1>7, <2>1, DeleteAsked
  <2>3. "settle" \in CallPlaces("delete") /\ "settle" \in Pcs
        /\ "remove" = Back("delete") /\ "settle" \in Settling
    BY DEF CallPlaces, Settling, Pcs, Back
  <2>4. backup[b] \in Worlds(p)!Backup
    BY <1>1, BackupIs
  <2> QED BY <1>1, <2>1, <2>2, <2>3, <2>4, AskKept
<1> QED
  BY <1>2, <1>3, <1>4, <1>5, <1>6, <1>7 DEF Worlds!Ask

(* A call that ends.                                                       *)
LEMMA EndPut ==
    ASSUME NEW p \in Offer, Worlds(p)!TypeOK, Worlds(p)!End("c1")
    PROVE  /\ asking' \in [{"c1"} -> Worlds(p)!Call \cup {Worlds(p)!Idle}]
           /\ Doing' = Worlds(p)!Idle /\ Doing'.pc = "idle"
<1>1. Puts(Worlds(p)!Idle)
  BY DEF Worlds!End, Puts
<1>2. Worlds(p)!Idle.pc = "idle"
  BY DEF Worlds!Idle
<1> QED BY <1>1, <1>2, DoingPut

LEMMA EndKept ==
    ASSUME NEW p, Sound(p), BackupsKept(p), Worlds(p)!End("c1"),
           UNCHANGED <<backup, cursor, outbox, billed, now>>,
           object' \subseteq Things, event' \in [Things -> 0 .. 2],
           deaths' \in 0 .. p.deaths,
           Doing.pc # "commit" \/ p.deaths # 0
    PROVE  BackupsKept(p)'
<1>1. p \in Offer /\ Worlds(p)!TypeOK
  BY DEF Sound, BackupsKept
<1>2. Doing' = Worlds(p)!Idle /\ Doing'.pc = "idle"
  BY <1>1, EndPut
<1>3. Worlds(p)!TypeOK'
  BY <1>1, EndPut DEF Worlds!TypeOK
<1>4. \A q \in Things : Ahead(q)' <= Ahead(q)
  BY <1>2 DEF Ahead
<1> QED BY <1>2, <1>3, <1>4, AsideKept

LEMMA DiesKept ==
    ASSUME NEW p, Sound(p), BackupsKept(p), Worlds(p)!Dies("c1")
    PROVE  BackupsKept(p)'
<1>1. p \in Offer /\ Worlds(p)!TypeOK /\ p.deaths \in Nat
  BY DEF Sound, BackupsKept, Offer
<1>2. deaths' = deaths + 1 /\ deaths < p.deaths /\ deaths \in 0 .. p.deaths
  BY <1>1 DEF Worlds!Dies, Worlds!TypeOK
<1>3. /\ UNCHANGED <<backup, object, event, cursor, outbox, billed, now>>
      /\ Worlds(p)!End("c1")
  BY DEF Worlds!Dies, Worlds!documents, Worlds!money
<1>4. object' \subseteq Things /\ event' \in [Things -> 0 .. 2]
  BY <1>1, <1>3 DEF Worlds!TypeOK
<1> QED BY <1>1, <1>2, <1>3, <1>4, EndKept

(* A call that goes on, outside of `settle` or into it.                    *)
LEMMA GoesKept ==
    ASSUME NEW p, Sound(p), None \notin Things, BackupsKept(p),
           Doing.pc # "idle",
           NEW pc \in Pcs, NEW copy \in Worlds(p)!Backup,
           NEW next \in {"claim", "grant", "save", "remove", "none"},
           NEW moment \in {Doing.at, now},
           Puts(CallTo(pc, copy, next, moment, Doing.from, Doing.owed)),
           UNCHANGED <<backup, cursor, outbox, billed, now, deaths>>,
           object' \subseteq Things, event' \in [Things -> 0 .. 2],
           Doing.pc # "commit",
           pc \notin {"usage", "publish", "commit", "move", "drop"},
           pc = "insert" => Doing.backup = None,
           pc \in CallPlaces(Doing.op), pc \in Settling => next = Back(Doing.op),
           Doing.op = "create" =>
               /\ pc \in Settling \cup {"parent", "claim"} => Doing.backup # None
               /\ pc # "find" =>
                      \A b \in Things : Stored(b) => backup[b].key # Doing.key,
           Doing.op # "create" =>
               /\ Doing.pc # "drop"
               /\ copy.parent = Doing.copy.parent /\ copy.key = Doing.copy.key
               /\ copy.refs = Doing.copy.refs
               /\ Doing.op # "complete" => copy.verified = Doing.copy.verified
               /\ Doing.op # "delete" => copy.status \notin {"none", "deleted"}
               /\ Doing.op = "delete" /\ pc = "save" => copy.status = "deleted",
           Again(p) /\ Doing.op \in {"complete", "delete"} =>
               pc \in Settling \cup {"head"} /\ (pc \in Settling => moment = 1)
    PROVE  BackupsKept(p)'
<1>1. p \in Offer /\ Worlds(p)!TypeOK
  BY DEF Sound, BackupsKept
<1>2. Doing \in Worlds(p)!Call
  BY <1>1, DoingIs
<1>3. moment \in Worlds(p)!Time /\ Doing.at <= now /\ moment <= now
  BY <1>1, <1>2, CallParts
     DEF Worlds!Time, Offer, Worlds!TypeOK, BackupsKept, Calling
<1>4. /\ Doing.from \in Worlds(p)!Cursor \cup {Worlds(p)!NoCursor}
      /\ Doing.owed \in Nat
  BY <1>1, <1>2, CallParts
<1>5. /\ asking' \in [{"c1"} -> Worlds(p)!Call \cup {Worlds(p)!Idle}]
      /\ Doing'.pc = pc /\ Doing'.copy = copy /\ Doing'.next = next
      /\ Doing'.at = moment /\ SameCall
  BY <1>1, <1>2, <1>3, <1>4, CallWith
<1>6. Worlds(p)!TypeOK'
  BY <1>1, <1>5 DEF Worlds!TypeOK
<1>7. \A x : IsLive(x)' = IsLive(x) /\ Stored(x)' = Stored(x)
  BY DEF IsLive, Stored
<1>8. Calling(p)'
  <2>1. CallPlaces(Doing.op)' = CallPlaces(Doing.op)
        /\ Back(Doing.op)' = Back(Doing.op) /\ Settling' = Settling
    BY <1>5 DEF SameCall, CallPlaces, Back, Settling
  <2>2. CASE Doing.op = "create"
    <3>1. Creating'
      BY <1>5, <1>7, <2>1, <2>2 DEF BackupsKept, Calling, Creating, SameCall
    <3> QED BY <1>3, <1>5, <2>1, <2>2, <3>1 DEF Calling, SameCall
  <2>3. CASE Doing.op # "create"
    <3>1. Changing'
      BY <1>5, <1>7, <2>3 DEF BackupsKept, Calling, Changing, SameCall
    <3> QED BY <1>3, <1>5, <2>1, <2>3, <3>1 DEF Calling, SameCall
  <2> QED BY <2>2, <2>3
<1>9. \A q \in Things : Ahead(q)' <= Ahead(q)
  <2>1. TAKE q \in Things
  <2>2. Ahead(q) \in 0 .. 1
    BY DEF Ahead
  <2>3. Ahead(q)' = 0
    BY <1>5 DEF Ahead, SameCall
  <2> QED BY <2>2, <2>3
<1>10. Again(p) => Repeats'
  BY <1>5 DEF Repeats, SameCall, Settling
<1> QED BY <1>5, <1>6, <1>8, <1>9, <1>10, AsideKept

LEMMA Stays ==
    ASSUME NEW p, BackupsKept(p), Sound(p), Worlds(p)!Reads
    PROVE  /\ UNCHANGED <<backup, cursor, outbox, billed, now, deaths>>
           /\ object' \subseteq Things /\ event' \in [Things -> 0 .. 2]
           /\ deaths' \in 0 .. p.deaths
BY DEF BackupsKept, Worlds!TypeOK, Worlds!Reads, Worlds!documents,
       Worlds!money

LEMMA FindKept ==
    ASSUME NEW p, Sound(p), None \notin Things, BackupsKept(p),
           Worlds(p)!Find("c1")
    PROVE  BackupsKept(p)'
<1>1. p \in Offer /\ Worlds(p)!TypeOK /\ Doing.pc = "find" /\ Worlds(p)!Reads
  BY DEF Sound, BackupsKept, Worlds!Find, Worlds!At, Doing
<1>2. Doing \in Worlds(p)!Call /\ Calling(p)
  BY <1>1, DoingIs DEF BackupsKept
<1>3. CASE Worlds(p)!Created(Doing.key)
  BY <1>1, <1>3, Stays, EndKept DEF Worlds!Find, Doing
<1>4. CASE ~Worlds(p)!Created(Doing.key)
  <2> DEFINE pc == IF Doing.backup = None THEN "insert" ELSE "parent"
  <2>1. Worlds(p)!Goto("c1", pc)
    BY <1>4 DEF Worlds!Find, Doing
  <2>2. Puts(CallTo(pc, Doing.copy, Doing.next, Doing.at, Doing.from, Doing.owed))
    BY <1>1, <1>2, <2>1, CallMoves
  <2>3. Doing.op = "create"
    BY <1>1, <1>2 DEF Calling, CallPlaces, Settling
  <2>4. \A b \in Things : Stored(b) => backup[b].key # Doing.key
    BY <1>4 DEF Worlds!Created, Stored
  <2>5. pc \in {"insert", "parent"} /\ pc \in Pcs /\ pc \notin Settling
        /\ pc \in CallPlaces("create")
    BY DEF Pcs, Settling, CallPlaces
  <2>6. pc = "insert" <=> Doing.backup = None
    OBVIOUS
  <2> HIDE DEF pc
  <2> QED BY <1>1, <1>2, <2>2, <2>3, <2>4, <2>5, <2>6, Stays, CallParts, GoesKept
<1> QED BY <1>3, <1>4

LEMMA ClaimParentKept ==
    ASSUME NEW p, Sound(p), None \notin Things, BackupsKept(p),
           Worlds(p)!ClaimParent("c1")
    PROVE  BackupsKept(p)'
<1>1. /\ p \in Offer /\ Worlds(p)!TypeOK /\ Doing.pc = "parent"
      /\ Worlds(p)!Reads
  BY DEF Sound, BackupsKept, Worlds!ClaimParent, Worlds!At, Doing
<1>2. Doing \in Worlds(p)!Call /\ Calling(p)
  BY <1>1, DoingIs DEF BackupsKept
<1>3. CASE Worlds(p)!End("c1")
  BY <1>1, <1>3, Stays, EndKept
<1>4. CASE Worlds(p)!Settle("c1", "claim", Worlds(p)!NoBackup)
  <2>1. Puts(CallTo("settle", Worlds(p)!NoBackup, "claim", now, Doing.from,
                    Doing.owed))
    BY <1>1, <1>2, <1>4, CallMoves
  <2>2. Doing.op = "create" /\ Creating
    BY <1>1, <1>2 DEF Calling, CallPlaces, Settling
  <2>3. /\ Doing.backup # None
        /\ \A b \in Things : Stored(b) => backup[b].key # Doing.key
    BY <1>1, <2>2 DEF Creating
  <2>4. /\ "settle" \in Pcs /\ "settle" \in Settling /\ "claim" = Back("create")
        /\ "settle" \in CallPlaces("create")
    BY DEF Pcs, Settling, CallPlaces, Back
  <2>5. Worlds(p)!NoBackup \in Worlds(p)!Backup
    BY <1>1 DEF Worlds!NoBackup, Worlds!Backup, Worlds!Time, Offer
  <2> QED BY <1>1, <2>1, <2>2, <2>3, <2>4, <2>5, Stays, GoesKept
<1> QED BY <1>3, <1>4 DEF Worlds!ClaimParent

LEMMA GrantKept ==
    ASSUME NEW p, Sound(p), None \notin Things, BackupsKept(p),
           Worlds(p)!Grant("c1")
    PROVE  BackupsKept(p)'
<1>1. /\ p \in Offer /\ Worlds(p)!TypeOK /\ Doing.pc = "grant"
      /\ Worlds(p)!Reads
  BY DEF Sound, BackupsKept, Worlds!Grant, Worlds!At, Doing
<1>2. Doing \in Worlds(p)!Call /\ Calling(p)
  BY <1>1, DoingIs DEF BackupsKept
<1>3. Doing.op = "upload" /\ Changing
  BY <1>1, <1>2 DEF Calling, CallPlaces, Settling
<1>4. /\ Doing.copy \in Worlds(p)!Backup
      /\ Doing.at + 2 \in Worlds(p)!Time
      /\ Doing.next \in {"claim", "grant", "save", "remove", "none"}
  <2>1. Doing.copy \in Worlds(p)!Backup /\ Doing.at \in Worlds(p)!Time
        /\ Doing.next \in {"claim", "grant", "save", "remove", "none"}
    BY <1>1, <1>2, CallParts
  <2>2. Doing.at <= now /\ now \in 0 .. p.time /\ p.time \in Nat
    BY <1>1, <1>2 DEF Calling, Worlds!TypeOK, Offer
  <2> QED BY <2>1, <2>2 DEF Worlds!Time
<1> DEFINE e == Doing.at + 2
           granted == [Doing.copy EXCEPT !.status = "uploading", !.grant = e]
           paid == [granted EXCEPT !.authorized = e]
<1>5. /\ granted \in Worlds(p)!Backup /\ granted.status = "uploading"
      /\ granted.parent = Doing.copy.parent /\ granted.key = Doing.copy.key
      /\ granted.refs = Doing.copy.refs
      /\ granted.verified = Doing.copy.verified
  BY <1>4 DEF Worlds!Backup
<1>6. /\ paid \in Worlds(p)!Backup /\ paid.status = "uploading"
      /\ paid.parent = Doing.copy.parent /\ paid.key = Doing.copy.key
      /\ paid.refs = Doing.copy.refs /\ paid.verified = Doing.copy.verified
  <2> HIDE DEF granted
  <2> QED BY <1>4, <1>5 DEF Worlds!Backup
<1>7. "save" \in Pcs /\ "save" \notin Settling /\ "save" \in CallPlaces("upload")
  BY DEF Pcs, Settling, CallPlaces
<1>8. ASSUME NEW copy \in {granted, paid}, PutsPair("save", copy)
      PROVE  BackupsKept(p)'
  <2>1. /\ copy \in Worlds(p)!Backup /\ copy.status = "uploading"
        /\ copy.parent = Doing.copy.parent /\ copy.key = Doing.copy.key
        /\ copy.refs = Doing.copy.refs /\ copy.verified = Doing.copy.verified
    BY <1>5, <1>6
  <2>2. Puts(CallTo("save", copy, Doing.next, Doing.at, Doing.from, Doing.owed))
    BY <1>1, <1>2, <1>8, CallMoves
  <2> QED BY <1>1, <1>3, <1>4, <1>7, <2>1, <2>2, Stays, GoesKept
<1>9. PutsPair("save", granted) \/ PutsPair("save", paid) \/ Worlds(p)!End("c1")
  BY DEF Worlds!Grant, PutsPair, Doing
<1>10. CASE Worlds(p)!End("c1")
  BY <1>1, <1>10, Stays, EndKept
<1> QED BY <1>8, <1>9, <1>10

LEMMA HeadKept ==
    ASSUME NEW p, Sound(p), None \notin Things, BackupsKept(p),
           Worlds(p)!Head("c1")
    PROVE  BackupsKept(p)'
<1>1. /\ p \in Offer /\ Worlds(p)!TypeOK /\ Doing.pc = "head"
      /\ Worlds(p)!Reads
  BY DEF Sound, BackupsKept, Worlds!Head, Worlds!At, Doing
<1>2. Doing \in Worlds(p)!Call /\ Calling(p)
  BY <1>1, DoingIs DEF BackupsKept
<1>3. Doing.op = "complete" /\ Changing
  BY <1>1, <1>2 DEF Calling, CallPlaces, Settling
<1> DEFINE copy == [Doing.copy EXCEPT !.status = "ready", !.verified = TRUE]
<1>4. CASE Worlds(p)!End("c1")
  BY <1>1, <1>4, Stays, EndKept
<1>5. CASE Worlds(p)!Settle("c1", "save", copy)
  <2>1. Puts(CallTo("settle", copy, "save", now, Doing.from, Doing.owed))
    BY <1>1, <1>2, <1>5, CallMoves
  <2>2. Doing.copy \in Worlds(p)!Backup
    BY <1>1, <1>2, CallParts
  <2>3. /\ copy \in Worlds(p)!Backup /\ copy.status = "ready"
        /\ copy.parent = Doing.copy.parent /\ copy.key = Doing.copy.key
        /\ copy.refs = Doing.copy.refs
    BY <2>2 DEF Worlds!Backup
  <2>4. /\ "settle" \in Pcs /\ "settle" \in Settling /\ "save" = Back("complete")
        /\ "settle" \in CallPlaces("complete")
    BY DEF Pcs, Settling, CallPlaces, Back
  <2>5. Again(p) => now = 1
    BY DEF Again
  <2> HIDE DEF copy
  <2> QED BY <1>1, <1>3, <2>1, <2>3, <2>4, <2>5, Stays, GoesKept
<1> QED BY <1>4, <1>5 DEF Worlds!Head, Doing

LEMMA RecordKept ==
    ASSUME NEW p, Sound(p), None \notin Things, BackupsKept(p),
           Worlds(p)!Record("c1")
    PROVE  BackupsKept(p)'
<1>1. /\ p \in Offer /\ Worlds(p)!TypeOK /\ Doing.pc = "record"
      /\ UNCHANGED <<backup, object, cursor, outbox, billed, now, deaths>>
  BY DEF Sound, BackupsKept, Worlds!Record, Worlds!At, Doing, Worlds!money
<1>2. Doing \in Worlds(p)!Call /\ Calling(p)
  BY <1>1, DoingIs DEF BackupsKept
<1>3. Doing.op = "event" /\ Changing /\ Doing.backup # None
  BY <1>1, <1>2 DEF Calling, CallPlaces, Settling, Changing
<1>4. /\ Doing.copy \in Worlds(p)!Backup /\ Doing.sequence \in 0 .. 2
      /\ Doing.backup \in Things /\ Doing.result \in {"started", "ready", "failed"}
      /\ Doing.next \in {"claim", "grant", "save", "remove", "none"}
  BY <1>1, <1>2, <1>3, CallParts
<1>5. /\ event' \in [Things -> 0 .. 2] /\ object' \subseteq Things
      /\ deaths' \in 0 .. p.deaths
  BY <1>1, <1>4 DEF Worlds!Record, Worlds!TypeOK, Doing
<1>6. CASE Worlds(p)!End("c1")
  BY <1>1, <1>5, <1>6, EndKept
<1>7. CASE PutsStatus("save", Doing.result) /\ Doing.result # "started"
  <2> DEFINE copy == [Doing.copy EXCEPT !.status = Doing.result]
  <2>1. Puts(CallTo("save", copy, Doing.next, Doing.at, Doing.from, Doing.owed))
    BY <1>1, <1>2, <1>7, CallMoves
  <2>2. /\ copy \in Worlds(p)!Backup /\ copy.status \notin {"none", "deleted"}
        /\ copy.parent = Doing.copy.parent /\ copy.key = Doing.copy.key
        /\ copy.refs = Doing.copy.refs /\ copy.verified = Doing.copy.verified
    BY <1>4, <1>7 DEF Worlds!Backup
  <2>3. "save" \in Pcs /\ "save" \notin Settling /\ "save" \in CallPlaces("event")
    BY DEF Pcs, Settling, CallPlaces
  <2> HIDE DEF copy
  <2> QED BY <1>1, <1>3, <1>4, <1>5, <2>1, <2>2, <2>3, GoesKept
<1> QED BY <1>6, <1>7 DEF Worlds!Record, PutsStatus, Doing

LEMMA RemoveKept ==
    ASSUME NEW p, Sound(p), None \notin Things, BackupsKept(p),
           Worlds(p)!Remove("c1")
    PROVE  BackupsKept(p)'
<1>1. /\ p \in Offer /\ Worlds(p)!TypeOK /\ Doing.pc = "remove"
      /\ UNCHANGED <<backup, event, cursor, outbox, billed, now, deaths>>
  BY DEF Sound, BackupsKept, Worlds!Remove, Worlds!At, Doing, Worlds!money
<1>2. Doing \in Worlds(p)!Call /\ Calling(p)
  BY <1>1, DoingIs DEF BackupsKept
<1>3. Doing.op = "delete" /\ Changing
  <2>1. Doing.op \in {"create", "upload", "complete", "restore", "event", "delete"}
    BY <1>1, <1>2, CallParts DEF Offer
  <2> QED BY <1>1, <1>2, <2>1 DEF Calling, CallPlaces, Settling
<1>4. /\ Doing.copy \in Worlds(p)!Backup
      /\ Doing.next \in {"claim", "grant", "save", "remove", "none"}
  BY <1>1, <1>2, CallParts
<1>5. event' \in [Things -> 0 .. 2] /\ object' \subseteq Things
  BY <1>1 DEF Worlds!Remove, Worlds!TypeOK
<1> DEFINE copy == [Doing.copy EXCEPT !.status = "deleted"]
<1>6. Puts(CallTo("save", copy, Doing.next, Doing.at, Doing.from, Doing.owed))
  BY <1>1, <1>2, CallMoves DEF Worlds!Remove, PutsStatus
<1>7. /\ copy \in Worlds(p)!Backup /\ copy.status = "deleted"
      /\ copy.parent = Doing.copy.parent /\ copy.key = Doing.copy.key
      /\ copy.refs = Doing.copy.refs /\ copy.verified = Doing.copy.verified
  BY <1>4 DEF Worlds!Backup
<1>8. "save" \in Pcs /\ "save" \notin Settling /\ "save" \in CallPlaces("delete")
  BY DEF Pcs, Settling, CallPlaces
<1>9. ~Again(p)
  BY <1>1, <1>3 DEF Again, Repeats, Settling
<1> HIDE DEF copy
<1> QED BY <1>1, <1>3, <1>4, <1>5, <1>6, <1>7, <1>8, <1>9, GoesKept

(* A step that leaves the call alone.                                      *)
LEMMA UploadObjectKept ==
    ASSUME NEW p, Sound(p), BackupsKept(p), NEW b \in Things,
           Worlds(p)!UploadObject(b)
    PROVE  BackupsKept(p)'
<1>1. /\ UNCHANGED <<backup, event, cursor, outbox, billed, asking, now, deaths>>
      /\ Worlds(p)!TypeOK
      /\ object' \subseteq Things
  BY DEF BackupsKept, Worlds!TypeOK, Worlds!UploadObject, Worlds!money
<1>2. Worlds(p)!TypeOK'
  BY <1>1 DEF Worlds!TypeOK
<1>3. Doing' = Doing
  BY <1>1 DEF Doing
<1>4. Calling(p)' = Calling(p)
  BY <1>1, <1>3
     DEF Calling, CallPlaces, Settling, Back, Creating, Changing, IsLive, Stored
<1>5. Documents' = Documents
  BY <1>1, <1>3 DEF Documents, Ahead, Layers, Backups, IsLive, Stored
<1>6. /\ Interval(p)' = Interval(p) /\ BilledBefore(p)' = BilledBefore(p)
      /\ BilledAgain(p)' = BilledAgain(p)
  BY <1>1, <1>3
     DEF Interval, BilledBefore, BilledAgain, Again, Repeats, Bill, Verified,
         IsLive, Settling
<1> QED BY <1>2, <1>3, <1>4, <1>5, <1>6 DEF BackupsKept

LEMMA TickKept ==
    ASSUME NEW p, Sound(p), BackupsKept(p), Worlds(p)!Tick
    PROVE  BackupsKept(p)'
<1>1. /\ UNCHANGED <<backup, object, event, cursor, outbox, billed, asking, deaths>>
      /\ Worlds(p)!TypeOK /\ p.time \in Nat /\ now \in 0 .. p.time
      /\ now' = now + 1 /\ now < p.time
  BY DEF BackupsKept, Worlds!TypeOK, Worlds!Tick, Worlds!money,
         Worlds!documents, Sound, Offer
<1>2. Worlds(p)!TypeOK'
  BY <1>1 DEF Worlds!TypeOK
<1>3. Doing' = Doing
  BY <1>1 DEF Doing
<1>4. Doing.pc # "idle" => Calling(p)'
  <2>1. /\ Doing.pc # "idle" => Doing.at \in Int
    <3>1. Worlds(p)!Time \subseteq Int
      BY <1>1 DEF Worlds!Time
    <3> QED BY <3>1, <1>1, DoingIs, CallParts DEF Sound
  <2>2. /\ Creating' = Creating /\ Changing' = Changing
        /\ CallPlaces(Doing.op)' = CallPlaces(Doing.op)
        /\ Back(Doing.op)' = Back(Doing.op) /\ Settling' = Settling
    BY <1>1, <1>3
       DEF Creating, Changing, IsLive, Stored, CallPlaces, Back, Settling
  <2>3. Doing.at <= now => Doing.at <= now' \/ Doing.at \notin Int
    BY <1>1
  <2> QED BY <1>1, <1>3, <2>1, <2>2, <2>3 DEF Calling, BackupsKept
<1>5. Documents' = Documents
  BY <1>1, <1>3 DEF Documents, Ahead, Layers, Backups, IsLive, Stored
<1>6. Interval(p)' = Interval(p) /\ BilledBefore(p)' = BilledBefore(p)
  BY <1>1, <1>3 DEF Interval, BilledBefore, Bill, Verified, IsLive
<1>7. BilledAgain(p)'
  <2>1. p.deaths # 0 => p.time <= 1 /\ now = 0
    BY <1>1 DEF Sound, Offer
  <2>2. p.deaths # 0 => ~Again(p)
    BY <2>1 DEF Again
  <2> QED BY <1>1, <2>2 DEF BilledAgain, BackupsKept
<1> QED BY <1>2, <1>3, <1>4, <1>5, <1>6, <1>7 DEF BackupsKept
-----------------------------------------------------------------------------
(* Steps of `settle`.                                                      *)

(* A call that settled goes on.                                            *)
LEMMA ReturnKept ==
    ASSUME NEW p, Sound(p), None \notin Things, BackupsKept(p),
           Doing.pc \in Settling, Worlds(p)!Return("c1"),
           UNCHANGED <<backup, object, event, now, deaths>>,
           cursor' \in Worlds(p)!Cursor \cup {Worlds(p)!NoCursor},
           outbox' \subseteq Worlds(p)!Usage, billed' = billed,
           cursor'.at = 0 => cursor'.sequence <= 0,
           \A u \in outbox' : u.from < u.to /\ u.to <= cursor'.at,
           BilledBefore(p)', BilledAgain(p)'
    PROVE  BackupsKept(p)' /\ Doing'.pc \notin {"idle", "commit"}
<1>1. p \in Offer /\ Worlds(p)!TypeOK /\ Doing.pc # "idle"
  BY DEF Sound, BackupsKept, Settling
<1>2. Doing \in Worlds(p)!Call /\ Calling(p)
  BY <1>1, DoingIs DEF BackupsKept
<1> DEFINE pc == Doing.next
<1>3. /\ pc = Back(Doing.op) /\ Doing.op \in {"create", "upload", "complete", "delete"}
  <2>1. Doing.op \in {"create", "upload", "complete", "restore", "event", "delete"}
    BY <1>1, <1>2, CallParts DEF Offer
  <2> QED BY <1>2, <2>1 DEF Calling, CallPlaces, Settling
<1>4. /\ pc \in {"claim", "grant", "save", "remove"} /\ pc \in Pcs
      /\ pc \notin Settling /\ pc \in CallPlaces(Doing.op)
      /\ Doing.op = "create" => pc = "claim"
      /\ Doing.op = "delete" => pc = "remove"
  BY <1>3 DEF Back, Pcs, Settling, CallPlaces
<1>5. Puts(CallTo(pc, Doing.copy, Doing.next, Doing.at, Doing.from, Doing.owed))
  BY <1>1, <1>2, CallMoves DEF Worlds!Return, Doing
<1>6. /\ asking' \in [{"c1"} -> Worlds(p)!Call \cup {Worlds(p)!Idle}]
      /\ Doing'.pc = pc /\ Doing'.copy = Doing.copy /\ Doing'.next = Doing.next
      /\ Doing'.at = Doing.at /\ SameCall
  <2> HIDE DEF pc
  <2> QED BY <1>1, <1>2, <1>4, <1>5, CallGoes
<1>7. Worlds(p)!TypeOK'
  BY <1>1, <1>6 DEF Worlds!TypeOK
<1>8. \A x : IsLive(x)' = IsLive(x) /\ Stored(x)' = Stored(x)
  BY DEF IsLive, Stored
<1> HIDE DEF pc
<1>9. Calling(p)'
  <2>1. CallPlaces(Doing.op)' = CallPlaces(Doing.op)
        /\ Back(Doing.op)' = Back(Doing.op) /\ Settling' = Settling
    BY <1>6 DEF SameCall, CallPlaces, Back, Settling
  <2>2. CASE Doing.op = "create"
    <3>1. Creating'
      BY <1>2, <1>4, <1>6, <1>8, <2>1, <2>2 DEF Calling, Creating, SameCall, Settling
    <3> QED BY <1>2, <1>4, <1>6, <2>1, <2>2, <3>1 DEF Calling, SameCall
  <2>3. CASE Doing.op # "create"
    <3>1. Changing'
      BY <1>2, <1>4, <1>6, <1>8, <2>3 DEF Calling, Changing, SameCall, Settling
    <3> QED BY <1>2, <1>4, <1>6, <2>1, <2>3, <3>1 DEF Calling, SameCall
  <2> QED BY <2>2, <2>3
<1>10. Documents'
  <2>1. \A q \in Things : Ahead(q) = 0 /\ Ahead(q)' = 0
    BY <1>4, <1>6 DEF Ahead, Settling
  <2>2. /\ \A q : Layers(q)' = Layers(q)
        /\ Backups' = Backups
    BY <1>8 DEF Layers, Backups
  <2> QED BY <1>8, <2>1, <2>2 DEF Documents, BackupsKept
<1>11. Interval(p)'
  <2>1. \A u, v \in billed : u # v => u.to <= v.from \/ v.to <= u.from
    BY DEF BackupsKept, Interval
  <2> QED BY <1>4, <1>6, <2>1 DEF Interval
<1> QED BY <1>4, <1>6, <1>7, <1>9, <1>10, <1>11 DEF BackupsKept

(* A call that settles goes on with it.                                    *)
LEMMA SettlesKept ==
    ASSUME NEW p, Sound(p), None \notin Things, BackupsKept(p),
           Doing.pc \in Settling, NEW pc \in Settling,
           NEW from \in Worlds(p)!Cursor \cup {Worlds(p)!NoCursor},
           NEW owed \in Nat,
           Puts(CallTo(pc, Doing.copy, Doing.next, Doing.at, from, owed)),
           UNCHANGED <<backup, object, event, cursor, outbox, now, deaths>>,
           billed' \subseteq Worlds(p)!Usage,
           pc \in {"usage", "publish", "commit", "move"} =>
               /\ from = cursor /\ cursor \in [at : 0 .. p.time, sequence : Nat]
               /\ Doing.at > cursor.at,
           pc \in {"publish", "commit"} => owed = Cardinality(Verified) - p.free,
           \A u, v \in billed' : u # v => u.to <= v.from \/ v.to <= u.from,
           BilledBefore(p)', BilledAgain(p)'
    PROVE  BackupsKept(p)'
<1>1. p \in Offer /\ Worlds(p)!TypeOK /\ Doing.pc # "idle"
  BY DEF Sound, BackupsKept, Settling
<1>2. Doing \in Worlds(p)!Call /\ Calling(p)
  BY <1>1, DoingIs DEF BackupsKept
<1>3. pc \in Pcs /\ pc # "idle"
  BY DEF Pcs, Settling
<1>4. Doing.op \in {"create", "upload", "complete", "delete"}
  <2>1. Doing.op \in {"create", "upload", "complete", "restore", "event", "delete"}
    BY <1>1, <1>2, CallParts DEF Offer
  <2> QED BY <1>2, <2>1 DEF Calling, CallPlaces, Settling
<1>5. pc \in CallPlaces(Doing.op)
  BY <1>4 DEF CallPlaces
<1>6. /\ asking' \in [{"c1"} -> Worlds(p)!Call \cup {Worlds(p)!Idle}]
      /\ Doing'.pc = pc /\ Doing'.copy = Doing.copy /\ Doing'.next = Doing.next
      /\ Doing'.at = Doing.at /\ Doing'.from = from /\ Doing'.owed = owed
      /\ SameCall
  BY <1>1, <1>2, <1>3, CallParts, CallWith
<1>7. Worlds(p)!TypeOK'
  BY <1>1, <1>6 DEF Worlds!TypeOK
<1>8. \A x : IsLive(x)' = IsLive(x) /\ Stored(x)' = Stored(x)
  BY DEF IsLive, Stored
<1>9. Calling(p)'
  <2>1. CallPlaces(Doing.op)' = CallPlaces(Doing.op)
        /\ Back(Doing.op)' = Back(Doing.op) /\ Settling' = Settling
    BY <1>6 DEF SameCall, CallPlaces, Back, Settling
  <2>2. CASE Doing.op = "create"
    <3>1. Creating'
      BY <1>2, <1>6, <1>8, <2>1, <2>2 DEF Calling, Creating, SameCall, Settling
    <3> QED BY <1>2, <1>5, <1>6, <2>1, <2>2, <3>1 DEF Calling, SameCall
  <2>3. CASE Doing.op # "create"
    <3>1. Changing'
      BY <1>2, <1>6, <1>8, <2>3 DEF Calling, Changing, SameCall, Settling
    <3> QED BY <1>2, <1>5, <1>6, <2>1, <2>3, <3>1 DEF Calling, SameCall
  <2> QED BY <2>2, <2>3
<1>10. Documents'
  <2>1. \A q \in Things : Ahead(q) = 0 /\ Ahead(q)' = 0
    BY <1>6 DEF Ahead, Settling
  <2>2. /\ \A q : Layers(q)' = Layers(q)
        /\ Backups' = Backups
    BY <1>8 DEF Layers, Backups
  <2> QED BY <1>8, <2>1, <2>2 DEF Documents, BackupsKept
<1>11. Interval(p)'
  <2>1. /\ \A u \in outbox : u.from < u.to /\ u.to <= cursor.at
        /\ cursor.at = 0 => cursor.sequence <= 0
    BY DEF BackupsKept, Interval
  <2>2. Verified' = Verified
    BY <1>8 DEF Verified
  <2> QED BY <1>6, <2>1, <2>2 DEF Interval
<1> QED BY <1>6, <1>7, <1>9, <1>10, <1>11 DEF BackupsKept

LEMMA SettlingIs ==
    ASSUME NEW p, Sound(p), BackupsKept(p), Doing.pc \in Settling
    PROVE  /\ p \in Offer /\ Worlds(p)!TypeOK /\ Doing \in Worlds(p)!Call
           /\ Calling(p) /\ Doing.at \in Worlds(p)!Time
           /\ Doing.at \in Int /\ Doing.at <= now /\ now \in 0 .. p.time
           /\ p.time \in Nat /\ Doing.at \in 0 .. p.time
           /\ cursor \in Worlds(p)!Cursor \cup {Worlds(p)!NoCursor}
           /\ outbox \subseteq Worlds(p)!Usage /\ billed \subseteq Worlds(p)!Usage
<1>1. p \in Offer /\ Worlds(p)!TypeOK /\ Doing.pc # "idle"
  BY DEF Sound, BackupsKept, Settling
<1>2. Doing \in Worlds(p)!Call /\ Calling(p)
  BY <1>1, DoingIs DEF BackupsKept
<1>3. Doing.at \in Worlds(p)!Time /\ p.time \in Nat
  BY <1>1, <1>2, CallParts DEF Offer
<1> QED BY <1>1, <1>2, <1>3 DEF Worlds!TypeOK, Calling, Worlds!Time

LEMMA ReadCursorKept ==
    ASSUME NEW p, Sound(p), None \notin Things, BackupsKept(p),
           Worlds(p)!ReadCursor("c1")
    PROVE  BackupsKept(p)'
<1>1. /\ Doing.pc = "settle" /\ Doing.pc \in Settling
      /\ UNCHANGED <<backup, object, event, outbox, billed, now, deaths>>
  BY DEF Worlds!ReadCursor, Worlds!At, Doing, Settling, Worlds!documents
<1>2. /\ p \in Offer /\ Worlds(p)!TypeOK /\ Doing \in Worlds(p)!Call
      /\ Doing.at \in 0 .. p.time /\ Doing.at <= now /\ now \in 0 .. p.time
      /\ cursor \in Worlds(p)!Cursor \cup {Worlds(p)!NoCursor}
      /\ outbox \subseteq Worlds(p)!Usage
      /\ \A u \in outbox : u.from < u.to /\ u.to <= cursor.at
      /\ cursor.at = 0 => cursor.sequence <= 0
  BY <1>1, SettlingIs DEF BackupsKept, Interval
<1>3. Verified' = Verified
  BY <1>1 DEF Verified, IsLive
<1>4. CASE /\ cursor = Worlds(p)!NoCursor /\ cursor' = [at |-> 0, sequence |-> 0]
           /\ Worlds(p)!Return("c1")
  <2>1. cursor.at = 0 /\ cursor.sequence = -1
    BY <1>4 DEF Worlds!NoCursor
  <2>2. cursor' \in Worlds(p)!Cursor /\ cursor'.at = 0 /\ cursor'.sequence = 0
    <3>1. p.time \in Nat /\ 0 \in 0 .. p.time
      BY <1>2 DEF Offer
    <3> QED BY <1>4, <3>1 DEF Worlds!Cursor
  <2>3. p.deaths # 0 => billed = {}
    BY <2>1 DEF BackupsKept, BilledAgain, Again
  <2>4. BilledAgain(p)'
    BY <1>1, <2>3 DEF BilledAgain
  <2>5. BilledBefore(p)'
    BY <1>1, <2>1, <2>2 DEF BackupsKept, BilledBefore
  <2> QED BY <1>1, <1>2, <1>4, <2>1, <2>2, <2>4, <2>5, ReturnKept
<1>5. CASE Doing.at <= cursor.at /\ Worlds(p)!Return("c1") /\ cursor' = cursor
  <2>1. SameCall /\ Doing'.at = Doing.at
    <3>1. Puts(CallTo(Doing.next, Doing.copy, Doing.next, Doing.at, Doing.from,
                      Doing.owed))
      BY <1>2, <1>5, CallMoves DEF Worlds!Return, Doing
    <3>2. Doing.next \in Pcs
      BY <1>1, SettlingIs DEF Calling, Back, Pcs
    <3> QED BY <1>2, <3>1, <3>2, CallGoes
  <2>2. BilledBefore(p)'
    BY <1>1, <1>5 DEF BackupsKept, BilledBefore
  <2>3. p.deaths # 0 /\ cursor.at = 0 /\ billed # {} => Again(p)'
    <3> SUFFICES ASSUME p.deaths # 0, cursor.at = 0, billed # {}
                 PROVE  Again(p)'
      OBVIOUS
    <3>1. Again(p)
      BY DEF BackupsKept, BilledAgain
    <3>2. Doing.op \notin {"complete", "delete"}
      BY <1>1, <1>2, <1>5, <3>1 DEF Again, Repeats
    <3> QED BY <1>1, <1>3, <1>5, <2>1, <3>1, <3>2 DEF Again, Repeats, SameCall
  <2>4. BilledAgain(p)'
    BY <1>1, <1>5, <2>3 DEF BackupsKept, BilledAgain
  <2> QED BY <1>1, <1>2, <1>5, <2>2, <2>4, ReturnKept
<1>6. CASE /\ cursor # Worlds(p)!NoCursor /\ Doing.at > cursor.at
           /\ PutsFrom("usage", cursor) /\ cursor' = cursor
  <2>1. Puts(CallTo("usage", Doing.copy, Doing.next, Doing.at, cursor, Doing.owed))
    BY <1>2, <1>6, CallMoves
  <2>2. cursor \in [at : 0 .. p.time, sequence : Nat]
    BY <1>2, <1>6 DEF Worlds!Cursor
  <2>3. Doing.owed \in Nat /\ "usage" \in Settling /\ "usage" \in Pcs
    BY <1>2, CallParts DEF Settling, Pcs
  <2>4. SameCall /\ Doing'.pc = "usage" /\ Doing'.at = Doing.at
    <3>1. /\ p \in Offer /\ Worlds(p)!TypeOK /\ Doing \in Worlds(p)!Call
          /\ cursor \in Worlds(p)!Cursor \cup {Worlds(p)!NoCursor}
      BY <1>2
    <3>2. /\ Doing.copy \in Worlds(p)!Backup /\ Doing.at \in Worlds(p)!Time
          /\ Doing.next \in {"claim", "grant", "save", "remove", "none"}
      BY <3>1, CallParts
    <3> QED BY <2>1, <2>3, <3>1, <3>2, CallWith
  <2>5. BilledBefore(p)'
    BY <1>1, <1>6 DEF BackupsKept, BilledBefore
  <2>6. Again(p) => Again(p)'
    BY <1>1, <1>3, <1>6, <2>4 DEF Again, Repeats, Settling, SameCall
  <2>7. BilledAgain(p)'
    BY <1>1, <1>6, <2>6 DEF BackupsKept, BilledAgain
  <2>8. \A u, v \in billed : u # v => u.to <= v.from \/ v.to <= u.from
    BY DEF BackupsKept, Interval
  <2>9. billed \subseteq Worlds(p)!Usage
    BY <1>2 DEF Worlds!TypeOK
  <2> QED BY <1>1, <1>2, <1>6, <2>1, <2>2, <2>3, <2>5, <2>7, <2>8, <2>9,
             SettlesKept
<1>7. cursor.at \in Int /\ Doing.at \in Int
  BY <1>2 DEF Worlds!Cursor, Worlds!NoCursor
<1> QED
  BY <1>4, <1>5, <1>6, <1>7 DEF Worlds!ReadCursor, PutsFrom, Doing

LEMMA CountIs ==
    ASSUME NEW p PROVE \A S : Worlds(p)!Cardinality(S) = Cardinality(S)
BY DEF Worlds!Cardinality, Cardinality

LEMMA ReadUsageKept ==
    ASSUME NEW p, Sound(p), None \notin Things, BackupsKept(p),
           Worlds(p)!ReadUsage("c1")
    PROVE  BackupsKept(p)'
<1>1. /\ Doing.pc = "usage" /\ Doing.pc \in Settling /\ Worlds(p)!Reads
      /\ UNCHANGED <<backup, object, event, cursor, outbox, billed, now, deaths>>
  BY DEF Worlds!ReadUsage, Worlds!At, Doing, Settling, Worlds!Reads,
         Worlds!documents, Worlds!money
<1>2. /\ p \in Offer /\ Worlds(p)!TypeOK /\ Doing \in Worlds(p)!Call
      /\ billed \subseteq Worlds(p)!Usage
  BY <1>1, SettlingIs
<1>3. /\ Doing.from = cursor /\ cursor \in [at : 0 .. p.time, sequence : Nat]
      /\ Doing.at > cursor.at
      /\ \A u, v \in billed : u # v => u.to <= v.from \/ v.to <= u.from
  BY <1>1 DEF BackupsKept, Interval
<1>4. Verified' = Verified /\ Worlds(p)!Counted = Verified
  BY <1>1 DEF Verified, IsLive, Worlds!Counted, Worlds!Live
<1>5. /\ Doing.owed \in Nat
      /\ cursor \in Worlds(p)!Cursor \cup {Worlds(p)!NoCursor}
  BY <1>1, <1>2, CallParts, SettlingIs
<1>6. ASSUME NEW pc \in {"move", "publish"}, NEW owed \in Nat,
             Puts(CallTo(pc, Doing.copy, Doing.next, Doing.at, Doing.from, owed)),
             pc = "publish" => owed = Cardinality(Verified) - p.free
      PROVE  BackupsKept(p)'
  <2>1. pc \in Settling /\ pc \in Pcs
    BY DEF Settling, Pcs
  <2>2. SameCall /\ Doing'.pc = pc /\ Doing'.at = Doing.at
    BY <1>2, <1>6, <2>1, CallParts, CallWith
  <2>3. BilledBefore(p)'
    BY <1>1 DEF BackupsKept, BilledBefore
  <2>4. Again(p) => Again(p)'
    BY <1>1, <1>4, <2>1, <2>2 DEF Again, Repeats, Settling, SameCall
  <2>5. BilledAgain(p)'
    BY <1>1, <2>4 DEF BackupsKept, BilledAgain
  <2> QED BY <1>1, <1>2, <1>3, <1>5, <1>6, <2>1, <2>3, <2>5, SettlesKept
<1>7. CASE Worlds(p)!Goto("c1", "move")
  <2>1. Puts(CallTo("move", Doing.copy, Doing.next, Doing.at, Doing.from,
                    Doing.owed))
    BY <1>2, <1>7, CallMoves
  <2> QED BY <1>5, <1>6, <2>1
<1>8. CASE /\ Worlds(p)!Used > p.free
           /\ PutsOwed("publish", Worlds(p)!Used - p.free)
  <2> DEFINE owed == Worlds(p)!Used - p.free
  <2>1. owed = Cardinality(Verified) - p.free
    BY <1>4, CountIs DEF Worlds!Used
  <2>2. owed \in Nat
    <3>1. Verified \subseteq Backups
      BY DEF Verified, IsLive, Stored, Backups
    <3>2. Cardinality(Verified) \in Nat
      BY <3>1, FS_Subset, FS_CardinalityType DEF BackupsKept, Documents
    <3>3. p.free \in Nat /\ Cardinality(Verified) > p.free
      BY <1>2, <1>4, <1>8, CountIs DEF Worlds!Used, Offer
    <3> HIDE DEF owed
    <3> QED BY <2>1, <3>2, <3>3
  <2>3. Puts(CallTo("publish", Doing.copy, Doing.next, Doing.at, Doing.from, owed))
    BY <1>2, <1>8, CallMoves
  <2> HIDE DEF owed
  <2> QED BY <1>6, <2>1, <2>2, <2>3
<1>9. CASE Worlds(p)!End("c1")
  BY <1>1, <1>9, Stays, EndKept
<1> QED
  BY <1>7, <1>8, <1>9 DEF Worlds!ReadUsage, PutsOwed

(* What a call bills is from the cursor to when it began.                  *)
LEMMA BillIs ==
    ASSUME NEW p, Sound(p), BackupsKept(p), Doing.pc \in {"publish", "commit"}
    PROVE  /\ Doing.pc \in Settling /\ Worlds(p)!UsageOf("c1") = Bill(p)
           /\ Bill(p) \in Worlds(p)!Usage
           /\ Bill(p).from = cursor.at /\ Bill(p).to = Doing.at
           /\ cursor \in [at : 0 .. p.time, sequence : Nat] /\ Doing.from = cursor
           /\ Doing.at \in 0 .. p.time /\ Doing.at > cursor.at
<1>1. Doing.pc \in Settling
  BY DEF Settling
<1>2. /\ p \in Offer /\ Worlds(p)!TypeOK /\ Doing \in Worlds(p)!Call
      /\ Doing.at \in 0 .. p.time /\ Doing.at \in Worlds(p)!Time
      /\ p.time \in Nat
  BY <1>1, SettlingIs
<1>3. /\ Doing.from = cursor /\ cursor \in [at : 0 .. p.time, sequence : Nat]
      /\ Doing.at > cursor.at /\ Doing.owed = Cardinality(Verified) - p.free
  BY DEF BackupsKept, Interval
<1>4. Doing.owed \in Nat
  BY <1>2, CallParts
<1>5. /\ cursor.at \in 0 .. p.time /\ cursor.at \in Worlds(p)!Time
      /\ cursor.sequence \in Nat
  BY <1>2, <1>3 DEF Worlds!Time
<1>6. Worlds(p)!UsageOf("c1") =
        [from |-> cursor.at, to |-> Doing.at,
         quantity |-> Doing.owed * (Doing.at - cursor.at),
         sequence |-> cursor.sequence + 1]
  BY <1>3 DEF Worlds!UsageOf, Doing
<1>7. Bill(p) =
        [from |-> cursor.at, to |-> Doing.at,
         quantity |-> Doing.owed * (Doing.at - cursor.at),
         sequence |-> cursor.sequence + 1]
  BY <1>3 DEF Bill
<1>8. Doing.owed * (Doing.at - cursor.at) \in Nat
  <2>1. \A a, b \in Nat : a * b \in Nat
    OBVIOUS
  <2>2. Doing.at - cursor.at \in Nat
    BY <1>2, <1>3, <1>5
  <2> QED BY <1>4, <2>1, <2>2
<1>9. Bill(p) \in Worlds(p)!Usage
  BY <1>2, <1>5, <1>7, <1>8 DEF Worlds!Usage
<1> QED BY <1>1, <1>2, <1>3, <1>6, <1>7, <1>9

LEMMA PublishKept ==
    ASSUME NEW p, Sound(p), None \notin Things, BackupsKept(p),
           Worlds(p)!Publish("c1")
    PROVE  BackupsKept(p)'
<1>1. /\ Doing.pc = "publish" /\ Doing.pc \in Settling
      /\ UNCHANGED <<backup, object, event, cursor, outbox, now, deaths>>
      /\ billed' = billed \cup {Worlds(p)!UsageOf("c1")}
      /\ Worlds(p)!Goto("c1", "commit")
  BY DEF Worlds!Publish, Worlds!At, Doing, Settling, Worlds!documents
<1>2. /\ p \in Offer /\ Worlds(p)!TypeOK /\ Doing \in Worlds(p)!Call
      /\ billed \subseteq Worlds(p)!Usage /\ now \in 0 .. p.time
      /\ Doing.at <= now /\ p.time \in Nat
      /\ cursor \in Worlds(p)!Cursor \cup {Worlds(p)!NoCursor}
  BY <1>1, SettlingIs
<1>3. /\ Worlds(p)!UsageOf("c1") = Bill(p) /\ Bill(p) \in Worlds(p)!Usage
      /\ Bill(p).from = cursor.at /\ Bill(p).to = Doing.at
      /\ cursor \in [at : 0 .. p.time, sequence : Nat] /\ Doing.from = cursor
      /\ Doing.at \in 0 .. p.time /\ Doing.at > cursor.at
  BY <1>1, BillIs
<1>4. /\ Doing.owed \in Nat /\ Doing.owed = Cardinality(Verified) - p.free
      /\ \A u, v \in billed : u # v => u.to <= v.from \/ v.to <= u.from
      /\ cursor.at = 0 => cursor.sequence <= 0
  BY <1>1, <1>2, CallParts DEF BackupsKept, Interval
<1>5. Puts(CallTo("commit", Doing.copy, Doing.next, Doing.at, Doing.from,
                  Doing.owed))
  BY <1>1, <1>2, CallMoves
<1>6. "commit" \in Settling /\ "commit" \in Pcs
  BY DEF Settling, Pcs
<1>7. /\ SameCall /\ Doing'.pc = "commit" /\ Doing'.at = Doing.at
      /\ Doing'.from = Doing.from
  BY <1>2, <1>5, <1>6, CallGoes
<1>8. Verified' = Verified
  BY <1>1 DEF Verified, IsLive
<1>9. billed' = billed \cup {Bill(p)}
  BY <1>1, <1>3
<1>10. p.deaths # 0 =>
          /\ cursor.at = 0 /\ Doing.at = 1 /\ now = 1 /\ cursor.sequence = 0
          /\ Bill(p) = [from |-> 0, to |-> 1, sequence |-> 1,
                        quantity |-> Cardinality(Verified) - p.free]
  <2> SUFFICES ASSUME p.deaths # 0
               PROVE  /\ cursor.at = 0 /\ Doing.at = 1 /\ now = 1
                      /\ cursor.sequence = 0
                      /\ Bill(p) = [from |-> 0, to |-> 1, sequence |-> 1,
                                    quantity |-> Cardinality(Verified) - p.free]
    OBVIOUS
  <2>1. p.time <= 1
    BY DEF Sound
  <2>2. /\ cursor.at = 0 /\ Doing.at = 1 /\ now = 1 /\ cursor.sequence = 0
    BY <1>2, <1>3, <1>4, <2>1
  <2>3. (Cardinality(Verified) - p.free) * (1 - 0)
            = Cardinality(Verified) - p.free
    <3>1. \A n \in Nat : n * (1 - 0) = n
      OBVIOUS
    <3> QED BY <1>4, <3>1
  <2> QED BY <1>3, <2>2, <2>3 DEF Bill
<1>11. p.deaths # 0 /\ billed # {} => Again(p)
  BY <1>10 DEF BackupsKept, BilledAgain
<1>12. p.deaths # 0 => billed' = {Bill(p)}
  BY <1>9, <1>10, <1>11 DEF Again
<1>13. \A u, v \in billed' : u # v => u.to <= v.from \/ v.to <= u.from
  <2>1. CASE p.deaths # 0
    BY <1>12, <2>1
  <2>2. CASE p.deaths = 0
    <3>1. \A u \in billed : u.to <= Bill(p).from
      BY <1>1, <1>3, <2>2 DEF BackupsKept, BilledBefore
    <3> QED BY <1>4, <1>9, <3>1
  <2> QED BY <2>1, <2>2
<1>14. BilledBefore(p)'
  <2>1. Bill(p)' = Bill(p)
    BY <1>7, <1>8 DEF Bill
  <2> QED BY <1>1, <1>7, <1>9, <2>1 DEF BackupsKept, BilledBefore
<1>15. BilledAgain(p)'
  <2> SUFFICES ASSUME p.deaths # 0
               PROVE  BilledAgain(p)'
    BY DEF BilledAgain
  <2>1. Again(p)'
    <3>1. now' = 1 /\ cursor'.sequence = 0 /\ Doing'.at = 1
      BY <1>1, <1>7, <1>10
    <3>2. Repeats'
      BY <1>6, <1>7, <3>1 DEF Repeats, Settling
    <3> QED BY <1>8, <1>10, <1>12, <3>1, <3>2 DEF Again
  <2>2. Bill(p).from = 0 /\ Bill(p).to = 1
    BY <1>10
  <2> QED BY <1>12, <2>1, <2>2 DEF BilledAgain
<1>16. billed' \subseteq Worlds(p)!Usage
  BY <1>2, <1>3, <1>9
<1> QED BY <1>1, <1>2, <1>3, <1>4, <1>5, <1>6, <1>13, <1>14, <1>15, <1>16,
           SettlesKept

LEMMA CommitKept ==
    ASSUME NEW p, Sound(p), None \notin Things, BackupsKept(p),
           Worlds(p)!Commit("c1")
    PROVE  BackupsKept(p)'
<1>1. /\ Doing.pc = "commit" /\ Doing.pc \in Settling
      /\ UNCHANGED <<backup, object, event, billed, now, deaths>>
  BY DEF Worlds!Commit, Worlds!At, Doing, Settling, Worlds!documents
<1>2. /\ p \in Offer /\ Worlds(p)!TypeOK /\ Doing \in Worlds(p)!Call
      /\ outbox \subseteq Worlds(p)!Usage /\ billed \subseteq Worlds(p)!Usage
  BY <1>1, SettlingIs
<1>3. /\ Worlds(p)!UsageOf("c1") = Bill(p) /\ Bill(p) \in Worlds(p)!Usage
      /\ Bill(p).from = cursor.at /\ Bill(p).to = Doing.at
      /\ cursor \in [at : 0 .. p.time, sequence : Nat] /\ Doing.from = cursor
      /\ Doing.at \in 0 .. p.time /\ Doing.at > cursor.at
  BY <1>1, BillIs
<1>4. /\ cursor.at \in Int /\ Doing.at \in Int
      /\ \A u \in Worlds(p)!Usage : u.from \in Int /\ u.to \in Int
  <2>1. Worlds(p)!Time \subseteq Int
    BY <1>2 DEF Worlds!Time, Offer
  <2> QED BY <1>3, <2>1 DEF Worlds!Usage
<1>5. \A u \in outbox : u.from < u.to /\ u.to <= cursor.at
  BY DEF BackupsKept, Interval
<1>6. ~ \E u \in outbox : u.from = Bill(p).from /\ u.to = Bill(p).to
  BY <1>2, <1>3, <1>4, <1>5
<1>7. /\ outbox' = outbox \cup {Bill(p)} /\ cursor' = Worlds(p)!Moved("c1")
      /\ Worlds(p)!Return("c1")
  BY <1>3, <1>6 DEF Worlds!Commit
<1>8. cursor' = [at |-> Doing.at, sequence |-> cursor.sequence + 1]
  BY <1>3, <1>7 DEF Worlds!Moved, Doing
<1>9. cursor' \in Worlds(p)!Cursor /\ cursor'.at = Doing.at /\ cursor'.at # 0
  BY <1>3, <1>4, <1>8 DEF Worlds!Cursor
<1>10. outbox' \subseteq Worlds(p)!Usage
  BY <1>2, <1>3, <1>7
<1>11. \A u \in outbox' : u.from < u.to /\ u.to <= cursor'.at
  BY <1>2, <1>3, <1>4, <1>5, <1>7, <1>9
<1>12. BilledBefore(p)'
  <2>1. p.deaths = 0 => \A u \in billed : u.to <= cursor'.at
    <3>1. p.deaths = 0 => \A u \in billed : u.to <= cursor.at \/ u = Bill(p)
      BY DEF BackupsKept, BilledBefore
    <3> QED BY <1>2, <1>3, <1>4, <1>9, <3>1
  <2> QED BY <1>1, <2>1 DEF BilledBefore
<1>13. BilledAgain(p)'
  BY <1>1, <1>9 DEF BackupsKept, BilledAgain
<1> QED BY <1>1, <1>7, <1>9, <1>10, <1>11, <1>12, <1>13, ReturnKept

LEMMA MoveKept ==
    ASSUME NEW p, Sound(p), None \notin Things, BackupsKept(p),
           Worlds(p)!Move("c1")
    PROVE  BackupsKept(p)'
<1>1. /\ Doing.pc = "move" /\ Doing.pc \in Settling
      /\ UNCHANGED <<backup, object, event, outbox, billed, now, deaths>>
      /\ cursor' = [Doing.from EXCEPT !.at = Doing.at]
      /\ Worlds(p)!Return("c1")
  BY DEF Worlds!Move, Worlds!At, Doing, Settling, Worlds!documents
<1>2. /\ p \in Offer /\ Doing.at \in 0 .. p.time
      /\ outbox \subseteq Worlds(p)!Usage /\ billed \subseteq Worlds(p)!Usage
  BY <1>1, SettlingIs
<1>3. /\ Doing.from = cursor /\ cursor \in [at : 0 .. p.time, sequence : Nat]
      /\ Doing.at > cursor.at
      /\ \A u \in outbox : u.from < u.to /\ u.to <= cursor.at
  BY <1>1 DEF BackupsKept, Interval
<1>4. /\ cursor.at \in Nat /\ Doing.at \in Int
      /\ \A u \in Worlds(p)!Usage : u.from \in Int /\ u.to \in Int
  <2>1. Worlds(p)!Time \subseteq Int
    BY <1>2 DEF Worlds!Time, Offer
  <2> QED BY <1>2, <1>3, <2>1 DEF Worlds!Usage
<1>5. cursor' \in Worlds(p)!Cursor /\ cursor'.at = Doing.at /\ cursor'.at # 0
  BY <1>1, <1>2, <1>3, <1>4 DEF Worlds!Cursor
<1>6. \A u \in outbox' : u.from < u.to /\ u.to <= cursor'.at
  BY <1>1, <1>2, <1>3, <1>4, <1>5
<1>7. BilledBefore(p)'
  <2>1. p.deaths = 0 => \A u \in billed : u.to <= cursor.at
    BY <1>1 DEF BackupsKept, BilledBefore
  <2>2. p.deaths = 0 => \A u \in billed : u.to <= cursor'.at
    BY <1>2, <1>3, <1>4, <1>5, <2>1
  <2> QED BY <1>1, <2>2 DEF BilledBefore
<1>8. BilledAgain(p)'
  BY <1>1, <1>5 DEF BackupsKept, BilledAgain
<1> QED BY <1>1, <1>2, <1>5, <1>6, <1>7, <1>8, ReturnKept
-----------------------------------------------------------------------------
(* Steps that change the documents.                                        *)
LEMMA LayersAre ==
    ASSUME NEW p, BackupsKept(p), NEW q \in Things
    PROVE  /\ IsFiniteSet(Layers(q)) /\ Cardinality(Layers(q)) \in Nat
           /\ Ahead(q) \in 0 .. 1 /\ backup[q].refs \in Int
           /\ backup[q].refs >= Cardinality(Layers(q)) + Ahead(q)
           /\ IsFiniteSet(Backups)
<1>1. Layers(q) \subseteq Backups
  BY DEF Layers, IsLive, Stored, Backups
<1>2. IsFiniteSet(Layers(q)) /\ Cardinality(Layers(q)) \in Nat
  BY <1>1, FS_Subset, FS_CardinalityType DEF BackupsKept, Documents
<1> QED BY <1>2 DEF BackupsKept, Documents, Ahead, Worlds!TypeOK, Worlds!Backup

(* A count of layers that changes.                                         *)
LEMMA RefsChange ==
    ASSUME NEW p, BackupsKept(p), NEW q \in Things, NEW n \in Int,
           backup' = [backup EXCEPT ![q].refs = n]
    PROVE  /\ backup' \in [Things -> Worlds(p)!Backup]
           /\ \A b \in Things :
                /\ backup'[b].status = backup[b].status
                /\ backup'[b].parent = backup[b].parent
                /\ backup'[b].key = backup[b].key
                /\ backup'[b].verified = backup[b].verified
                /\ backup'[b].refs = IF b = q THEN n ELSE backup[b].refs
                /\ IsLive(b)' = IsLive(b) /\ Stored(b)' = Stored(b)
           /\ \A r \in Things : Layers(r)' = Layers(r)
           /\ Verified' = Verified /\ Backups' = Backups
<1>1. backup \in [Things -> Worlds(p)!Backup]
  BY DEF BackupsKept, Worlds!TypeOK
<1>2. \A b \in Things : b # q => backup'[b] = backup[b]
  BY <1>1
<1>3. backup'[q] = [backup[q] EXCEPT !.refs = n]
  BY <1>1
<1>4. backup[q] \in Worlds(p)!Backup
  BY <1>1
<1>5. /\ backup'[q] \in Worlds(p)!Backup
      /\ backup'[q].status = backup[q].status /\ backup'[q].key = backup[q].key
      /\ backup'[q].parent = backup[q].parent
      /\ backup'[q].verified = backup[q].verified /\ backup'[q].refs = n
  BY <1>3, <1>4 DEF Worlds!Backup
<1>6. backup' \in [Things -> Worlds(p)!Backup]
  BY <1>1, <1>5
<1>7. \A b \in Things :
        /\ backup'[b].status = backup[b].status
        /\ backup'[b].parent = backup[b].parent
        /\ backup'[b].key = backup[b].key
        /\ backup'[b].verified = backup[b].verified
        /\ backup'[b].refs = IF b = q THEN n ELSE backup[b].refs
  BY <1>2, <1>5
<1>8. \A b \in Things : IsLive(b)' = IsLive(b) /\ Stored(b)' = Stored(b)
  BY <1>7 DEF IsLive, Stored
<1>9. \A r \in Things : Layers(r)' = Layers(r)
  BY <1>7, <1>8 DEF Layers
<1>10. Verified' = Verified /\ Backups' = Backups
  BY <1>7, <1>8 DEF Verified, Backups
<1> QED BY <1>6, <1>7, <1>8, <1>9, <1>10

(* What is billed, when a step changes only documents.                     *)
LEMMA MoneyKept ==
    ASSUME NEW p, BackupsKept(p), UNCHANGED <<cursor, outbox, billed, now>>,
           Doing.pc # "commit",
           Doing'.pc \notin {"usage", "publish", "commit", "move"},
           Again(p) => Verified' = Verified /\ (Doing'.pc # "idle" => Repeats')
    PROVE  Interval(p)' /\ BilledBefore(p)' /\ BilledAgain(p)'
<1>1. Interval(p)'
  BY DEF BackupsKept, Interval
<1>2. BilledBefore(p)'
  BY DEF BackupsKept, BilledBefore
<1>3. Again(p) => Again(p)'
  BY DEF Again
<1>4. BilledAgain(p)'
  BY <1>3 DEF BackupsKept, BilledAgain
<1> QED BY <1>1, <1>2, <1>4

LEMMA IncrementKept ==
    ASSUME NEW p, Sound(p), None \notin Things, BackupsKept(p),
           Worlds(p)!IncrementParent("c1")
    PROVE  BackupsKept(p)'
<1> DEFINE q == Doing.backup
<1>1. /\ p \in Offer /\ Worlds(p)!TypeOK /\ Doing.pc = "claim"
      /\ UNCHANGED <<object, event, cursor, outbox, billed, now, deaths>>
  BY DEF Sound, BackupsKept, Worlds!IncrementParent, Worlds!At, Doing,
         Worlds!money
<1>2. Doing \in Worlds(p)!Call /\ Calling(p)
  BY <1>1, DoingIs DEF BackupsKept
<1>3. Doing.op = "create" /\ Creating
  BY <1>1, <1>2 DEF Calling, CallPlaces, Settling
<1>4. /\ q \in Things /\ Stored(q)
      /\ \A b \in Things : Stored(b) => backup[b].key # Doing.key
  BY <1>1, <1>2, <1>3, CallParts DEF Creating
<1>5. CASE Worlds(p)!End("c1") /\ UNCHANGED backup
  <2>1. object' \subseteq Things /\ event' \in [Things -> 0 .. 2]
        /\ deaths' \in 0 .. p.deaths
    BY <1>1 DEF Worlds!TypeOK
  <2> QED BY <1>1, <1>5, <2>1, EndKept
<1>6. CASE /\ backup[q].status # "deleted"
           /\ backup' = [backup EXCEPT ![q].refs = @ + 1]
           /\ Worlds(p)!Goto("c1", "insert")
  <2> DEFINE n == backup[q].refs + 1
  <2>1. n \in Int
    BY <1>4, LayersAre
  <2>2. backup' = [backup EXCEPT ![q].refs = n]
    BY <1>6
  <2> HIDE DEF n, q
  <2>3. /\ backup' \in [Things -> Worlds(p)!Backup]
        /\ \A b \in Things :
              /\ backup'[b].status = backup[b].status
              /\ backup'[b].parent = backup[b].parent
              /\ backup'[b].key = backup[b].key
              /\ backup'[b].refs = IF b = q THEN n ELSE backup[b].refs
              /\ IsLive(b)' = IsLive(b) /\ Stored(b)' = Stored(b)
        /\ \A r \in Things : Layers(r)' = Layers(r)
        /\ Verified' = Verified /\ Backups' = Backups
    BY <1>4, <2>1, <2>2, RefsChange
  <2>4. Puts(CallTo("insert", Doing.copy, Doing.next, Doing.at, Doing.from,
                    Doing.owed))
    BY <1>1, <1>2, <1>6, CallMoves
  <2>5. "insert" \in Pcs /\ "insert" \notin Settling
        /\ "insert" \in CallPlaces("create")
    BY DEF Pcs, Settling, CallPlaces
  <2>6. /\ asking' \in [{"c1"} -> Worlds(p)!Call \cup {Worlds(p)!Idle}]
        /\ Doing'.pc = "insert" /\ Doing'.at = Doing.at /\ SameCall
    BY <1>1, <1>2, <2>4, <2>5, CallGoes
  <2>7. Worlds(p)!TypeOK'
    BY <1>1, <2>3, <2>6 DEF Worlds!TypeOK
  <2>8. Calling(p)'
    <3>1. Doing'.pc \in CallPlaces(Doing.op)'
      BY <1>3, <2>5, <2>6 DEF SameCall, CallPlaces
    <3>2. Creating'
      BY <1>4, <1>6, <2>3, <2>6 DEF Creating, SameCall, Settling, q
    <3>3. Doing'.pc \notin Settling'
      BY <2>6 DEF Settling
    <3>4. Doing'.at <= now' /\ Doing'.op = "create"
      BY <1>1, <1>2, <1>3, <2>6 DEF Calling, SameCall
    <3> QED BY <3>1, <3>2, <3>3, <3>4 DEF Calling
  <2>9. Documents'
    <3>1. \A r \in Things : Ahead(r) = 0 /\ Ahead(r)' = IF r = q THEN 1 ELSE 0
      BY <1>1, <2>6 DEF Ahead, SameCall, q
    <3>2. \A r \in Things :
            backup'[r].refs >= Cardinality(Layers(r))' + Ahead(r)'
      <4> TAKE r \in Things
      <4>1. /\ Cardinality(Layers(r)) \in Nat /\ backup[r].refs \in Int
            /\ backup[r].refs >= Cardinality(Layers(r)) + Ahead(r)
        BY LayersAre
      <4>2. Cardinality(Layers(r))' = Cardinality(Layers(r))
        BY <2>3
      <4> QED BY <2>3, <3>1, <4>1, <4>2 DEF n
    <3> QED BY <1>1, <2>3, <3>2, BackupIs DEF BackupsKept, Documents
  <2>10. Interval(p)' /\ BilledBefore(p)' /\ BilledAgain(p)'
    <3>1. Repeats'
      BY <1>3, <2>6 DEF Repeats, SameCall
    <3> QED BY <1>1, <2>3, <2>6, <3>1, MoneyKept
  <2> QED BY <2>7, <2>8, <2>9, <2>10 DEF BackupsKept
<1> QED
  BY <1>1, <1>5, <1>6 DEF Worlds!IncrementParent, Doing

LEMMA DecrementKept ==
    ASSUME NEW p, Sound(p), None \notin Things, BackupsKept(p),
           Worlds(p)!DecrementParent("c1")
    PROVE  BackupsKept(p)'
<1> DEFINE q == Doing.copy.parent
           n == backup[q].refs - 1
<1>1. /\ p \in Offer /\ Worlds(p)!TypeOK /\ Doing.pc = "drop"
      /\ UNCHANGED <<object, event, cursor, outbox, billed, now, deaths>>
      /\ backup' = [backup EXCEPT ![q].refs = n]
      /\ Worlds(p)!End("c1")
  BY DEF Sound, BackupsKept, Worlds!DecrementParent, Worlds!At, Doing,
         Worlds!money
<1>2. Doing \in Worlds(p)!Call /\ Calling(p)
  BY <1>1, DoingIs DEF BackupsKept
<1>3. Doing.op # "create"
  BY <1>1, <1>2 DEF Calling, CallPlaces, Settling
<1>4. q \in Things
  BY <1>1, <1>2, <1>3, CallParts DEF Calling, Changing, Worlds!Backup
<1>5. n \in Int
  BY <1>4, LayersAre
<1> HIDE DEF n
<1>6. /\ backup' \in [Things -> Worlds(p)!Backup]
      /\ \A b \in Things :
            /\ backup'[b].status = backup[b].status
            /\ backup'[b].parent = backup[b].parent
            /\ backup'[b].key = backup[b].key
            /\ backup'[b].refs = IF b = q THEN n ELSE backup[b].refs
            /\ IsLive(b)' = IsLive(b) /\ Stored(b)' = Stored(b)
      /\ \A r \in Things : Layers(r)' = Layers(r)
      /\ Verified' = Verified /\ Backups' = Backups
  BY <1>1, <1>4, <1>5, RefsChange
<1>7. /\ asking' \in [{"c1"} -> Worlds(p)!Call \cup {Worlds(p)!Idle}]
      /\ Doing'.pc = "idle"
  BY <1>1, EndPut
<1>8. Worlds(p)!TypeOK'
  BY <1>1, <1>6, <1>7 DEF Worlds!TypeOK
<1>9. Documents'
  <2>1. \A r \in Things : Ahead(r) = (IF r = q THEN 1 ELSE 0) /\ Ahead(r)' = 0
    BY <1>1, <1>7 DEF Ahead
  <2>2. \A r \in Things :
          backup'[r].refs >= Cardinality(Layers(r))' + Ahead(r)'
    <3> TAKE r \in Things
    <3>1. /\ Cardinality(Layers(r)) \in Nat /\ backup[r].refs \in Int
          /\ backup[r].refs >= Cardinality(Layers(r)) + Ahead(r)
      BY LayersAre
    <3>2. Cardinality(Layers(r))' = Cardinality(Layers(r))
      BY <1>6
    <3> QED BY <1>6, <2>1, <3>1, <3>2 DEF n
  <2> HIDE DEF q
  <2> QED BY <1>1, <1>6, <2>2, BackupIs DEF BackupsKept, Documents
<1>10. Interval(p)' /\ BilledBefore(p)' /\ BilledAgain(p)'
  BY <1>1, <1>6, <1>7, MoneyKept
<1> QED BY <1>7, <1>8, <1>9, <1>10 DEF BackupsKept

LEMMA InsertKept ==
    ASSUME NEW p, Sound(p), None \notin Things, BackupsKept(p),
           Worlds(p)!Insert("c1")
    PROVE  BackupsKept(p)'
<1> DEFINE q == Doing.backup
           new == [Worlds(p)!NoBackup EXCEPT !.status = "creating",
                                             !.key = Doing.key, !.parent = q]
<1>1. /\ p \in Offer /\ Worlds(p)!TypeOK /\ Doing.pc = "insert"
      /\ UNCHANGED <<object, event, cursor, outbox, billed, now, deaths>>
      /\ Worlds(p)!End("c1")
  BY DEF Sound, BackupsKept, Worlds!Insert, Worlds!At, Doing, Worlds!money
<1>2. PICK b \in Things : /\ backup[b].status = "none"
                          /\ backup' = [backup EXCEPT ![b] = new]
  BY DEF Worlds!Insert, Doing
<1>3. Doing \in Worlds(p)!Call /\ Calling(p)
  BY <1>1, DoingIs DEF BackupsKept
<1>4. Doing.op = "create" /\ Creating
  BY <1>1, <1>3 DEF Calling, CallPlaces, Settling
<1>5. /\ q # None => Stored(q) /\ IsLive(q) /\ q \in Things
      /\ \A a \in Things : Stored(a) => backup[a].key # Doing.key
      /\ Doing.key \in Isolates \cup {None} /\ q \in Things \cup {None}
  BY <1>1, <1>3, <1>4, CallParts DEF Creating, Stored, IsLive
<1>6. Worlds(p)!NoBackup \in Worlds(p)!Backup
  BY <1>1, <1>2, BackupIs
<1>7. /\ new \in Worlds(p)!Backup /\ new.status = "creating"
      /\ new.key = Doing.key /\ new.parent = q /\ new.refs = 0
      /\ new.verified = FALSE
  BY <1>5 , <1>6 DEF Worlds!Backup, Worlds!NoBackup
<1> HIDE DEF new, q
<1>8. /\ backup' \in [Things -> Worlds(p)!Backup]
      /\ backup'[b] = new /\ \A a \in Things : a # b => backup'[a] = backup[a]
  BY <1>1, <1>2, <1>7 DEF Worlds!TypeOK
<1>9. /\ ~Stored(b) /\ ~IsLive(b) /\ Stored(b)' /\ IsLive(b)'
      /\ \A a \in Things : a # b => Stored(a)' = Stored(a)
                                    /\ IsLive(a)' = IsLive(a)
  BY <1>2, <1>7, <1>8 DEF Stored, IsLive
<1>10. b # q
  BY <1>5, <1>9
<1>11. Backups' = Backups \cup {b}
  BY <1>9 DEF Backups
<1>12. Verified' = Verified
  BY <1>7, <1>8, <1>9 DEF Verified
<1>13. \A r \in Things :
          Layers(r)' = IF r = q THEN Layers(r) \cup {b} ELSE Layers(r)
  BY <1>7, <1>8, <1>9 DEF Layers
<1>14. /\ asking' \in [{"c1"} -> Worlds(p)!Call \cup {Worlds(p)!Idle}]
       /\ Doing'.pc = "idle"
  BY <1>1, EndPut
<1>15. Worlds(p)!TypeOK'
  BY <1>1, <1>8, <1>14 DEF Worlds!TypeOK
<1>16. Documents'
  <2>1. \A a \in Things : ~Stored(a)' => backup'[a].key = None
    BY <1>8, <1>9 DEF BackupsKept, Documents
  <2>2. \A a, c \in Things :
          backup'[a].key # None /\ backup'[a].key = backup'[c].key => a = c
    <3>1. \A a \in Things : backup[a].key = Doing.key => Doing.key = None
      BY <1>5 DEF BackupsKept, Documents
    <3> QED BY <1>7, <1>8, <3>1 DEF BackupsKept, Documents
  <2>3. \A a \in Things : IsLive(a)' /\ backup'[a].parent # None
            => IsLive(backup[a].parent)'
    <3> SUFFICES ASSUME NEW a \in Things, IsLive(a)', backup'[a].parent # None
                 PROVE  IsLive(backup[a].parent)'
      OBVIOUS
    <3>1. CASE a = b
      BY <1>5, <1>7, <1>8, <1>9, <1>10, <3>1
    <3>2. CASE a # b
      <4>1. /\ backup'[a].parent = backup[a].parent
            /\ IsLive(backup[a].parent)
        BY <1>8, <1>9, <3>2 DEF BackupsKept, Documents
      <4>2. backup[a].parent \in Things
        BY <1>1, <4>1, <3>2, BackupIs
      <4> QED BY <1>9, <4>1, <4>2
    <3> QED BY <3>1, <3>2
  <2>4. IsFiniteSet(Backups)'
    <3>1. IsFiniteSet(Backups)
      BY DEF BackupsKept, Documents
    <3> QED BY <1>11, <3>1, FS_AddElement
  <2>5. \A r \in Things : backup'[r].refs >= Cardinality(Layers(r))' + Ahead(r)'
    <3> TAKE r \in Things
    <3>1. /\ IsFiniteSet(Layers(r)) /\ Cardinality(Layers(r)) \in Nat
          /\ backup[r].refs \in Int
          /\ backup[r].refs >= Cardinality(Layers(r)) + Ahead(r)
      BY LayersAre
    <3>2. Ahead(r) = (IF r = q THEN 1 ELSE 0) /\ Ahead(r)' = 0
      BY <1>1, <1>14 DEF Ahead, q
    <3>3. CASE r = b
      <4>1. Layers(b) = {}
        <5> SUFFICES ASSUME NEW a \in Things, IsLive(a), backup[a].parent = b
                     PROVE  FALSE
          BY DEF Layers
        <5>1. b # None
          OBVIOUS
        <5> QED BY <1>9, <5>1 DEF BackupsKept, Documents
      <4>2. Layers(r)' = {}
        BY <1>10, <1>13, <3>3, <4>1
      <4> QED BY <1>7, <1>8, <3>2, <3>3, <4>2, FS_EmptySet
    <3>4. CASE r # b /\ r = q
      <4>1. Layers(r)' = Layers(r) \cup {b} /\ b \notin Layers(r)
        BY <1>9, <1>13, <3>4 DEF Layers
      <4>2. Cardinality(Layers(r) \cup {b}) = Cardinality(Layers(r)) + 1
        BY <3>1, <4>1, FS_AddElement
      <4> QED BY <1>8, <3>1, <3>2, <3>4, <4>1, <4>2
    <3>5. CASE r # b /\ r # q
      BY <1>8, <1>13, <3>1, <3>2, <3>5
    <3> QED BY <3>3, <3>4, <3>5
  <2> QED BY <2>1, <2>2, <2>3, <2>4, <2>5 DEF Documents
<1>17. Interval(p)' /\ BilledBefore(p)' /\ BilledAgain(p)'
  BY <1>1, <1>12, <1>14, MoneyKept
<1> QED BY <1>14, <1>15, <1>16, <1>17 DEF BackupsKept

LEMMA SaveKept ==
    ASSUME NEW p, Sound(p), None \notin Things, BackupsKept(p),
           Worlds(p)!Save("c1")
    PROVE  BackupsKept(p)'
<1> DEFINE copy == Doing.copy
<1>1. /\ p \in Offer /\ Worlds(p)!TypeOK /\ Doing.pc = "save"
      /\ UNCHANGED <<object, event, cursor, outbox, billed, now, deaths>>
      /\ backup' = [backup EXCEPT ![Doing.backup] = copy]
  BY DEF Sound, BackupsKept, Worlds!Save, Worlds!At, Doing, Worlds!money
<1>2. Doing \in Worlds(p)!Call /\ Calling(p)
  BY <1>1, DoingIs DEF BackupsKept
<1>3. Doing.op # "create" /\ Changing
  BY <1>1, <1>2 DEF Calling, CallPlaces, Settling
<1> HIDE DEF copy
<1>4. PICK b \in Things :
      /\ b = Doing.backup /\ copy \in Worlds(p)!Backup /\ IsLive(b)
      /\ copy.parent = backup[b].parent /\ copy.key = backup[b].key
      /\ copy.refs = backup[b].refs
      /\ Doing.op # "complete" => copy.verified = backup[b].verified
      /\ Doing.op # "delete" => copy.status \notin {"none", "deleted"}
      /\ Doing.op = "delete" => backup[b].refs <= 0
                                /\ copy.status = "deleted"
  <2>1. Doing.backup \in Things /\ copy \in Worlds(p)!Backup
    BY <1>1, <1>2, <1>3, CallParts DEF Changing, copy
  <2> QED BY <1>1, <1>3, <2>1 DEF Changing, copy
<1>5. \A r \in Things : Ahead(r) = 0
  BY <1>1 DEF Ahead
<1>6. /\ backup' \in [Things -> Worlds(p)!Backup]
      /\ backup'[b] = copy /\ \A a \in Things : a # b => backup'[a] = backup[a]
  BY <1>1, <1>4 DEF Worlds!TypeOK
<1>7. /\ \A a \in Things : /\ backup'[a].key = backup[a].key
                           /\ backup'[a].parent = backup[a].parent
                           /\ backup'[a].refs = backup[a].refs
                           /\ Stored(a)' = Stored(a)
      /\ \A a \in Things : a # b => IsLive(a)' = IsLive(a)
      /\ (IsLive(b)' <=> Doing.op # "delete")
  <2>1. copy.status # "none" /\ backup[b].status # "none"
    BY <1>3, <1>4 DEF IsLive
  <2>2. (copy.status \notin {"none", "deleted"}) <=> Doing.op # "delete"
    BY <1>4
  <2>3. backup'[b].status = copy.status
    BY <1>6
  <2>4. IsLive(b)' <=> Doing.op # "delete"
    BY <2>2, <2>3 DEF IsLive
  <2>5. Stored(b)' = Stored(b)
    BY <2>1, <2>3 DEF Stored
  <2>6. \A a \in Things : a # b => /\ Stored(a)' = Stored(a)
                                  /\ IsLive(a)' = IsLive(a)
    BY <1>6 DEF Stored, IsLive
  <2>7. \A a \in Things : /\ backup'[a].key = backup[a].key
                          /\ backup'[a].parent = backup[a].parent
                          /\ backup'[a].refs = backup[a].refs
    BY <1>4, <1>6
  <2> QED BY <2>4, <2>5, <2>6, <2>7
<1>8. Backups' = Backups
  BY <1>7 DEF Backups
<1>9. Doing.op # "delete" =>
          /\ \A r \in Things : Layers(r)' = Layers(r)
          /\ \A a \in Things : IsLive(a)' = IsLive(a)
  <2> SUFFICES ASSUME Doing.op # "delete"
               PROVE  /\ \A r \in Things : Layers(r)' = Layers(r)
                      /\ \A a \in Things : IsLive(a)' = IsLive(a)
    OBVIOUS
  <2>1. IsLive(b)' = IsLive(b)
    BY <1>4, <1>6 DEF IsLive
  <2>2. \A a \in Things : IsLive(a)' = IsLive(a)
    BY <1>7, <2>1
  <2> QED BY <1>7, <2>2 DEF Layers
<1>10. Doing.op = "delete" => Layers(b) = {}
  <2>1. Cardinality(Layers(b)) \in Nat /\ IsFiniteSet(Layers(b))
        /\ backup[b].refs >= Cardinality(Layers(b)) + Ahead(b)
        /\ backup[b].refs \in Int
    BY <1>4, LayersAre
  <2>2. Doing.op = "delete" => Cardinality(Layers(b)) = 0
    BY <1>4, <1>5, <2>1
  <2> QED BY <2>1, <2>2, FS_EmptySet
<1>11. \/ Worlds(p)!End("c1") /\ ~(Doing.op = "delete" /\ copy.parent # None)
       \/ /\ Doing.op = "delete" /\ copy.parent # None
          /\ Worlds(p)!Goto("c1", "drop")
  BY DEF Worlds!Save, Worlds!Drops, Doing, copy
<1>12. /\ asking' \in [{"c1"} -> Worlds(p)!Call \cup {Worlds(p)!Idle}]
       /\ \/ Doing'.pc = "idle" /\ ~(Doing.op = "delete" /\ copy.parent # None)
          \/ /\ Doing'.pc = "drop" /\ SameCall /\ Doing'.copy = copy
             /\ Doing'.at = Doing.at
             /\ Doing.op = "delete" /\ copy.parent # None
  <2>1. CASE Worlds(p)!End("c1") /\ ~(Doing.op = "delete" /\ copy.parent # None)
    BY <1>1, <2>1, EndPut
  <2>2. CASE /\ Doing.op = "delete" /\ copy.parent # None
             /\ Worlds(p)!Goto("c1", "drop")
    <3>1. /\ "drop" \in Pcs
          /\ Puts(CallTo("drop", Doing.copy, Doing.next, Doing.at, Doing.from,
                         Doing.owed))
      BY <1>1, <1>2, <2>2, CallMoves DEF Pcs
    <3> QED BY <1>1, <1>2, <2>2, <3>1, CallGoes DEF copy
  <2> QED BY <1>11, <2>1, <2>2
<1>13. Worlds(p)!TypeOK'
  BY <1>1, <1>6, <1>12 DEF Worlds!TypeOK
<1>14. Doing'.pc # "idle" => Calling(p)'
  <2> SUFFICES ASSUME Doing'.pc # "idle"
               PROVE  Calling(p)'
    OBVIOUS
  <2>1. /\ Doing'.pc = "drop" /\ SameCall /\ Doing'.copy = copy
        /\ Doing'.at = Doing.at /\ Doing.op = "delete" /\ copy.parent # None
    BY <1>12
  <2>2. Doing'.pc \in CallPlaces(Doing.op)' /\ Doing'.pc \notin Settling'
    BY <2>1 DEF SameCall, CallPlaces, Settling
  <2>3. Changing'
    BY <1>3, <2>1 DEF Changing, SameCall
  <2>4. Doing'.at <= now' /\ Doing'.op = "delete"
    BY <1>1, <1>2, <2>1 DEF Calling, SameCall
  <2> QED BY <2>2, <2>3, <2>4 DEF Calling
<1>15. Documents'
  <2>1. \A r \in Things : /\ Ahead(r)' \in 0 .. 1
                          /\ Ahead(r)' = 1 => Doing.op = "delete"
                                              /\ copy.parent = r
    BY <1>12 DEF Ahead
  <2>2. \A a \in Things : IsLive(a)' /\ backup'[a].parent # None
            => IsLive(backup[a].parent)'
    <3> SUFFICES ASSUME NEW a \in Things, IsLive(a)', backup'[a].parent # None
                 PROVE  IsLive(backup[a].parent)'
      OBVIOUS
    <3>1. IsLive(a)
      BY <1>4, <1>7
    <3>2. /\ backup'[a].parent = backup[a].parent /\ IsLive(backup[a].parent)
          /\ backup[a].parent \in Things
      BY <1>1, <1>7, <3>1, BackupIs DEF BackupsKept, Documents
    <3>3. CASE Doing.op # "delete"
      BY <1>9, <3>2, <3>3
    <3>4. CASE Doing.op = "delete"
      <4>1. backup[a].parent # b
        BY <1>10, <3>1, <3>4 DEF Layers
      <4> QED BY <1>7, <3>2, <4>1
    <3> QED BY <3>3, <3>4
  <2>3. \A r \in Things : backup'[r].refs >= Cardinality(Layers(r))' + Ahead(r)'
    <3> TAKE r \in Things
    <3>1. /\ IsFiniteSet(Layers(r)) /\ Cardinality(Layers(r)) \in Nat
          /\ backup[r].refs \in Int
          /\ backup[r].refs >= Cardinality(Layers(r)) + Ahead(r)
      BY LayersAre
    <3>2. CASE Doing.op # "delete"
      BY <1>5, <1>7, <1>9, <2>1, <3>1, <3>2
    <3>3. CASE Doing.op = "delete" /\ r # copy.parent
      <4>1. Layers(r)' = Layers(r)
        BY <1>4, <1>7, <3>3 DEF Layers
      <4> QED BY <1>5, <1>7, <2>1, <3>1, <3>3, <4>1
    <3>4. CASE Doing.op = "delete" /\ r = copy.parent
      <4>1. Layers(r)' = Layers(r) \ {b} /\ b \in Layers(r)
        BY <1>4, <1>7, <3>4 DEF Layers
      <4>2. Cardinality(Layers(r) \ {b}) = Cardinality(Layers(r)) - 1
        BY <3>1, <4>1, FS_RemoveElement
      <4> QED BY <1>5, <1>7, <2>1, <3>1, <4>1, <4>2
    <3> QED BY <3>2, <3>3, <3>4
  <2> QED BY <1>7, <1>8, <2>2, <2>3 DEF BackupsKept, Documents
<1>16. Interval(p)' /\ BilledBefore(p)' /\ BilledAgain(p)'
  <2>1. Doing'.pc \notin {"usage", "publish", "commit", "move"}
    BY <1>12
  <2>2. Again(p) => Doing.op \notin {"complete", "delete"}
    BY <1>1 DEF Again, Repeats, Settling
  <2>3. Again(p) => Verified' = Verified
    <3> SUFFICES ASSUME Again(p)
                 PROVE  Verified' = Verified
      OBVIOUS
    <3>1. \A a \in Things : IsLive(a)' = IsLive(a)
      BY <1>9, <2>2
    <3>2. \A a \in Things : backup'[a].verified = backup[a].verified
      BY <1>4, <1>6, <2>2
    <3> QED BY <3>1, <3>2 DEF Verified
  <2>4. Again(p) /\ Doing'.pc # "idle" => Repeats'
    BY <1>12, <2>2
  <2> QED BY <1>1, <2>1, <2>3, <2>4, MoneyKept
<1> QED BY <1>13, <1>14, <1>15, <1>16 DEF BackupsKept

(* Every step of the backups keeps the invariant.                          *)
LEMMA WorldsNext ==
    ASSUME NEW p, Sound(p), None \notin Things, BackupsKept(p),
           Worlds(p)!Next
    PROVE  BackupsKept(p)'
<1>1. ASSUME Worlds(p)!Ask("c1") \/ Worlds(p)!Step("c1") \/ Worlds(p)!Dies("c1")
      PROVE  BackupsKept(p)'
  BY <1>1, AsksKept, DiesKept, FindKept, ClaimParentKept, IncrementKept,
     InsertKept, GrantKept, HeadKept, RecordKept, RemoveKept, SaveKept,
     DecrementKept, ReadCursorKept, ReadUsageKept, PublishKept, CommitKept,
     MoveKept DEF Worlds!Step
<1>2. ASSUME NEW b \in Things, Worlds(p)!UploadObject(b)
      PROVE  BackupsKept(p)'
  BY <1>2, UploadObjectKept
<1>3. ASSUME Worlds(p)!Tick
      PROVE  BackupsKept(p)'
  BY <1>3, TickKept
<1> QED BY <1>1, <1>2, <1>3 DEF Worlds!Next

LEMMA WorldsInit ==
    ASSUME NEW p, Sound(p), Worlds(p)!Init
    PROVE  BackupsKept(p)
<1>1. p.time \in Nat /\ p.free \in Nat /\ p.deaths \in Nat
  BY DEF Sound, Offer
<1>2. \A b \in Things : backup[b] = Worlds(p)!NoBackup
  BY DEF Worlds!Init
<1>3. /\ Worlds(p)!NoBackup \in Worlds(p)!Backup
      /\ Worlds(p)!NoBackup.status = "none" /\ Worlds(p)!NoBackup.key = None
      /\ Worlds(p)!NoBackup.refs = 0
  BY <1>1 DEF Worlds!NoBackup, Worlds!Backup, Worlds!Time
<1>4. /\ backup \in [Things -> Worlds(p)!Backup] /\ object = {}
      /\ event \in [Things -> 0 .. 2] /\ cursor = Worlds(p)!NoCursor
      /\ outbox = {} /\ billed = {} /\ now = 0 /\ deaths = 0
      /\ asking \in [{"c1"} -> Worlds(p)!Call \cup {Worlds(p)!Idle}]
      /\ Doing = Worlds(p)!Idle
  BY <1>3 DEF Worlds!Init, Doing
<1>5. Worlds(p)!TypeOK
  BY <1>1, <1>4 DEF Worlds!TypeOK
<1>6. Doing.pc = "idle"
  BY <1>4 DEF Worlds!Idle
<1>7. Documents
  <2>1. \A b \in Things : ~Stored(b) /\ ~IsLive(b) /\ backup[b].refs = 0
                          /\ backup[b].key = None
    BY <1>2, <1>3 DEF Stored, IsLive
  <2>2. Backups = {} /\ \A q \in Things : Layers(q) = {} /\ Ahead(q) = 0
    BY <1>6, <2>1 DEF Backups, Layers, Ahead
  <2> QED BY <2>1, <2>2, FS_EmptySet DEF Documents
<1>8. cursor.at = 0 /\ cursor.sequence = -1
  BY <1>4 DEF Worlds!NoCursor
<1>9. Interval(p) /\ BilledBefore(p) /\ BilledAgain(p)
  BY <1>4, <1>6, <1>8 DEF Interval, BilledBefore, BilledAgain
<1> QED BY <1>5, <1>6, <1>7, <1>9 DEF BackupsKept

(* What the invariant shows.                                               *)
LEMMA WorldsShow ==
    ASSUME NEW p, BackupsKept(p), None \notin Things
    PROVE  /\ Worlds(p)!TypeOK /\ Worlds(p)!LayersKept
           /\ Worlds(p)!CountCovers /\ Worlds(p)!OnePerKey
           /\ Worlds(p)!BilledOnce
<1>1. Worlds(p)!LayersKept
  BY DEF BackupsKept, Documents, Worlds!LayersKept, Worlds!Live, IsLive
<1>2. Worlds(p)!CountCovers
  <2>1. \A q \in Things :
          Layers(q) = {b \in Things : Worlds(p)!Live(b) /\ backup[b].parent = q}
    BY DEF Layers, Worlds!Live, IsLive
  <2>2. \A q \in Things : backup[q].refs >= Cardinality(Layers(q))
    BY LayersAre
  <2> QED BY <2>1, <2>2, CountIs DEF Worlds!CountCovers
<1>3. Worlds(p)!OnePerKey
  BY DEF BackupsKept, Documents, Worlds!OnePerKey
<1>4. Worlds(p)!BilledOnce
  BY DEF BackupsKept, Interval, Worlds!BilledOnce
<1> QED BY <1>1, <1>2, <1>3, <1>4 DEF BackupsKept

(* No step brings a deleted backup back.                                   *)
LEMMA DeletedStays ==
    ASSUME NEW p, Sound(p), None \notin Things, BackupsKept(p),
           Worlds(p)!Next \/ UNCHANGED backup
    PROVE  Worlds(p)!KeepsDeleted
<1> SUFFICES ASSUME NEW b \in Things, backup[b].status = "deleted"
             PROVE  backup'[b].status = "deleted"
  BY DEF Worlds!KeepsDeleted
<1>1. p \in Offer /\ Worlds(p)!TypeOK
      /\ backup \in [Things -> Worlds(p)!Backup]
  BY DEF Sound, BackupsKept, Worlds!TypeOK
<1>2. CASE UNCHANGED backup
  BY <1>2
<1>3. CASE Worlds(p)!Insert("c1")
  BY <1>1, <1>3 DEF Worlds!Insert
<1>4. CASE Worlds(p)!Save("c1")
  <2>1. Doing.pc = "save" /\ Doing \in Worlds(p)!Call /\ Calling(p)
    BY <1>1, <1>4, DoingIs DEF Worlds!Save, Worlds!At, Doing, BackupsKept
  <2>2. IsLive(Doing.backup)
    BY <2>1 DEF Calling, CallPlaces, Settling, Changing
  <2>3. b # Doing.backup
    BY <2>2 DEF IsLive
  <2> QED BY <1>1, <1>4, <2>3 DEF Worlds!Save, Doing
<1>5. ASSUME NEW q, NEW n, backup' = [backup EXCEPT ![q].refs = n]
      PROVE  backup'[b].status = "deleted"
  <2>1. backup[b] \in Worlds(p)!Backup
    BY <1>1
  <2>2. CASE b # q
    BY <1>1, <1>5, <2>2
  <2>3. CASE b = q
    <3>1. backup'[b] = [backup[b] EXCEPT !.refs = n]
      BY <1>1, <1>5, <2>3
    <3> QED BY <2>1, <3>1 DEF Worlds!Backup
  <2> QED BY <2>2, <2>3
<1>6. CASE Worlds(p)!IncrementParent("c1")
  <2>1. \/ backup' = [backup EXCEPT ![Doing.backup].refs
                                      = backup[Doing.backup].refs + 1]
        \/ UNCHANGED backup
    BY <1>6 DEF Worlds!IncrementParent, Doing
  <2> QED BY <1>5, <2>1
<1>7. CASE Worlds(p)!DecrementParent("c1")
  <2>1. backup' = [backup EXCEPT ![Doing.copy.parent].refs
                                   = backup[Doing.copy.parent].refs - 1]
    BY <1>7 DEF Worlds!DecrementParent, Doing
  <2> QED BY <1>5, <2>1
<1>8. CASE Worlds(p)!Ask("c1") \/ Worlds(p)!Dies("c1")
  BY <1>8 DEF Worlds!Ask, Worlds!Dies, Worlds!Create, Worlds!IssueUpload,
          Worlds!Complete, Worlds!Restore, Worlds!RestoreEvent, Worlds!Delete,
          Worlds!Reads, Worlds!documents
<1>9. CASE Worlds(p)!Find("c1") \/ Worlds(p)!ClaimParent("c1")
           \/ Worlds(p)!Grant("c1") \/ Worlds(p)!Head("c1")
           \/ Worlds(p)!Record("c1") \/ Worlds(p)!Remove("c1")
           \/ Worlds(p)!ReadCursor("c1") \/ Worlds(p)!ReadUsage("c1")
           \/ Worlds(p)!Publish("c1") \/ Worlds(p)!Commit("c1")
           \/ Worlds(p)!Move("c1")
  <2>1. UNCHANGED backup
    BY <1>9 DEF Worlds!Find, Worlds!ClaimParent, Worlds!Grant, Worlds!Head,
            Worlds!Record, Worlds!Remove, Worlds!ReadCursor,
            Worlds!ReadUsage, Worlds!Publish, Worlds!Commit, Worlds!Move,
            Worlds!Reads, Worlds!documents
  <2> QED BY <2>1
<1>10. CASE (\E x \in Things : Worlds(p)!UploadObject(x)) \/ Worlds(p)!Tick
  BY <1>10 DEF Worlds!UploadObject, Worlds!Tick, Worlds!documents
<1> QED
  BY <1>2, <1>3, <1>4, <1>6, <1>7, <1>8, <1>9, <1>10
     DEF Worlds!Next, Worlds!Step
LEMMA BackupsSame ==
    ASSUME NEW p, BackupsKept(p), UNCHANGED backupVars
    PROVE  BackupsKept(p)'
<1>1. UNCHANGED <<backup, object, event, cursor, outbox, billed, asking, now,
                  deaths>>
  BY DEF backupVars
<1>2. Worlds(p)!TypeOK' = Worlds(p)!TypeOK
  BY <1>1 DEF Worlds!TypeOK
<1>3. Doing' = Doing
  BY <1>1 DEF Doing
<1>4. Calling(p)' = Calling(p)
  BY <1>1, <1>3
     DEF Calling, CallPlaces, Settling, Back, Creating, Changing, IsLive, Stored
<1>5. Documents' = Documents
  BY <1>1, <1>3 DEF Documents, Ahead, Layers, Backups, IsLive, Stored
<1>6. /\ Interval(p)' = Interval(p) /\ BilledBefore(p)' = BilledBefore(p)
      /\ BilledAgain(p)' = BilledAgain(p)
  BY <1>1, <1>3
     DEF Interval, BilledBefore, BilledAgain, Again, Repeats, Bill, Verified,
         IsLive, Settling
<1> QED BY <1>2, <1>3, <1>4, <1>5, <1>6 DEF BackupsKept
=============================================================================
