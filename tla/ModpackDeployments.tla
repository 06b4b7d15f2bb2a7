-------------------------- MODULE ModpackDeployments --------------------------
(***************************************************************************)
(* Modpacks on a hosted server: `ModpackDeploymentCoordinator`             *)
(* (src/src/deploymentTasks.ts), which the routes of                       *)
(* src/src/routes/modpackDeployments.ts call.  A request claims its        *)
(* idempotency key and queues a task; `runTask` executes it with calls to  *)
(* the repository, to the server and to the machine in between.            *)
(*                                                                         *)
(* There is one import and one server.  A claim is made once for a scope   *)
(* and a key, so a task is named by its kind, its target and its key, and  *)
(* a deployment by the key that created it.  A manifest is named by the    *)
(* snapshot it was frozen with: its hash differs when the snapshot does.   *)
(* What delivers tasks is external (`ModpackDeploymentTaskDispatcher`); as *)
(* in the tests, a task that failed, or whose isolate died, may be run     *)
(* again, and runs of one task do not overlap.                             *)
(***************************************************************************)
EXTENDS Naturals, FiniteSets

CONSTANTS Deployments,
          Tasks,          \* records [kind, target, key]
          Import,         \* the target of tasks that validate
          None,
          Drafts,         \* the import is valid and the deployments are drafts
          Faults,         \* the machine, the storage and the resolvers fail
          Outages,        \* the server may stop
          MaxRequests,    \* bound: requests under way
          MaxSnapshots,   \* bound: snapshots the machine makes
          MaxDeaths       \* bound: isolates that die

Kinds == {"validate", "prepare", "preview", "apply", "rollback"}

Statuses == {"preparing", "draft", "previewing", "previewed", "applying",
             "applied", "apply_failed", "rolling_back", "rolled_back",
             "rollback_failed"}
Snapshots == 1 .. MaxSnapshots
Deployment == [status : Statuses, manifest : Snapshots \cup {None}]

DeploymentsAssumption ==
    /\ \A t \in Tasks : /\ DOMAIN t = {"kind", "target", "key"}
                        /\ t.kind \in Kinds
                        /\ IF t.kind = "validate" THEN t.target = Import
                                                  ELSE t.target \in Deployments
    /\ Import \notin Deployments /\ None \notin (0 .. MaxSnapshots) \cup Deployment
    /\ Drafts \in BOOLEAN /\ Faults \in BOOLEAN /\ Outages \in BOOLEAN
    /\ MaxRequests \in Nat /\ MaxSnapshots \in Nat /\ MaxDeaths \in Nat

VARIABLES imported,    \* the import, and the report it carries
          validated,   \* the outcome putValidated stored
          deployment,  \* ModpackDeploymentRecord
          claims,      \* what a key was claimed with
          tasks,       \* the status of tasks
          queue,       \* tasks that are to be delivered
          asking,      \* requests, by the task they are to queue
          runs,        \* deliveries, by their task
          running,     \* the server runs
          machine,     \* per deployment: the last thing the machine did
          snapshots, deaths

repository == <<imported, validated, deployment, claims, tasks>>
vars == <<repository, queue, asking, runs, running, machine, snapshots, deaths>>

Imports == [status : {"awaiting_upload", "uploaded", "validating", "valid",
                      "invalid"},
            report : {"valid", "invalid", None}]

Idle == [pc |-> "idle"]

TypeOK ==
    /\ imported \in Imports
    /\ validated \in {"valid", "invalid", None}
    /\ deployment \in [Deployments -> Deployment \cup {None}]
    /\ claims \in [Tasks -> 0 .. MaxSnapshots \cup {None}]
    /\ tasks \in [Tasks -> {"none", "queued", "running", "succeeded", "failed"}]
    /\ queue \subseteq {t \in Tasks : tasks[t] # "none"}
    /\ \A t \in Tasks :
        /\ asking[t] = Idle \/
           asking[t] \in [pc : {"complete", "claim", "create", "put", "enqueue"},
                          body : 0 .. MaxSnapshots,
                          read : Imports]
        /\ runs[t] = Idle \/
           runs[t] \in [pc : {"read", "mark", "archive", "report", "claim",
                              "keep", "snapshot", "freeze", "target", "stage",
                              "switch", "restore", "undo", "done", "ok", "bad"},
                        copy : Imports \cup Deployment \cup {None},
                        made : Snapshots \cup {None},
                        found : {"valid", "invalid", None}]
    /\ running \in BOOLEAN
    /\ machine \in [Deployments -> [did : {"nothing", "switched", "restored"},
                                    manifest : Snapshots \cup {None}]]
    /\ snapshots \in 0 .. MaxSnapshots /\ deaths \in 0 .. MaxDeaths

Init ==
    /\ imported = IF Drafts THEN [status |-> "valid", report |-> "valid"]
                  ELSE [status |-> "awaiting_upload", report |-> None]
    /\ validated = IF Drafts THEN "valid" ELSE None
    /\ deployment = [d \in Deployments |->
          IF Drafts THEN [status |-> "draft", manifest |-> None] ELSE None]
    /\ claims = [t \in Tasks |-> None]
    /\ tasks = [t \in Tasks |-> "none"]
    /\ queue = {}
    /\ asking = [t \in Tasks |-> Idle]
    /\ runs = [t \in Tasks |-> Idle]
    /\ running = TRUE
    /\ machine = [d \in Deployments |-> [did |-> "nothing", manifest |-> None]]
    /\ snapshots = 0 /\ deaths = 0
-----------------------------------------------------------------------------
(* Requests.                                                               *)

Is(d, statuses) == deployment[d] # None /\ deployment[d].status \in statuses

(* What is checked before a task is queued.  The body a key is claimed     *)
(* with names the manifest that the request is about; 0 is none.           *)
Askable(t) ==
    CASE t.kind = "validate" -> TRUE
      [] t.kind = "prepare" -> imported.status = "valid"
      [] t.kind = "preview" -> Is(t.target, {"draft", "previewing", "previewed"})
      [] t.kind = "apply" ->
            /\ Is(t.target, {"previewed", "applying", "applied", "apply_failed"})
            /\ running
      [] t.kind = "rollback" ->
            /\ Is(t.target, {"applied", "rolling_back", "rolled_back",
                             "rollback_failed"})
            /\ deployment[t.target].manifest # None

Body(t) ==
    IF /\ t.kind \in {"preview", "apply", "rollback"}
       /\ deployment[t.target].manifest # None
    THEN deployment[t.target].manifest ELSE 0

Ask(t) ==
    /\ asking[t] = Idle
    /\ Cardinality({u \in Tasks : asking[u] # Idle}) < MaxRequests
    /\ claims[t] = None      \* a request with a key that is taken gets its task
    /\ Askable(t)
    /\ asking' = [asking EXCEPT ![t] =
          [pc |-> IF t.kind = "validate" THEN "complete" ELSE "claim",
           body |-> Body(t), read |-> imported]]
    /\ UNCHANGED <<repository, queue, runs, running, machine, snapshots, deaths>>

Asking(t, pc) == asking[t].pc = pc
AskNext(t, pc) == asking' = [asking EXCEPT ![t].pc = pc]

(* completeImport writes the whole record it read.                         *)
Complete(t) ==
    /\ Asking(t, "complete")
    /\ imported' = IF asking[t].read.status = "awaiting_upload"
                   THEN [asking[t].read EXCEPT !.status = "uploaded"]
                   ELSE imported
    /\ AskNext(t, "claim")
    /\ UNCHANGED <<validated, deployment, claims, tasks, queue, runs, running,
                   machine, snapshots, deaths>>

(* Fault for a mutation run: the task of a key is never created.           *)
Claim_Only(t) ==
    /\ Asking(t, "claim")
    /\ claims' = [claims EXCEPT ![t] = asking[t].body]
    /\ AskNext(t, "enqueue")
    /\ UNCHANGED <<imported, validated, deployment, tasks, queue, runs, running,
                   machine, snapshots, deaths>>

Claim(t) ==
    /\ Asking(t, "claim")
    /\ claims' = [claims EXCEPT ![t] = asking[t].body]
    /\ AskNext(t, "create")
    /\ UNCHANGED <<imported, validated, deployment, tasks, queue, runs, running,
                   machine, snapshots, deaths>>

CreateTask(t) ==
    /\ Asking(t, "create")
    /\ tasks' = [tasks EXCEPT ![t] = "queued"]
    /\ AskNext(t, IF t.kind = "prepare" THEN "put" ELSE "enqueue")
    /\ UNCHANGED <<imported, validated, deployment, claims, queue, runs, running,
                   machine, snapshots, deaths>>

(* Fault for a mutation run: a new deployment is not dispatched.           *)
PutDeployment_Quiet(t) ==
    /\ Asking(t, "put")
    /\ deployment' = [deployment EXCEPT ![t.target] =
                        [status |-> "preparing", manifest |-> None]]
    /\ asking' = [asking EXCEPT ![t] = Idle]
    /\ UNCHANGED <<imported, validated, claims, tasks, queue, runs, running,
                   machine, snapshots, deaths>>

PutDeployment(t) ==
    /\ Asking(t, "put")
    /\ deployment' = [deployment EXCEPT ![t.target] =
                        [status |-> "preparing", manifest |-> None]]
    /\ AskNext(t, "enqueue")
    /\ UNCHANGED <<imported, validated, claims, tasks, queue, runs, running,
                   machine, snapshots, deaths>>

Enqueue(t) ==
    /\ Asking(t, "enqueue")
    /\ queue' = queue \cup {t}
    /\ asking' = [asking EXCEPT ![t] = Idle]
    /\ UNCHANGED <<repository, runs, running, machine, snapshots, deaths>>

RequestStep(t) ==
    Complete(t) \/ Claim(t) \/ CreateTask(t) \/ PutDeployment(t) \/ Enqueue(t)
-----------------------------------------------------------------------------
(* runTask.                                                                *)

At(t, pc) == runs[t].pc = pc
Go(t, pc) == runs' = [runs EXCEPT ![t].pc = pc]
GoWith(t, pc, copy) == runs' = [runs EXCEPT ![t].pc = pc, ![t].copy = copy]
Made(t, pc, made) == runs' = [runs EXCEPT ![t].pc = pc, ![t].made = made]

Elsewhere == <<claims, queue, asking, running, deaths>>

Deliver(t) ==
    /\ t \in queue /\ runs[t] = Idle
    /\ IF tasks[t] = "succeeded"
       THEN queue' = queue \ {t} /\ UNCHANGED <<tasks, runs>>
       ELSE /\ tasks' = [tasks EXCEPT ![t] = "running"]
            /\ runs' = [runs EXCEPT ![t] =
                          [pc |-> "read", copy |-> None, made |-> None,
                           found |-> None]]
            /\ UNCHANGED queue
    /\ UNCHANGED <<imported, validated, deployment, claims, asking, running,
                   machine, snapshots, deaths>>

(* The task ends.  One that failed may be run again.                       *)
End(t) ==
    /\ runs[t].pc \in {"ok", "bad"}
    /\ tasks' = [tasks EXCEPT ![t] = IF At(t, "ok") THEN "succeeded" ELSE "failed"]
    /\ queue' = IF At(t, "ok") THEN queue \ {t} ELSE queue
    /\ runs' = [runs EXCEPT ![t] = Idle]
    /\ UNCHANGED <<imported, validated, deployment, claims, asking, running,
                   machine, snapshots, deaths>>

(* execute reads the deployment, executeValidation the import; the task    *)
(* fails when it is not to be worked on.                                   *)
Compatible == IF Faults THEN BOOLEAN ELSE {TRUE}

Read(t) ==
    /\ At(t, "read")
    /\ CASE t.kind = "validate" ->
              IF imported.status \in {"uploaded", "validating"}
              THEN GoWith(t, "mark", imported) ELSE Go(t, "bad")
         [] t.kind = "prepare" ->
              \E compatible \in Compatible :
                IF validated = "valid" /\ compatible
                THEN GoWith(t, "claim", deployment[t.target]) ELSE Go(t, "bad")
         [] t.kind = "apply" ->
              IF deployment[t.target].manifest # None
              THEN GoWith(t, "claim", deployment[t.target]) ELSE Go(t, "bad")
         [] OTHER -> GoWith(t, "claim", deployment[t.target])
    /\ UNCHANGED <<imported, validated, deployment, tasks, machine, snapshots>>
    /\ UNCHANGED Elsewhere

(* executeValidation: both writes are of the import as it was read.        *)
Mark(t) ==
    /\ At(t, "mark")
    /\ imported' = [runs[t].copy EXCEPT !.status = "validating"]
    /\ Go(t, "archive")
    /\ UNCHANGED <<validated, deployment, tasks, machine, snapshots>>
    /\ UNCHANGED Elsewhere

Validate(t) ==
    /\ At(t, "archive")
    /\ \/ Faults /\ Go(t, "bad") /\ UNCHANGED validated
       \/ \E outcome \in {"valid", "invalid"} :
            /\ outcome = "invalid" => Faults
            /\ validated' = outcome
            /\ runs' = [runs EXCEPT ![t].pc = "report", ![t].found = outcome]
    /\ UNCHANGED <<imported, deployment, tasks, machine, snapshots>>
    /\ UNCHANGED Elsewhere

Report(t) ==
    /\ At(t, "report")
    /\ imported' = [status |-> runs[t].found, report |-> runs[t].found]
    /\ Go(t, "ok")
    /\ UNCHANGED <<validated, deployment, tasks, machine, snapshots>>
    /\ UNCHANGED Elsewhere

(* Faults for mutation runs: an apply goes on with one that has begun; a   *)
(* preview that is run again makes another manifest; a failure is taken    *)
(* for a success; a failure is not taken back.                             *)
From_Applying(t) ==
    CASE t.kind = "prepare" -> {"preparing"}
      [] t.kind = "preview" -> {"draft", "previewing", "previewed"}
      [] t.kind = "apply" -> {"previewed", "applying", "apply_failed"}
      [] t.kind = "rollback" -> {"applied", "rollback_failed"}
Then_Again(t) ==
    CASE t.kind = "prepare" -> "ok"
      [] t.kind = "preview" -> "snapshot"
      [] t.kind = "apply" -> "target"
      [] t.kind = "rollback" -> "restore"
Ended_Well(t) == IF t.kind = "apply" THEN "applied" ELSE "rolled_back"
Ended_OrNot(t) ==
    CASE At(t, "done") -> IF t.kind = "apply" THEN "applied" ELSE "rolled_back"
      [] At(t, "undo") -> deployment[t.target].status

(* transitionDeployment: from what, to what, and what the task does next.  *)
From(t) ==
    CASE t.kind = "prepare" -> {"preparing"}
      [] t.kind = "preview" -> {"draft", "previewing", "previewed"}
      [] t.kind = "apply" -> {"previewed", "apply_failed"}
      [] t.kind = "rollback" -> {"applied", "rollback_failed"}
Into(t) ==
    CASE t.kind = "prepare" -> "draft"
      [] t.kind = "preview" -> "previewing"
      [] t.kind = "apply" -> "applying"
      [] t.kind = "rollback" -> "rolling_back"
Then(t) ==
    CASE t.kind = "prepare" -> "ok"
      [] t.kind = "preview" -> IF runs[t].copy.manifest # None THEN "keep" ELSE "snapshot"
      [] t.kind = "apply" -> "target"
      [] t.kind = "rollback" -> "restore"

Transition(t) ==
    /\ At(t, "claim")
    /\ IF Is(t.target, From(t))
       THEN /\ deployment' = [deployment EXCEPT ![t.target].status = Into(t)]
            /\ Made(t, Then(t), deployment[t.target].manifest)
       ELSE Go(t, "bad") /\ UNCHANGED deployment
    /\ UNCHANGED <<imported, validated, tasks, machine, snapshots>>
    /\ UNCHANGED Elsewhere

(* preview: the deployment that was read is written, with its manifest or  *)
(* with the one that is made of a new snapshot.                            *)
Keep(t) ==
    /\ At(t, "keep")
    /\ deployment' = [deployment EXCEPT ![t.target] =
                        [runs[t].copy EXCEPT !.status = "previewed"]]
    /\ Go(t, "ok")
    /\ UNCHANGED <<imported, validated, tasks, machine, snapshots>>
    /\ UNCHANGED Elsewhere

Snapshot(t) ==
    /\ At(t, "snapshot")
    /\ \/ /\ snapshots < MaxSnapshots
          /\ snapshots' = snapshots + 1 /\ Made(t, "freeze", snapshots + 1)
       \/ (Faults \/ snapshots = MaxSnapshots) /\ Go(t, "bad") /\ UNCHANGED snapshots
    /\ UNCHANGED <<imported, validated, deployment, tasks, machine>>
    /\ UNCHANGED Elsewhere

Freeze(t) ==
    /\ At(t, "freeze")
    /\ deployment' = [deployment EXCEPT ![t.target] =
                        [status |-> "previewed", manifest |-> runs[t].made]]
    /\ Go(t, "ok")
    /\ UNCHANGED <<imported, validated, tasks, machine, snapshots>>
    /\ UNCHANGED Elsewhere

(* apply: a server that does not run ends the task with the deployment     *)
(* still "applying".                                                       *)
Target(t) ==
    /\ At(t, "target")
    /\ Go(t, IF running THEN "stage" ELSE "bad")
    /\ UNCHANGED <<imported, validated, deployment, tasks, machine, snapshots>>
    /\ UNCHANGED Elsewhere

Stage(t) ==
    /\ At(t, "stage")
    /\ \/ Go(t, "switch")
       \/ Faults /\ Go(t, "undo")
    /\ UNCHANGED <<imported, validated, deployment, tasks, machine, snapshots>>
    /\ UNCHANGED Elsewhere

(* atomicSwitch and restoreSnapshot: done, and the answer is lost or not,  *)
(* or not done.                                                            *)
Acts(t, pc, did, manifest) ==
    /\ At(t, pc)
    /\ \/ /\ machine' = [machine EXCEPT ![t.target] =
                            [did |-> did, manifest |-> manifest]]
          /\ \/ Go(t, "done")
             \/ Faults /\ Go(t, "undo")
       \/ Faults /\ Go(t, "undo") /\ UNCHANGED machine
    /\ UNCHANGED <<imported, validated, deployment, tasks, snapshots>>
    /\ UNCHANGED Elsewhere

Switch(t) == Acts(t, "switch", "switched", runs[t].copy.manifest)
Restore(t) == Acts(t, "restore", "restored", runs[t].made)

(* The transition at the end, if the deployment is still as it was left.   *)
Ended(t) ==
    CASE t.kind = "apply" /\ At(t, "done") -> "applied"
      [] t.kind = "apply" /\ At(t, "undo") -> "apply_failed"
      [] t.kind = "rollback" /\ At(t, "done") -> "rolled_back"
      [] t.kind = "rollback" /\ At(t, "undo") -> "rollback_failed"

Settle(t) ==
    /\ runs[t].pc \in {"done", "undo"}
    /\ deployment' = IF Is(t.target, {Into(t)})
                     THEN [deployment EXCEPT ![t.target].status = Ended(t)]
                     ELSE deployment
    /\ Go(t, IF At(t, "done") THEN "ok" ELSE "bad")
    /\ UNCHANGED <<imported, validated, tasks, machine, snapshots>>
    /\ UNCHANGED Elsewhere

RunStep(t) ==
    \/ Read(t) \/ Mark(t) \/ Validate(t) \/ Report(t) \/ Transition(t)
    \/ Keep(t) \/ Snapshot(t) \/ Freeze(t) \/ Target(t) \/ Stage(t)
    \/ Switch(t) \/ Restore(t) \/ Settle(t) \/ End(t)
-----------------------------------------------------------------------------
(* The isolate of a run ends.  That of a request goes no further.          *)
Dies(t) ==
    /\ deaths < MaxDeaths /\ deaths' = deaths + 1
    /\ runs[t] # Idle /\ runs' = [runs EXCEPT ![t] = Idle]
    /\ UNCHANGED <<repository, queue, asking, running, machine, snapshots>>

(* The server stops, and for the time that is looked at it does not start. *)
ServerStops ==
    /\ Outages
    /\ running /\ running' = FALSE
    /\ UNCHANGED <<repository, queue, asking, runs, machine, snapshots, deaths>>

Next ==
    \/ \E t \in Tasks : Ask(t) \/ RequestStep(t) \/ Deliver(t) \/ RunStep(t) \/ Dies(t)
    \/ ServerStops

Spec == Init /\ [][Next]_vars

(* A request goes on, a new task is delivered, and one that runs goes on;  *)
(* of the three one at a time is enabled.  One that failed is not          *)
(* necessarily run again.                                                  *)
Due(t) == RequestStep(t) \/ (tasks[t] = "queued" /\ Deliver(t)) \/ RunStep(t)
Fairness == \A t \in Tasks : WF_vars(Due(t))

FairSpec == Spec /\ Fairness
-----------------------------------------------------------------------------

(* "freezes the complete manifest" (deploymentTasks.test.ts:192): what the *)
(* owner previewed is never replaced, though the task that made it dies    *)
(* and is run again.                                                       *)
FreezesManifest ==
    \A d \in Deployments :
        deployment[d] # None /\ deployment[d].manifest # None
        => deployment'[d].manifest = deployment[d].manifest

(* The machine switches to the manifest that the request named, whatever   *)
(* happened to the deployment since.                                       *)
SwitchesAsAsked ==
    \A t \in Tasks : At(t, "switch") /\ machine' # machine /\ runs'[t] # runs[t]
        => claims[t] = machine'[t.target].manifest

(* A deployment that is called applied, or rolled back, is what the        *)
(* machine last did with it: failures, lost answers and tasks that are run *)
(* again never make the record say what the machine did not do.            *)
RecordFollowsMachine ==
    \A d \in Deployments :
        /\ Is(d, {"applied"}) =>
              machine[d] = [did |-> "switched", manifest |-> deployment[d].manifest]
        /\ Is(d, {"rolled_back"}) =>
              machine[d] = [did |-> "restored", manifest |-> deployment[d].manifest]

(* Of the tasks of a deployment, one at a time works on the machine.       *)
OneAtTheMachine ==
    \A t, u \in Tasks :
        /\ t.target = u.target
        /\ {runs[t].pc, runs[u].pc} \subseteq {"stage", "switch", "restore"}
        => t = u

(* Work on the machine that has begun comes to an end that the owner can   *)
(* try again from, while the server runs: a failure is taken back.         *)
MachineWorkEnds ==
    \A d \in Deployments :
        Is(d, {"applying", "rolling_back"})
        ~> Is(d, {"applied", "apply_failed", "rolled_back", "rollback_failed"})

(* An upload that was completed is validated, and a deployment that was    *)
(* created is prepared, though several requests complete one import and    *)
(* each writes all of it.                                                  *)
PreparationEnds ==
    (\/ imported.status \in {"uploaded", "validating"}
     \/ \E d \in Deployments : Is(d, {"preparing"}))
    ~> (/\ imported.status \in {"valid", "invalid"}
        /\ \A d \in Deployments : ~Is(d, {"preparing"}))
=============================================================================
