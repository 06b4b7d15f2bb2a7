-------------------------- MODULE RuntimeCompilation --------------------------
(***************************************************************************)
(* How an imported modpack is compiled for a shared service:               *)
(* `createDeployment` and the callbacks of the compiler in                 *)
(* `SharedModdedRuntimeService` (src/src/sharedModdedRuntime.ts), on its   *)
(* Mongo repository, with the submission over HTTP                         *)
(* (src/src/compilerHttpSubmission.ts).                                    *)
(*                                                                         *)
(* All deployments are of one import, so they have one manifest and one    *)
(* key for the compiled object.  A deployment has the name of the          *)
(* idempotency key it was claimed with.  `updateDeployment` reads a        *)
(* deployment and replaces it if the status is still an expected one; what *)
(* is read and what is replaced are two steps.  The compiler is external:  *)
(* it is modelled from the routes it calls and what is said of its answers.*)
(***************************************************************************)
EXTENDS Naturals

CONSTANTS Keys,          \* idempotency keys of createDeployment
          Calls,         \* calls of createDeployment
          Jobs,          \* runs of the compiler
          Outputs,       \* what a build may make of the manifest
          None,
          Redelivered,   \* the compiler runs a submission again
          MaxFaults      \* bound: deaths, failures and lost answers

CompilationAssumption ==
    /\ None \notin Outputs \cup Calls
    /\ Calls \cap Jobs = {}
    /\ Redelivered \in BOOLEAN /\ MaxFaults \in Nat

VARIABLES claimed,     \* shared_modded_runtime_claims
          deployment,  \* shared_modded_runtime_deployments
          object,      \* the compiled object in the storage
          proc,        \* calls and jobs
          faults

store == <<claimed, deployment, object>>
vars == <<store, proc, faults>>

Processes == Calls \cup Jobs

Deployment == [status : {"none", "compile_queued", "compiling",
                         "compile_failed", "published"},
               upload : Outputs \cup {None},       \* pendingCompilerUpload
               publication : Outputs \cup {None},  \* pendingCompilerPublication
               content : Outputs \cup {None}]
NoDeployment == [status |-> "none", upload |-> None, publication |-> None,
                 content |-> None]

(* out: the output a process handles; copy: what updateDeployment read;    *)
(* built: what a job has made; for: the call that waits for a job; retry:  *)
(* a call that submits for the second time.                                *)
Idle == [pc |-> "idle"]
Callback == {"prepare", "bind", "bindWrite", "publish", "publishRead",
             "publishWrite"}
Busy(pcs) ==
    [pc : pcs \cup Callback, key : Keys, out : Outputs \cup {None},
     copy : Deployment, built : Outputs \cup {None},
     for : Calls \cup {None}, retry : BOOLEAN] \cup {Idle}
Answering ==
    [pc : {"answer"}, key : Keys, out : Outputs \cup {None},
     for : Calls \cup {None},
     answer : {"published", "failed", "published_callback_uncertain",
               "upload_reconciliation_uncertain"}]

TypeOK ==
    /\ claimed \subseteq Keys
    /\ deployment \in [Keys -> Deployment]
    /\ object \in Outputs \cup {None}
    /\ \A c \in Calls :
        proc[c] \in Busy({"put", "compile", "submit", "wait", "fail",
                         "failWrite", "reconcile", "note", "noteWrite"})
    /\ \A j \in Jobs :
        proc[j] \in Busy({"build", "upload", "verify", "report", "reportWrite"})
                   \cup Answering
    /\ faults \in 0 .. MaxFaults

Init ==
    /\ claimed = {}
    /\ deployment = [k \in Keys |-> NoDeployment]
    /\ object = None
    /\ proc = [p \in Processes |-> Idle]
    /\ faults = 0

Start(pc, k) == [pc |-> pc, key |-> k, out |-> None, copy |-> NoDeployment,
                 built |-> None, for |-> None, retry |-> FALSE]

At(p, pc) == proc[p].pc = pc
Of(p) == deployment[proc[p].key]

Goto(p, pc) == proc' = [proc EXCEPT ![p].pc = pc]
GotoWith(p, pc, out) == proc' = [proc EXCEPT ![p].pc = pc, ![p].out = out]
End(p) == proc' = [proc EXCEPT ![p] = Idle]

Answer(j, answer, out) ==
    proc' = [proc EXCEPT ![j] = [pc |-> "answer", key |-> proc[j].key,
                                 out |-> out, for |-> proc[j].for,
                                 answer |-> answer]]

(* Something goes wrong, and all goes well.                                *)
Fault == faults < MaxFaults /\ faults' = faults + 1
Well == UNCHANGED faults

(* A conflict ends a call with an error, and a job with a failure.         *)
Refused(p) == IF p \in Calls THEN End(p) ELSE Answer(p, "failed", None)
-----------------------------------------------------------------------------

(* `updateDeployment`: the copy that the new deployment is made from, ...  *)
ReadCopy(p, pc) == proc' = [proc EXCEPT ![p].pc = pc, ![p].copy = Of(p)]

(* ... and the replacement, which asks for nothing but the status.         *)
Replaceable_Any(p, expected) == TRUE
Replaceable(p, expected) == Of(p).status \in expected

Replace(p, value) == deployment' = [deployment EXCEPT ![proc[p].key] = value]
-----------------------------------------------------------------------------
(* `createDeployment`                                                      *)

(* A deployment that has an upload is submitted again.                     *)
Resubmits_Never(k) == FALSE
Resubmits(k) == deployment[k].publication = None /\ deployment[k].upload # None

(* The claim is taken and read again; a deployment of an earlier call with *)
(* the same key is returned, or what is pending of it is gone on with.     *)
Claim(c, k) ==
    /\ proc[c] = Idle
    /\ \/ /\ k \notin claimed
          /\ claimed' = claimed \cup {k}
          /\ proc' = [proc EXCEPT ![c] = Start("put", k)]
       \/ /\ k \in claimed /\ deployment[k].status = "compiling"
          /\ \/ /\ deployment[k].publication # None
                /\ proc' = [proc EXCEPT ![c] = [Start("reconcile", k) EXCEPT
                                !.out = deployment[k].publication]]
             \/ /\ Resubmits(k)
                /\ proc' = [proc EXCEPT ![c] = [Start("submit", k) EXCEPT
                                !.retry = TRUE]]
          /\ UNCHANGED claimed
    /\ UNCHANGED <<deployment, object>> /\ Well

Put(c) ==
    /\ At(c, "put")
    /\ Replace(c, [NoDeployment EXCEPT !.status = "compile_queued"])
    /\ Goto(c, "compile")
    /\ UNCHANGED <<claimed, object>> /\ Well

Compile(c) ==
    /\ At(c, "compile")
    /\ Replace(c, [Of(c) EXCEPT !.status = "compiling"])
    /\ Goto(c, "submit")
    /\ UNCHANGED <<claimed, object>> /\ Well

(* A deployment that is neither queued nor compiling gets no grants.       *)
Submit(c, j) ==
    /\ At(c, "submit") /\ proc[j] = Idle
    /\ Of(c).status \in {"compile_queued", "compiling"}
    /\ proc' = [proc EXCEPT ![c].pc = "wait",
                            ![j] = [Start("build", proc[c].key) EXCEPT !.for = c]]
    /\ UNCHANGED store /\ Well

(* What a call does about an error of its submission.                      *)
Failing(c) == IF proc[c].retry THEN End(c) ELSE Goto(c, "fail")

(* The submission was refused, answered nothing that could be read, or not *)
(* in time; the job may be at work all the same.                           *)
Unavailable(c) ==
    /\ \/ /\ At(c, "submit") /\ Well
          /\ Of(c).status \notin {"compile_queued", "compiling"}
       \/ /\ At(c, "wait") /\ Well
          /\ ~ \E j \in Jobs : proc[j] # Idle /\ proc[j].for = c
       \/ (At(c, "submit") \/ At(c, "wait")) /\ Fault
    /\ Failing(c)
    /\ UNCHANGED store

(* Does the call of a job still wait for it?                               *)
Waits(j) == /\ proc[j].for # None
            /\ At(proc[j].for, "wait") /\ proc[proc[j].for].key = proc[j].key

(* A call goes on with an output that was published for all the job knows; *)
(* one that is not known to be uploaded is left for the next call.         *)
Uncertain_Both == {"published_callback_uncertain",
                   "upload_reconciliation_uncertain"}
Uncertain == {"published_callback_uncertain"}

Answered(j) ==
    /\ At(j, "answer")
    /\ LET c == proc[j].for
           answer == proc[j].answer
           ended == [proc EXCEPT ![j] = Idle] IN
       IF ~ Waits(j) THEN proc' = ended
       ELSE proc' = [ended EXCEPT ![c] =
              CASE answer \in Uncertain ->
                     [@ EXCEPT !.pc = "reconcile", !.out = proc[j].out]
                [] answer = "failed" /\ ~ @.retry -> [@ EXCEPT !.pc = "fail"]
                [] OTHER -> Idle]
    /\ UNCHANGED store /\ Well

FailRead(c) ==
    /\ At(c, "fail")
    /\ IF Of(c).status = "compiling" THEN ReadCopy(c, "failWrite") ELSE End(c)
    /\ UNCHANGED store /\ Well

FailWrite(c) ==
    /\ At(c, "failWrite")
    /\ End(c)
    /\ IF Replaceable(c, {"compiling"})
       THEN Replace(c, [proc[c].copy EXCEPT !.status = "compile_failed"])
       ELSE UNCHANGED deployment
    /\ UNCHANGED <<claimed, object>> /\ Well
-----------------------------------------------------------------------------
(* `reconcileUncertainPublication`                                         *)

(* A publication that is there already is only compared.                   *)
Reconcile(c) ==
    /\ At(c, "reconcile")
    /\ IF Of(c).status = "compiling" THEN Goto(c, "note") ELSE End(c)
    /\ UNCHANGED store /\ Well

NoteRead(c) ==
    /\ At(c, "note")
    /\ IF Of(c).status = "compiling" THEN ReadCopy(c, "noteWrite") ELSE End(c)
    /\ UNCHANGED store /\ Well

NoteWrite(c) ==
    /\ At(c, "noteWrite")
    /\ IF Replaceable(c, {"compiling"})
       THEN /\ Replace(c, [proc[c].copy EXCEPT !.publication = proc[c].out])
            /\ Goto(c, "prepare")
       ELSE End(c) /\ UNCHANGED deployment
    /\ UNCHANGED <<claimed, object>> /\ Well
-----------------------------------------------------------------------------
(* `prepareCompilerUpload`: a job asks before it uploads, and a call that  *)
(* reconciles before it publishes.                                         *)

Bound_Uploads(p, out, existing) ==
    GotoWith(p, IF existing THEN "verify" ELSE "upload", out)
Bound(p, out, existing) ==
    GotoWith(p, CASE p \in Calls -> "publish"
                  [] p \in Jobs /\ existing -> "verify"
                  [] OTHER -> "upload", out)

(* What a process gets that comes second.                                  *)
BoundAlready(p) ==
    IF Of(p).upload # None THEN Bound(p, Of(p).upload, TRUE) ELSE Refused(p)

Bindable_Always(p) == TRUE
Bindable(p) == Of(p).upload = None

Prepare(p) ==
    /\ At(p, "prepare")
    /\ CASE Of(p).status = "published" ->
              IF Of(p).content = proc[p].out THEN Bound(p, proc[p].out, TRUE)
              ELSE Refused(p)
         [] Of(p).status = "compiling" ->
              IF Bindable(p) THEN Goto(p, "bind") ELSE BoundAlready(p)
         [] OTHER -> Refused(p)
    /\ UNCHANGED store /\ Well

BindRead(p) ==
    /\ At(p, "bind")
    /\ IF Of(p).status = "compiling" THEN ReadCopy(p, "bindWrite")
       ELSE BoundAlready(p)
    /\ UNCHANGED store /\ Well

BindWrite(p) ==
    /\ At(p, "bindWrite")
    /\ IF Replaceable(p, {"compiling"})
       THEN /\ Replace(p, [proc[p].copy EXCEPT !.upload = proc[p].out])
            /\ Bound(p, proc[p].out, FALSE)
       ELSE BoundAlready(p) /\ UNCHANGED deployment
    /\ UNCHANGED <<claimed, object>> /\ Well
-----------------------------------------------------------------------------
(* `publishCompilerResult`                                                 *)

(* A call is done; a job answers what it knows.                            *)
Published(p) ==
    IF p \in Calls THEN End(p)
    ELSE Answer(p, "published", proc[p].out)

(* Is it the output the upload was prepared for?                           *)
Publishable(p) == Of(p).status = "compiling" /\ Of(p).upload = proc[p].out

(* Without the answer of `published` a job knows only what it uploaded.    *)
AnswerLost(j) ==
    /\ At(j, "answer") /\ proc[j].answer = "published" /\ Fault
    /\ Answer(j, "published_callback_uncertain", proc[j].out)
    /\ UNCHANGED store

Publish(p) ==
    /\ At(p, "publish")
    /\ IF Of(p).status = "published"
       THEN IF Of(p).content = proc[p].out THEN Published(p) ELSE Refused(p)
       ELSE IF Publishable(p) THEN Goto(p, "publishRead") ELSE Refused(p)
    /\ UNCHANGED store /\ Well

(* Another process that was faster published this output, or another.      *)
Overtaken(p) ==
    IF Of(p).status = "published" /\ Of(p).content = proc[p].out
    THEN Published(p) ELSE Refused(p)

PublishRead(p) ==
    /\ At(p, "publishRead")
    /\ IF Of(p).status = "compiling" THEN ReadCopy(p, "publishWrite")
       ELSE Overtaken(p)
    /\ UNCHANGED store /\ Well

PublishWrite(p) ==
    /\ At(p, "publishWrite")
    /\ IF Replaceable(p, {"compiling"})
       THEN /\ Replace(p, [status |-> "published", upload |-> None,
                           publication |-> None, content |-> proc[p].out])
            /\ Published(p)
       ELSE Overtaken(p) /\ UNCHANGED deployment
    /\ UNCHANGED <<claimed, object>> /\ Well
-----------------------------------------------------------------------------
(* The compiler, and `reportCompilerFailure`                               *)

Build(j) ==
    /\ At(j, "build")
    /\ \/ /\ \E o \in Outputs :
            proc' = [proc EXCEPT ![j].pc = "prepare", ![j].out = o, ![j].built = o]
          /\ Well
       \/ Goto(j, "report") /\ Fault
    /\ UNCHANGED store

(* The upload takes effect if there is no object yet (if-none-match).      *)
Upload(j) ==
    /\ At(j, "upload")
    /\ object' = IF object = None THEN proc[j].out ELSE object
    /\ \/ Goto(j, "verify") /\ Well
       \/ Answer(j, "upload_reconciliation_uncertain", proc[j].out) /\ Fault
    /\ UNCHANGED <<claimed, deployment>>

UploadLost(j) ==
    /\ At(j, "upload") /\ Fault
    /\ Answer(j, "upload_reconciliation_uncertain", proc[j].out)
    /\ UNCHANGED store

(* The object is compared with what was bound.                             *)
Verify(j) ==
    /\ At(j, "verify")
    /\ CASE object = proc[j].out -> Goto(j, "publish")
         [] object = None /\ proc[j].built = proc[j].out -> Goto(j, "upload")
         [] OTHER -> Answer(j, "upload_reconciliation_uncertain", proc[j].out)
    /\ UNCHANGED store /\ Well

(* The request to publish is lost on its way.                              *)
PublishLost(j) ==
    /\ At(j, "publish") /\ Fault
    /\ Answer(j, "published_callback_uncertain", proc[j].out)
    /\ UNCHANGED store

(* A failure is not reported of a deployment that has an upload.           *)
Report(j) ==
    /\ At(j, "report")
    /\ IF Of(j).status = "compiling" /\ Of(j).upload = None
       THEN ReadCopy(j, "reportWrite") ELSE Answer(j, "failed", None)
    /\ UNCHANGED store /\ Well

ReportWrite(j) ==
    /\ At(j, "reportWrite")
    /\ IF Replaceable(j, {"compiling"})
       THEN Replace(j, [proc[j].copy EXCEPT !.status = "compile_failed"])
       ELSE UNCHANGED deployment
    /\ Answer(j, "failed", None)
    /\ UNCHANGED <<claimed, object>> /\ Well

Redeliver(j, k) ==
    /\ Redelivered /\ proc[j] = Idle
    /\ \E i \in Jobs : At(i, "build") /\ proc[i].key = k
    /\ proc' = [proc EXCEPT ![j] = Start("build", k)]
    /\ UNCHANGED store /\ Well

Dies(p) ==
    /\ proc[p] # Idle /\ Fault
    /\ End(p)
    /\ UNCHANGED store
-----------------------------------------------------------------------------

CallStep(c) ==
    \/ Put(c) \/ Compile(c) \/ Unavailable(c) \/ FailRead(c) \/ FailWrite(c)
    \/ \E j \in Jobs : Submit(c, j)
    \/ Reconcile(c) \/ NoteRead(c) \/ NoteWrite(c)

JobStep(j) ==
    \/ Build(j) \/ Upload(j) \/ UploadLost(j) \/ Verify(j) \/ PublishLost(j)
    \/ Report(j) \/ ReportWrite(j) \/ AnswerLost(j) \/ Answered(j)

Step(p) ==
    \/ p \in Calls /\ CallStep(p)
    \/ p \in Jobs /\ JobStep(p)
    \/ Prepare(p) \/ BindRead(p) \/ BindWrite(p)
    \/ Publish(p) \/ PublishRead(p) \/ PublishWrite(p)

Next ==
    \/ \E c \in Calls, k \in Keys : Claim(c, k)
    \/ \E p \in Processes : Step(p) \/ Dies(p)
    \/ \E j \in Jobs, k \in Keys : Redeliver(j, k)

Spec == Init /\ [][Next]_vars

(* Clients ask again, and what does not die goes on.                       *)
Fairness ==
    /\ \A c \in Calls, k \in Keys : SF_vars(Claim(c, k))
    /\ \A c \in Calls : SF_vars(\E j \in Jobs : Submit(c, j))
    /\ \A p \in Processes : WF_vars(Step(p))

FairSpec == Spec /\ Fairness
-----------------------------------------------------------------------------

(* "Called only by an authenticated compiler callback after it has         *)
(* verified the immutable PUT" (sharedModdedRuntime.ts:1036): whatever is  *)
(* lost, late or done twice, the content of a deployment that is published *)
(* is the object in the storage.                                           *)
PublishedIsStored ==
    \A k \in Keys : deployment[k].status = "published"
                    => deployment[k].content = object

(* What was published stays published: no late failure, publication or     *)
(* preparation of another process takes it back or changes it.             *)
KeepsPublished ==
    \A k \in Keys : deployment[k].status = "published"
                    => deployment'[k] = deployment[k]

(* "A concurrent delivery receives the original binding rather than        *)
(* replacing it with a second build's output" (sharedModdedRuntime.ts:929).*)
KeepsBinding ==
    \A k \in Keys :
        deployment[k].upload # None /\ deployment'[k].status = "compiling"
        => deployment'[k].upload = deployment[k].upload

(* "The durable upload binding remains in `compiling` state for a          *)
(* redelivered worker to reconcile; it is never translated into a failed   *)
(* callback" (sharedModdedRuntime.ts:220): a deployment whose upload may   *)
(* be in the storage is not called failed.                                 *)
FailedIsUnbound ==
    \A k \in Keys : deployment[k].status = "compile_failed"
                    => deployment[k].upload = None

(* A deployment with an upload comes to an end as long as its client asks. *)
UploadSettles ==
    \A k \in Keys :
        deployment[k].status = "compiling" /\ deployment[k].upload # None
        ~> deployment[k].status # "compiling"
=============================================================================
