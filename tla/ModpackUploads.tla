---------------------------- MODULE ModpackUploads ----------------------------
(* How a modpack comes to a shared service, until it is compiled:           *)
(* `createImport`, `uploadUrl`, `completeImport` and the first half of     *)
(* `createDeployment` of `SharedModdedRuntimeService`                      *)
(* (src/src/sharedModdedRuntime.ts), with the validators of the two kinds  *)
(* of archives (modpackValidator.ts, xmclServerBundle.ts).  What becomes   *)
(* of a deployment is in RuntimeCompilation.                               *)
(*                                                                         *)
(* A call that claims a key puts its record in a later write, and a        *)
(* completion writes the import back whole, as it had read it.             *)
EXTENDS Naturals, FiniteSets

CONSTANTS Calls,       \* calls that may be at work at the same time
          Ids,         \* ids that createId may give to imports
          Keys,        \* keys of idempotency
          Declarable,  \* what an owner may declare: a format, and the archive
                       \* whose hash and size are given
          Uploadable,  \* archives that a client may upload
          MaxCalls, MaxFaults, \* bounds
          None

Paths == {"config", "data", "mod", "metadata", "program"}

(* An archive.  files: what is in it besides its manifests; listed: the    *)
(* files that the manifest of a bundle names, the altered among them with  *)
(* another hash; mods: what a pack refers to; parses: whether the manifest *)
(* is well formed; minecraft: the minor version and the patch; reviewed,   *)
(* agrees: of a bundle, whether its toolchain is in the catalog, and the   *)
(* metadata of what was resolved says the same.                            *)
Archive == [form : {"pack", "bundle"}, manifests : 0 .. 2,
            files : SUBSET Paths, listed : SUBSET Paths, altered : SUBSET Paths,
            mods : SUBSET {"known", "unknown"}, parses : BOOLEAN,
            loader : {"vanilla", "forge", "fabric", "neoforge", "quilt"},
            minecraft : Nat \X Nat, reviewed : BOOLEAN, agrees : BOOLEAN]

UploadsAssumption ==
    /\ IsFiniteSet(Calls) /\ MaxCalls \in Nat /\ MaxFaults \in Nat
    /\ \A d \in Declarable :
        d.format \in {"pack", "bundle"} /\ d.archive \in Archive
    /\ Uploadable \subseteq Archive

VARIABLES
    imports,      \* shared_modded_runtime_imports
    deployments,  \* shared_modded_runtime_deployments, by their key
    claims,       \* shared_modded_runtime_claims of imports, by key
    taken,        \* keys of deployments that are claimed
    issued,       \* imports with an address to upload to
    archives,     \* what was uploaded
    calls,
    overlap,      \* whether two completions of one import were at work at once
    begun, faults

vars == <<imports, deployments, claims, taken, issued, archives, calls, overlap,
          begun, faults>>

Idle == [at |-> "idle", id |-> None, key |-> None, declared |-> None, copy |-> None]

Init ==
    /\ imports = [i \in Ids |-> None]
    /\ deployments = [k \in Keys |-> None]
    /\ claims = [k \in Keys |-> None] /\ taken = {}
    /\ issued = {} /\ archives = [i \in Ids |-> None]
    /\ calls = [c \in Calls |-> Idle]
    /\ overlap = FALSE /\ begun = 0 /\ faults = 0

At(c, place) == calls[c].at = place
Goes(c, place) == calls' = [calls EXCEPT ![c].at = place]
End(c) == calls' = [calls EXCEPT ![c] = Idle]
Begin(c) == At(c, "idle") /\ begun < MaxCalls /\ begun' = begun + 1
-----------------------------------------------------------------------------
(* `parseMrpack`, `parseCurseForge`                                        *)
PackManifest(a) == a.manifests = 1 /\ a.parses

(* `validateModpackArchive`: one manifest and nothing but the files of     *)
(* config/ and data/, no program among them; every mod is found at its     *)
(* provider, or there is a reason to reject it.                            *)
PackRejected(a, resolves) ==
    {r \in {"manifest_count_invalid", "file_not_allowed", "invalid_manifest",
            "invalid_source"} :
        CASE r = "manifest_count_invalid" -> a.manifests # 1
          [] r = "file_not_allowed" -> ~(a.files \subseteq {"config", "data"})
          [] r = "invalid_manifest" -> a.manifests = 1 /\ ~PackManifest(a)
          [] r = "invalid_source" -> PackManifest(a) /\ ~(a.mods \subseteq resolves)}

(* `parseManifest` of a bundle.                                            *)
BundleManifest(a) ==
    a.manifests = 1 /\ a.parses /\ a.listed # {} /\ "program" \notin a.listed

(* `resolveRuntimeCompatibility`: NeoForge starts at Minecraft 1.20.2.     *)
Compatible(a) ==
    /\ a.loader \in {"forge", "fabric", "neoforge", "quilt"}
    /\ a.loader = "neoforge" =>
          a.minecraft[1] > 20 \/ (a.minecraft[1] = 20 /\ a.minecraft[2] >= 2)

(* `validateXmclServerBundle`: the files are those of the manifest, with   *)
(* their hashes, and the metadata of what was resolved is with them.       *)
Missing_Allowed(a) == {}   \* mutant: what is listed need not be there
Missing(a) == a.listed \ a.files

BundleRejected(a) ==
    IF ~BundleManifest(a) THEN {"invalid_bundle_manifest"}
    ELSE {r \in {"unsupported_compatibility", "unmanifested_file",
                 "file_hash_mismatch", "manifest_file_missing",
                 "required_metadata_missing", "metadata_mismatch"} :
        CASE r = "unsupported_compatibility" -> ~(a.reviewed /\ Compatible(a))
          [] r = "unmanifested_file" -> ~(a.files \subseteq a.listed)
          [] r = "file_hash_mismatch" -> a.altered \cap a.files # {}
          [] r = "manifest_file_missing" -> Missing(a) # {}
          [] r = "required_metadata_missing" -> "metadata" \notin a.files
          [] r = "metadata_mismatch" -> "metadata" \in a.files /\ ~a.agrees}

(* Each validator looks for the manifest of its own kind of archive.       *)
Rejected(format, a, resolves) ==
    IF a.form # format THEN {"manifest_count_invalid"}
    ELSE IF format = "pack" THEN PackRejected(a, resolves) ELSE BundleRejected(a)

(* `freezeRuntimeManifest`: what the compiler is given.  A pack without a  *)
(* loader (vanilla) is valid, but it is refused here.                      *)
Freezable(imp) == Compatible(imp.validated)

Frozen(i, imp) ==
    LET a == imp.validated
    IN [import |-> i, archive |-> imp.declared.archive,
        files |-> IF a.form = "pack" THEN a.files ELSE a.listed,
        mods |-> IF a.form = "pack" THEN a.mods ELSE {}]
-----------------------------------------------------------------------------
(* The id is new with every call; the claim keeps the first, and what was  *)
(* declared with it.                                                       *)
NewId(i) ==
    /\ imports[i] = None
    /\ \A c \in Calls : calls[c].id # i
    /\ \A k \in Keys : claims[k] # None => claims[k].id # i

CreateImport(c) ==
    /\ Begin(c)
    /\ \E k \in Keys, d \in Declarable :
        \E i \in Ids :
            /\ NewId(i)
            /\ calls' = [calls EXCEPT ![c] =
                   [Idle EXCEPT !.at = "claim", !.id = i, !.key = k, !.declared = d]]
    /\ UNCHANGED <<imports, taken, deployments, claims, issued, archives,
                   overlap, faults>>

Claimed_Again(c) == [id |-> calls[c].id, declared |-> calls[c].declared]  \* mutant

Claimed(c) ==
    IF claims[calls[c].key] # None THEN claims[calls[c].key]
    ELSE [id |-> calls[c].id, declared |-> calls[c].declared]

(* Whoever comes later is given the import, if it is there and was         *)
(* declared with the same words, or an error.                              *)
ClaimKey(c) ==
    /\ At(c, "claim")
    /\ claims' = [claims EXCEPT ![calls[c].key] = Claimed(c)]
    /\ IF Claimed(c).id = calls[c].id THEN Goes(c, "put") ELSE End(c)
    /\ UNCHANGED <<imports, taken, deployments, issued, archives, overlap,
                   begun, faults>>

PutImport(c) ==
    /\ At(c, "put")
    /\ imports' = [imports EXCEPT ![calls[c].id] =
           [declared |-> calls[c].declared, status |-> "awaiting_upload",
            validated |-> None]]
    /\ End(c)
    /\ UNCHANGED <<deployments, taken, claims, issued, archives, overlap,
                   begun, faults>>
-----------------------------------------------------------------------------
(* Any number of addresses is given while nobody has completed the import; *)
(* with each, "if-none-match" lets one upload through.                     *)
UploadUrl ==
    /\ \E i \in Ids :
        /\ imports[i] # None /\ imports[i].status = "awaiting_upload"
        /\ issued' = issued \cup {i}
    /\ UNCHANGED <<imports, taken, deployments, claims, archives, calls,
                   overlap, begun, faults>>

Upload ==
    /\ \E i \in issued, a \in Uploadable :
        /\ archives[i] = None
        /\ archives' = [archives EXCEPT ![i] = a]
    /\ UNCHANGED <<imports, taken, deployments, claims, issued, calls,
                   overlap, begun, faults>>
-----------------------------------------------------------------------------
Completers(i) ==
    {c \in Calls : calls[c].id = i
                     /\ calls[c].at \in {"validate", "verify", "accept", "reject"}}

(* An import that was being validated may be completed again: whoever was  *)
(* at it may have died.                                                    *)
Completable_Always(i) == imports[i].status # "invalid"   \* mutant: valid ones too
Completable(i) == imports[i].status \in {"awaiting_upload", "validating"}

Complete(c) ==
    /\ Begin(c)
    /\ \E i \in Ids :
        /\ imports[i] # None /\ Completable(i)
        /\ calls' = [calls EXCEPT ![c] =
               [Idle EXCEPT !.at = "validate", !.id = i, !.copy = imports[i]]]
        /\ overlap' = (overlap \/ Completers(i) # {})
    /\ UNCHANGED <<imports, taken, deployments, claims, issued, archives,
                   faults>>

Put(c, imp) == imports' = [imports EXCEPT ![calls[c].id] = imp]

Validating(c) ==
    /\ At(c, "validate")
    /\ Put(c, [calls[c].copy EXCEPT !.status = "validating"])
    /\ Goes(c, "verify")
    /\ UNCHANGED <<deployments, taken, claims, issued, archives, overlap,
                   begun, faults>>

(* `readVerified`: the object has the size and the hash that were declared.*)
AsDeclared_Any(c) == archives[calls[c].id] # None   \* mutant: no hash is computed
AsDeclared(c) == archives[calls[c].id] = calls[c].copy.declared.archive

(* What is read is validated at once; a provider that does not answer is a *)
(* reason to reject as one that does not know the mod.                     *)
Verify(c) ==
    /\ At(c, "verify")
    /\ LET a == archives[calls[c].id] IN
       IF /\ AsDeclared(c)
          /\ Rejected(calls[c].copy.declared.format, a, {"known"}) = {}
       THEN calls' = [calls EXCEPT ![c].at = "accept", ![c].copy.validated = a]
       ELSE Goes(c, "reject")
    /\ UNCHANGED <<imports, taken, deployments, claims, issued, archives,
                   overlap, begun, faults>>

(* The store of archives or a provider fails.                              *)
Fails(c) ==
    /\ At(c, "verify") /\ faults < MaxFaults
    /\ faults' = faults + 1
    /\ Goes(c, "reject")
    /\ UNCHANGED <<imports, taken, deployments, claims, issued, archives,
                   overlap, begun>>

Accept(c) ==
    /\ At(c, "accept")
    /\ Put(c, [calls[c].copy EXCEPT !.status = "valid"])
    /\ End(c)
    /\ UNCHANGED <<deployments, taken, claims, issued, archives, overlap,
                   begun, faults>>

Reject(c) ==
    /\ At(c, "reject")
    /\ Put(c, [calls[c].copy EXCEPT !.status = "invalid"])
    /\ End(c)
    /\ UNCHANGED <<deployments, taken, claims, issued, archives, overlap,
                   begun, faults>>
-----------------------------------------------------------------------------
(* `createDeployment` freezes what a valid import says; what it read of    *)
(* the import is as old as its claim when the deployment is put.           *)
Deployable(i) ==
    imports[i] # None /\ imports[i].status = "valid" /\ Freezable(imports[i])

ReadImport(c) ==
    /\ Begin(c)
    /\ \E i \in Ids, k \in Keys :
        /\ Deployable(i) /\ k \notin taken
        /\ calls' = [calls EXCEPT ![c] =
               [Idle EXCEPT !.at = "freeze", !.id = i, !.key = k, !.copy = imports[i]]]
    /\ UNCHANGED <<imports, deployments, claims, taken, issued, archives, overlap,
                   faults>>

(* One of two calls with a key claims it; the other is given its           *)
(* deployment, if that is put by then, or an error.                        *)
ClaimDeployment(c) ==
    /\ At(c, "freeze")
    /\ taken' = taken \cup {calls[c].key}
    /\ IF calls[c].key \in taken THEN End(c) ELSE Goes(c, "deploy")
    /\ UNCHANGED <<imports, deployments, claims, issued, archives, overlap, begun,
                   faults>>

PutDeployment(c) ==
    /\ At(c, "deploy")
    /\ deployments' = [deployments EXCEPT ![calls[c].key] =
                          Frozen(calls[c].id, calls[c].copy)]
    /\ End(c)
    /\ UNCHANGED <<imports, claims, taken, issued, archives, overlap, begun, faults>>

Die(c) ==
    /\ ~At(c, "idle") /\ faults < MaxFaults
    /\ faults' = faults + 1
    /\ End(c)
    /\ UNCHANGED <<imports, taken, deployments, claims, issued, archives,
                   overlap, begun>>

(* What an owner asks for (routes/sharedModdedRuntime.ts).                 *)
Request(c) == CreateImport(c) \/ Complete(c) \/ ReadImport(c)

Next ==
    \/ UploadUrl \/ Upload
    \/ \E c \in Calls :
        \/ Request(c) \/ ClaimKey(c) \/ PutImport(c) \/ Validating(c)
        \/ Verify(c) \/ Fails(c) \/ Accept(c) \/ Reject(c)
        \/ ClaimDeployment(c) \/ PutDeployment(c) \/ Die(c)

Spec == Init /\ [][Next]_vars
-----------------------------------------------------------------------------
(* Records are as the code writes them.                                    *)
TypeOK ==
    /\ \A i \in Ids : imports[i] # None =>
        /\ imports[i].declared \in Declarable
        /\ imports[i].status \in {"awaiting_upload", "validating", "valid", "invalid"}
    /\ issued \subseteq Ids /\ faults \in 0 .. MaxFaults

(* What a compiler is given was uploaded as it was declared: every file of *)
(* the manifest is in the archive, with its hash, none is a program, and   *)
(* every mod was found at its provider.                                    *)
DeployedIsSound ==
    \A k \in Keys : deployments[k] # None =>
        LET d == deployments[k] IN
        /\ archives[d.import] = d.archive
        /\ d.files \subseteq d.archive.files
        /\ d.files \cap d.archive.altered = {} /\ "program" \notin d.files
        /\ d.mods \subseteq {"known"}
        /\ d.archive.loader # "vanilla"
        /\ d.archive.loader = "neoforge" => d.archive.minecraft[1] >= 20

(* A declaration that is repeated has one import, and it is what the key   *)
(* was claimed for; without deaths the import is there or on its way.      *)
OneImportPerKey ==
    /\ \A i \in Ids : imports[i] # None => \E k \in Keys :
        claims[k] # None /\ claims[k].id = i /\ claims[k].declared = imports[i].declared
    /\ faults = 0 => \A k \in Keys : claims[k] # None =>
        \/ imports[claims[k].id] # None
        \/ \E c \in Calls : At(c, "put") /\ calls[c].id = claims[k].id

(* What a deployment was made from stays valid: unless completions of one  *)
(* import overlapped, of which the later writes back what it had read.     *)
DeployedStaysValid ==
    \A k \in Keys : (deployments[k] # None /\ ~overlap) =>
        imports[deployments[k].import].status = "valid"

Inv == TypeOK /\ DeployedIsSound /\ OneImportPerKey /\ DeployedStaysValid
=============================================================================
