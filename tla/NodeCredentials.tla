----------------------------- MODULE NodeCredentials -----------------------------
(* How the agent of a shared node gets its credential, keeps it and is     *)
(* heard (sharedNodeTransport.ts, sharedNodeProvisioner.ts): the           *)
(* provisioner enrols the node with a token that is good once, the agent   *)
(* registers with it and is given a credential, replaces that before it    *)
(* ends, and beats.  Requests are signed with their secret and carry a     *)
(* nonce; the network may deliver one twice, or late, and lose the answer. *)
(* Secrets are numbers; a signature is good when its secret is.            *)
EXTENDS Naturals, FiniteSets

CONSTANTS Calls,       \* requests that may be at work at the same time
          Remembers,   \* whether the repository keeps nonces: the one in memory
                       \* does, MongoDB's (no upsert) never stores one
          MaxSecrets, MaxRequests, MaxArrivals,  \* bounds
          None         \* no document, no secret

CredentialsAssumption ==
    /\ IsFiniteSet(Calls) /\ Calls # {} /\ Remembers \in BOOLEAN
    /\ MaxSecrets \in Nat /\ MaxRequests \in Nat /\ MaxArrivals \in Nat \ {0}

Secrets == 1 .. MaxSecrets
Nonces == 1 .. MaxRequests
Kinds == {"register", "rotate", "ready", "draining"}

VARIABLES
    enrollment, \* shared_node_enrollments: that of the node, or None
    credential, \* shared_node_credentials: that of the node, or None
    node,       \* the node in the pool: "absent", "ready", "draining"
    nonces,     \* shared_node_request_nonces
    agent,      \* token it booted with, credential it has, nonce it waits for
    requests,   \* what the agent sent
    calls,      \* requests that are at work
    secrets,    \* secrets that were made
    arrivals,   \* for every nonce, how often its request arrived
    obeyed,     \* for every nonce, how often its request was obeyed
    enrolled,   \* for every secret, registrations it was consumed by
    cut         \* whether an answer was lost, or an isolate ended

vars == <<enrollment, credential, node, nonces, agent, requests, calls, secrets,
          arrivals, obeyed, enrolled, cut>>

Request == [kind : Kinds, secret : Secrets, nonce : Nonces]

Idle == [at |-> "idle", kind |-> None, secret |-> None, nonce |-> 0]
-----------------------------------------------------------------------------
Init ==
    /\ enrollment = None
    /\ credential = None
    /\ node = "absent"
    /\ nonces = {}
    /\ agent = [boot |-> None, secret |-> None, waits |-> 0]
    /\ requests = {}
    /\ calls = [h \in Calls |-> Idle]
    /\ secrets = 0
    /\ arrivals = [n \in Nonces |-> 0]
    /\ obeyed = [n \in Nonces |-> 0]
    /\ enrolled = [s \in Secrets |-> 0]
    /\ cut = FALSE

At(h, place) == calls[h].at = place

Goes(h, place) == calls' = [calls EXCEPT ![h].at = place]

End(h) == calls' = [calls EXCEPT ![h] = Idle]

(* The enrolment is stored before the instance is asked for, again if that *)
(* failed: an instance of the first attempt has a token that is void.      *)
Enroll ==
    /\ secrets < MaxSecrets
    /\ enrollment' = [token |-> secrets + 1, used |-> FALSE, expired |-> FALSE]
    /\ secrets' = secrets + 1
    /\ agent' \in {[agent EXCEPT !.boot = secrets + 1], agent}
    /\ UNCHANGED <<credential, node, nonces, requests, calls, arrivals, obeyed,
                   enrolled, cut>>

Expire ==
    /\ \/ /\ enrollment # None /\ ~enrollment.expired
          /\ enrollment' = [enrollment EXCEPT !.expired = TRUE] /\ UNCHANGED credential
       \/ /\ credential # None /\ ~credential.expired
          /\ credential' = [credential EXCEPT !.expired = TRUE] /\ UNCHANGED enrollment
    /\ UNCHANGED <<node, nonces, agent, requests, calls, secrets, arrivals, obeyed,
                   enrolled, cut>>

(* The agent asks for one thing at a time.                                 *)
Send ==
    LET nonce == Cardinality(requests) + 1 IN
    /\ agent.waits = 0 /\ nonce <= MaxRequests
    /\ \E kind \in Kinds :
        LET secret == IF kind = "register" THEN agent.boot ELSE agent.secret IN
        /\ secret # None
        /\ requests' = requests \cup {[kind |-> kind, secret |-> secret, nonce |-> nonce]}
    /\ agent' = [agent EXCEPT !.waits = nonce]
    /\ UNCHANGED <<enrollment, credential, node, nonces, calls, secrets, arrivals,
                   obeyed, enrolled, cut>>

(* It does not wait for ever.                                              *)
TimeOut ==
    /\ agent.waits # 0
    /\ agent' = [agent EXCEPT !.waits = 0]
    /\ cut' = TRUE
    /\ UNCHANGED <<enrollment, credential, node, nonces, requests, calls, secrets,
                   arrivals, obeyed, enrolled>>

Arrive(h) ==
    \E r \in requests :
        /\ At(h, "idle") /\ arrivals[r.nonce] < MaxArrivals
        /\ arrivals' = [arrivals EXCEPT ![r.nonce] = @ + 1]
        /\ calls' = [calls EXCEPT ![h] =
               [at |-> IF r.kind = "register" THEN "nonce" ELSE "credential",
                kind |-> r.kind, secret |-> r.secret, nonce |-> r.nonce]]
        /\ UNCHANGED <<enrollment, credential, node, nonces, agent, requests, secrets,
                       obeyed, enrolled, cut>>
-----------------------------------------------------------------------------
(* An answer that refuses: the agent that waits for it goes on.            *)
Refuse(h) ==
    /\ End(h)
    /\ agent' = IF agent.waits = calls[h].nonce /\ arrivals[calls[h].nonce] = 1
                THEN [agent EXCEPT !.waits = 0] ELSE agent

(* The credential of the node must be the one that signed, and not ended.  *)
AuthenticateNode(h) ==
    /\ At(h, "credential")
    /\ IF credential # None /\ ~credential.expired /\ credential.token = calls[h].secret
       THEN Goes(h, "nonce") /\ UNCHANGED agent ELSE Refuse(h)
    /\ UNCHANGED <<enrollment, credential, node, nonces, requests, secrets, arrivals,
                   obeyed, enrolled, cut>>

(* Mutant: the nonce is looked up, and stored by what follows.             *)
Claims_Late(h) == nonces' = nonces

Claims(h) == nonces' = IF Remembers THEN nonces \cup {calls[h].nonce} ELSE nonces

ClaimNonce(h) ==
    /\ At(h, "nonce")
    /\ IF calls[h].nonce \in nonces THEN Refuse(h) /\ UNCHANGED nonces
       ELSE /\ Claims(h)
            /\ Goes(h, CASE calls[h].kind = "register" -> "active"
                         [] calls[h].kind = "rotate" -> "issue"
                         [] OTHER -> "beat")
            /\ UNCHANGED agent
    /\ UNCHANGED <<enrollment, credential, node, requests, secrets, arrivals,
                   obeyed, enrolled, cut>>

(* A node that has a credential does not register.                         *)
CheckActive(h) ==
    /\ At(h, "active")
    /\ IF credential # None /\ ~credential.expired THEN Refuse(h)
       ELSE Goes(h, "consume") /\ UNCHANGED agent
    /\ UNCHANGED <<enrollment, credential, node, nonces, requests, secrets, arrivals,
                   obeyed, enrolled, cut>>

(* Mutant: a token that was used is good until it ends.                    *)
Consumable_Again(h) ==
    /\ enrollment # None /\ enrollment.token = calls[h].secret /\ ~enrollment.expired

Consumable(h) ==
    /\ enrollment # None /\ enrollment.token = calls[h].secret
    /\ ~enrollment.expired /\ ~enrollment.used

(* The enrolment is looked up and consumed by one update.                  *)
ConsumeEnrollment(h) ==
    /\ At(h, "consume")
    /\ IF Consumable(h)
       THEN /\ enrollment' = [enrollment EXCEPT !.used = TRUE]
            /\ enrolled' = [enrolled EXCEPT ![calls[h].secret] = @ + 1]
            /\ Goes(h, "node") /\ UNCHANGED agent
       ELSE Refuse(h) /\ UNCHANGED <<enrollment, enrolled>>
    /\ UNCHANGED <<credential, node, nonces, requests, secrets, arrivals, obeyed, cut>>

RegisterNode(h) ==
    /\ At(h, "node")
    /\ node' = "ready"
    /\ Goes(h, "issue")
    /\ UNCHANGED <<enrollment, credential, nonces, agent, requests, secrets, arrivals,
                   obeyed, enrolled, cut>>

(* A new credential replaces whatever there is, and is told to the agent,  *)
(* if that still waits for it.                                             *)
Obey(h) == obeyed' = [obeyed EXCEPT ![calls[h].nonce] = @ + 1]

Issue(h) ==
    /\ At(h, "issue") /\ secrets < MaxSecrets
    /\ secrets' = secrets + 1
    /\ credential' = [token |-> secrets + 1, expired |-> FALSE]
    /\ agent' = IF agent.waits = calls[h].nonce
                THEN [agent EXCEPT !.secret = secrets + 1, !.waits = 0] ELSE agent
    /\ Obey(h)
    /\ End(h)
    /\ UNCHANGED <<enrollment, node, nonces, requests, arrivals, enrolled, cut>>

(* A beat tells the scheduler: a node drains itself, and never undrains.   *)
Beaten_AsTold(kind) == kind   \* mutant: the beat decides

Beaten(kind) == IF kind = "draining" THEN "draining" ELSE node

Beat(h) ==
    /\ At(h, "beat")
    /\ node' = Beaten(calls[h].kind)
    /\ agent' = IF agent.waits = calls[h].nonce THEN [agent EXCEPT !.waits = 0] ELSE agent
    /\ Obey(h)
    /\ End(h)
    /\ UNCHANGED <<enrollment, credential, nonces, requests, secrets, arrivals,
                   enrolled, cut>>

Die(h) ==
    /\ ~At(h, "idle") /\ ~cut
    /\ cut' = TRUE
    /\ End(h)
    /\ UNCHANGED <<enrollment, credential, node, nonces, agent, requests, secrets,
                   arrivals, obeyed, enrolled>>

Next ==
    \/ Enroll \/ Expire \/ Send \/ TimeOut
    \/ \E h \in Calls :
        \/ Arrive(h) \/ AuthenticateNode(h) \/ ClaimNonce(h)
        \/ CheckActive(h) \/ ConsumeEnrollment(h) \/ RegisterNode(h)
        \/ Issue(h) \/ Beat(h) \/ Die(h)

Spec == Init /\ [][Next]_vars
-----------------------------------------------------------------------------
(* Every document, message and call is of the kind the code gives it.      *)
TypeOK ==
    /\ enrollment \in [token : Secrets, used : BOOLEAN, expired : BOOLEAN] \cup {None}
    /\ credential \in [token : Secrets, expired : BOOLEAN] \cup {None}
    /\ node \in {"absent", "ready", "draining"}
    /\ requests \subseteq Request /\ nonces \subseteq Nonces
    /\ agent \in [boot : Secrets \cup {None}, secret : Secrets \cup {None},
                  waits : 0 .. MaxRequests]
    /\ secrets \in 0 .. MaxSecrets /\ cut \in BOOLEAN

(* A bootstrap token is good for one registration, however often and how   *)
(* late its request arrives; a node is in the pool, or has a credential,   *)
(* only after a token of its own was consumed.                             *)
EnrolledOnce ==
    /\ \A s \in Secrets : enrolled[s] <= 1
    /\ (node # "absent" \/ credential # None) => \E s \in Secrets : enrolled[s] = 1

(* Where nonces are kept, no request is obeyed twice.                      *)
ObeyedOnce == Remembers => \A n \in Nonces : obeyed[n] <= 1

(* Where nonces are kept the agent has the credential that the node has,   *)
(* although requests arrive twice, once it waits for no answer: unless an  *)
(* answer was lost or an isolate ended, or another instance enrolled.      *)
AgentIsKnown ==
    (Remembers /\ ~cut /\ agent.waits = 0 /\ credential # None) =>
        credential.token = agent.secret

(* "Readiness is only restored by explicit control-plane reconciliation,   *)
(* never a later beat": a draining node becomes ready by a registration,   *)
(* for which a token was consumed.                                         *)
ReadyAgain ==
    (node = "draining" /\ node' = "ready") =>
        \E h \in Calls : calls[h].kind = "register" /\ enrolled[calls[h].secret] = 1

DrainedStays == [][ReadyAgain]_vars
=============================================================================
