------------------------------- MODULE AiRequests -------------------------------
(* A request of /v1/ai (`AiRequestService`, src/src/ai/service.ts): its     *)
(* key is claimed, cash for the request and for its tokens is authorized,  *)
(* the provider is asked, the answer is stored, and its two usages are     *)
(* settled.  A request that is repeated goes on from the stored answer.    *)
(* The ledger of requests is that of the local demo and of the tests;      *)
(* Billing is UsageSettlement, of which one authorization for each key of  *)
(* idempotency, and one settlement for each event, is kept here.  A usage  *)
(* event is named by the id of its request and its resource.               *)
EXTENDS Naturals, FiniteSets

CONSTANTS Calls,        \* requests that may be at work at the same time
          Keys,         \* keys of idempotency
          Submissions,  \* what clients send: [id, key, content]
          MaxCalls, MaxNow, MaxFaults,  \* bounds
          None

Resources == {"ai_request", "ai_tokens"}
Ids == {s.id : s \in Submissions}
Contents == {s.content : s \in Submissions}

AiAssumption ==
    /\ IsFiniteSet(Calls) /\ Calls # {}
    /\ \A s \in Submissions : s.key \in Keys
    /\ MaxCalls \in Nat /\ MaxNow \in Nat /\ MaxFaults \in Nat

VARIABLES
    now,            \* in settlement windows
    ledger,         \* for every key: None, the claim, or the stored answer
    authorizations, \* of Billing, for every key and resource
    settlements,    \* of Billing, for every request id and resource
    calls,          \* requests that are at work
    answered,       \* requests whose answer the client has
    arrived, faults

vars == <<now, ledger, authorizations, settlements, calls, answered, arrived, faults>>

Idle == [at |-> "idle", of |-> None, since |-> 0, got |-> {}, big |-> FALSE,
         event |-> None, record |-> None]
-----------------------------------------------------------------------------
Init ==
    /\ now = 0
    /\ ledger = [k \in Keys |-> None]
    /\ authorizations = [a \in Keys \X Resources |-> None]
    /\ settlements = [e \in Ids \X Resources |-> None]
    /\ calls = [h \in Calls |-> Idle]
    /\ answered = {}
    /\ arrived = 0 /\ faults = 0

At(h, place) == calls[h].at = place

Goes(h, place) == calls' = [calls EXCEPT ![h].at = place]

End(h) == calls' = [calls EXCEPT ![h] = Idle]

Key(h) == calls[h].of.key

Claim(s) == [content |-> s.content, stored |-> FALSE]

Tick ==
    /\ now < MaxNow
    /\ now' = now + 1
    /\ UNCHANGED <<ledger, authorizations, settlements, calls, answered, arrived, faults>>

(* Mutant: a claim that has no answer yet is taken over.                   *)
Vacant_Unanswered(s) == ledger[s.key] = None \/ ~ledger[s.key].stored

Vacant(s) == ledger[s.key] = None

Held(s) == ~ledger[s.key].stored \/ ledger[s.key].content # s.content

(* `claim`: the key is free, or has the answer to the same request, or the *)
(* request is refused.                                                     *)
Arrive(h) ==
    /\ At(h, "idle") /\ arrived < MaxCalls
    /\ arrived' = arrived + 1
    /\ \E s \in Submissions :
        LET call == [Idle EXCEPT !.of = s, !.since = now] IN
        IF Vacant(s)
        THEN /\ ledger' = [ledger EXCEPT ![s.key] = Claim(s)]
             /\ calls' = [calls EXCEPT ![h] = [call EXCEPT !.at = "authorize"]]
        ELSE /\ UNCHANGED ledger
             /\ IF Held(s) THEN UNCHANGED calls
                ELSE calls' = [calls EXCEPT ![h] =
                         [call EXCEPT !.at = "settle", !.record = ledger[s.key]]]
    /\ UNCHANGED <<now, authorizations, settlements, answered, faults>>
-----------------------------------------------------------------------------
(* The request is authorized first, then its tokens.                       *)
Wanted(h) == IF "ai_request" \in calls[h].got THEN "ai_tokens" ELSE "ai_request"

Expires(h) == calls[h].since + 1

(* What Billing stores; a second authorization under the key must be the   *)
(* same to the instant, and is then answered as the first one was.         *)
Granted(h) ==
    [id |-> calls[h].of.id, expires |-> Expires(h), status |-> "authorized",
     settled |-> FALSE]

MayAuthorize(h) ==
    LET a == authorizations[<<Key(h), Wanted(h)>>] IN
    /\ Expires(h) > now
    /\ a # None => a.id = calls[h].of.id /\ a.expires = Expires(h)

AuthorizedAs(h) ==
    LET a == <<Key(h), Wanted(h)>> IN
    authorizations' = IF authorizations[a] # None THEN authorizations
                      ELSE [authorizations EXCEPT ![a] = Granted(h)]

Authorize(h) ==
    /\ At(h, "authorize") /\ MayAuthorize(h)
    /\ AuthorizedAs(h)
    /\ calls' = [calls EXCEPT ![h].got = @ \cup {Wanted(h)},
                     ![h].at = IF Wanted(h) = "ai_tokens" THEN "provider" ELSE "authorize"]
    /\ UNCHANGED <<now, ledger, settlements, answered, arrived, faults>>

(* Billing refuses, for the balance or for the key, or does not answer:    *)
(* what was authorized before is released.                                 *)
AuthorizeFails(h) ==
    /\ At(h, "authorize")
    /\ Goes(h, "release")
    /\ \/ faults < MaxFaults /\ faults' = faults + 1
          /\ MayAuthorize(h) /\ AuthorizedAs(h)
       \/ UNCHANGED <<authorizations, faults>>
    /\ UNCHANGED <<now, ledger, settlements, answered, arrived>>

(* `releaseAll`, of which no failure is heard: the authorizations are      *)
(* released side by side, before the key is.                               *)
Released(h, r) ==
    LET a == authorizations[<<Key(h), r>>] IN a.status = "authorized" /\ ~a.settled

Release(h) ==
    /\ At(h, "release")
    /\ \E r \in calls[h].got :
        /\ calls' = [calls EXCEPT ![h].got = @ \ {r}]
        /\ \/ /\ authorizations' = IF Released(h, r)
                  THEN [authorizations EXCEPT ![<<Key(h), r>>].status = "released"]
                  ELSE authorizations
              /\ UNCHANGED faults
           \/ faults < MaxFaults /\ faults' = faults + 1 /\ UNCHANGED authorizations
    /\ UNCHANGED <<now, ledger, settlements, answered, arrived>>

(* Mutant: a request that failed gives up its key at once.                 *)
Unclaimed_Early(h) == TRUE

Unclaimed(h) == calls[h].got = {}

Unclaim(h) ==
    /\ At(h, "release") /\ Unclaimed(h)
    /\ ledger' = IF ledger[Key(h)] # None /\ ~ledger[Key(h)].stored
                 THEN [ledger EXCEPT ![Key(h)] = None] ELSE ledger
    /\ End(h)
    /\ UNCHANGED <<now, authorizations, settlements, answered, arrived, faults>>
-----------------------------------------------------------------------------
(* The provider answers, with more tokens than were authorized or not, or  *)
(* fails, or what it answers is not understood.                            *)
AskProvider(h) ==
    /\ At(h, "provider")
    /\ \/ \E big \in BOOLEAN :
           calls' = [calls EXCEPT ![h].at = "persist", ![h].big = big]
       \/ Goes(h, "release")
    /\ UNCHANGED <<now, ledger, authorizations, settlements, answered, arrived, faults>>

Answer(h) ==
    [content |-> calls[h].of.content, stored |-> TRUE, id |-> calls[h].of.id,
     since |-> calls[h].since, big |-> calls[h].big, settled |-> {}]

Persist(h) ==
    /\ At(h, "persist")
    /\ ledger' = [ledger EXCEPT ![Key(h)] = Answer(h)]
    /\ calls' = [calls EXCEPT ![h].at = "settle", ![h].record = Answer(h)]
    /\ UNCHANGED <<now, authorizations, settlements, answered, arrived, faults>>

(* The events of the record that are not settled, the request first.       *)
Open(h) == Resources \ calls[h].record.settled

NextOpen(h) == IF "ai_request" \in Open(h) THEN "ai_request" ELSE "ai_tokens"

Event(h) == [key |-> Key(h), since |-> calls[h].record.since]

(* `settle` of Billing: a repetition is answered as the first one was;     *)
(* usage beyond what was authorized is answered, but not charged.          *)
Known(h, r) ==
    LET s == settlements[<<calls[h].record.id, r>>] IN
    s # None /\ [key |-> s.key, since |-> s.since] = Event(h)

Fresh_Unexpired(h, r) ==   \* mutant: whose event it is, is not asked
    /\ authorizations[<<Key(h), r>>].expires > now

Fresh(h, r) ==
    LET a == authorizations[<<Key(h), r>>] IN
    /\ settlements[<<calls[h].record.id, r>>] = None
    /\ a.status = "authorized" /\ ~a.settled /\ a.expires > now

Charged(h, r) == ~(r = "ai_tokens" /\ calls[h].record.big)

SettledAs(h, r) ==
    IF Known(h, r) THEN UNCHANGED <<settlements, authorizations>>
    ELSE /\ settlements' = [settlements EXCEPT ![<<calls[h].record.id, r>>] =
                [key |-> Key(h), since |-> calls[h].record.since,
                 charged |-> Charged(h, r)]]
         /\ authorizations' = IF Charged(h, r)
                THEN [authorizations EXCEPT ![<<Key(h), r>>].settled = TRUE]
                ELSE authorizations

Settle(h) ==
    LET r == NextOpen(h) IN
    /\ At(h, "settle") /\ Open(h) # {}
    /\ Known(h, r) \/ Fresh(h, r)
    /\ SettledAs(h, r)
    /\ calls' = [calls EXCEPT ![h].at = "mark", ![h].event = r]
    /\ UNCHANGED <<now, ledger, answered, arrived, faults>>

(* Billing refuses, always from then on, or does not answer: the client is *)
(* told so, and may send the request again.                                *)
SettleFails(h) ==
    LET r == NextOpen(h) IN
    /\ At(h, "settle") /\ Open(h) # {}
    /\ \/ ~Known(h, r) /\ ~Fresh(h, r) /\ UNCHANGED <<settlements, authorizations, faults>>
       \/ /\ faults < MaxFaults /\ faults' = faults + 1
          /\ \/ UNCHANGED <<settlements, authorizations>>
             \/ (Known(h, r) \/ Fresh(h, r)) /\ SettledAs(h, r)
    /\ End(h)
    /\ UNCHANGED <<now, ledger, answered, arrived>>

(* Mutant: the record as the call has it is stored.                        *)
Marked_Whole(h) == [calls[h].record EXCEPT !.settled = @ \cup {calls[h].event}]

Marked(h) == [ledger[Key(h)] EXCEPT !.settled = @ \cup {calls[h].event}]

MarkSettled(h) ==
    /\ At(h, "mark")
    /\ ledger' = [ledger EXCEPT ![Key(h)] = Marked(h)]
    /\ calls' = [calls EXCEPT ![h].at = "settle", ![h].event = None,
                     ![h].record = Marked(h)]
    /\ UNCHANGED <<now, authorizations, settlements, answered, arrived, faults>>

Respond(h) ==
    /\ At(h, "settle") /\ Open(h) = {}
    /\ answered' = answered \cup {[key |-> Key(h), id |-> calls[h].record.id]}
    /\ End(h)
    /\ UNCHANGED <<now, ledger, authorizations, settlements, arrived, faults>>

(* The isolate ends, or the ledger does not answer.                        *)
Die(h) ==
    /\ ~At(h, "idle") /\ faults < MaxFaults
    /\ faults' = faults + 1
    /\ End(h)
    /\ UNCHANGED <<now, ledger, authorizations, settlements, answered, arrived>>

Next ==
    \/ Tick
    \/ \E h \in Calls :
        \/ Arrive(h) \/ Authorize(h) \/ AuthorizeFails(h) \/ Release(h)
        \/ Unclaim(h) \/ AskProvider(h) \/ Persist(h) \/ Settle(h)
        \/ SettleFails(h) \/ MarkSettled(h) \/ Respond(h) \/ Die(h)

Spec == Init /\ [][Next]_vars
-----------------------------------------------------------------------------
(* The ledger and Billing keep what the code stores in them.               *)
TypeOK ==
    /\ now \in 0 .. MaxNow /\ faults \in 0 .. MaxFaults
    /\ \A k \in Keys : ledger[k] # None => ledger[k].content \in Contents
    /\ \A k \in Keys : (ledger[k] # None /\ ledger[k].stored) =>
           ledger[k].id \in Ids /\ ledger[k].settled \subseteq Resources
    /\ \A a \in Keys \X Resources : authorizations[a] # None =>
           authorizations[a].status \in {"authorized", "released"}
    /\ \A h \in Calls : calls[h].got \subseteq Resources

(* A client that repeats a request while it is at work is refused: of one  *)
(* key one call is between its claim and its stored answer, or its release.*)
OneAsks ==
    \A g, h \in Calls :
        ({calls[g].at, calls[h].at} \subseteq {"authorize", "provider", "persist", "release"}
         /\ Key(g) = Key(h)) => g = h

(* An answer that a client has was settled for that key: both usages are   *)
(* in Billing, once, and are charged if they are what was authorized.      *)
AnswerIsPaid ==
    \A a \in answered : \A r \in Resources :
        LET s == settlements[<<a.id, r>>] IN
        /\ s # None /\ s.key = a.key
        /\ s.charged \/ (r = "ai_tokens" /\ ledger[a.key].big)
        /\ Cardinality({i \in Ids : settlements[<<i, r>>] # None
                                      /\ settlements[<<i, r>>].key = a.key}) = 1

(* What is marked as settled is settled in Billing, although calls of the  *)
(* same key settle it side by side and isolates end between the two.       *)
MarkedIsSettled ==
    \A k \in Keys : (ledger[k] # None /\ ledger[k].stored) =>
        \A r \in ledger[k].settled :
            /\ settlements[<<ledger[k].id, r>>] # None
            /\ settlements[<<ledger[k].id, r>>].key = k

(* "provider failure compensates every Billing authorization" (ai.test.ts):*)
(* once a key is free again, nothing that was authorized under it is       *)
(* held, unless a call of Billing failed or an isolate ended; and nothing  *)
(* that was released is charged.                                           *)
FreeIsReleased ==
    /\ \A a \in Keys \X Resources :
        (authorizations[a] # None /\ faults = 0 /\ ledger[a[1]] = None) =>
            authorizations[a].status = "released"
    /\ \A a \in Keys \X Resources :
        authorizations[a] # None =>
            ~(authorizations[a].settled /\ authorizations[a].status = "released")

Inv == TypeOK /\ OneAsks /\ AnswerIsPaid /\ MarkedIsSettled /\ FreeIsReleased

(* The stored answer to a key is never given up or replaced, and what was  *)
(* settled of it stays so: the provider is not asked again.                *)
AnswerStays ==
    \A k \in Keys : (ledger[k] # None /\ ledger[k].stored) =>
        /\ ledger'[k] # None /\ ledger'[k].stored
        /\ ledger'[k].id = ledger[k].id
        /\ ledger[k].settled \subseteq ledger'[k].settled

AnswersStay == [][AnswerStays]_vars
=============================================================================
