-------------------------------- MODULE Accounts --------------------------------
(* Accounts and the identities that sign in to them (account.ts,           *)
(* accountMerge.ts): an identity belongs to an account in two documents,   *)
(* an index by identity and the account's own list.  Operations read and   *)
(* write whole documents, one at a time, with other calls between; only    *)
(* the claim of an identity and its move to another account look at what   *)
(* the index holds as they write.  The index is written first by some      *)
(* operations and last by others.                                          *)
EXTENDS Naturals, FiniteSets

CONSTANTS Owned,      \* identity of each account that exists at the start
          Free,       \* identities that no account has at the start
          New,        \* ids for new accounts
          Calls,      \* calls that may be at work at the same time
          Operations, \* operations that are called
          MaxCalls,   \* calls in all
          MaxFaults,  \* isolates that end with a call at work
          None        \* no account, no document

Accts == DOMAIN Owned \cup New
Identities == {Owned[a] : a \in DOMAIN Owned} \cup Free

AccountsAssumption ==
    /\ \A a, b \in DOMAIN Owned : Owned[a] = Owned[b] => a = b
    /\ {Owned[a] : a \in DOMAIN Owned} \cap Free = {}
    /\ DOMAIN Owned \cap New = {}
    /\ Operations \subseteq {"bind", "unlink", "delete", "cancel", "merge"}
    /\ MaxCalls \in Nat /\ MaxFaults \in Nat

VARIABLES
    accounts,  \* xmcl_accounts: the account of an id, or None
    index,     \* xmcl_identities: the owner of an identity, or None
    merges,    \* xmcl_account_merges: every pair, "none", "prepared", "completed"
    calls,     \* calls at work
    met,       \* whether two calls were at work on one account
    started,   \* calls that began
    faults     \* isolates that ended

vars == <<accounts, index, merges, calls, met, started, faults>>

Account == [status : {"active", "deletion_pending", "merged"}, ids : SUBSET Identities]

Pairs == {p \in Accts \X Accts : p[1] # p[2]}   \* source and destination

(* a is the account the call works on, i the identity, b the source of a   *)
(* merge; doc and source are the documents as they were read.              *)
Idle == [at |-> "idle", a |-> None, i |-> None, b |-> None, doc |-> None,
         source |-> None, moved |-> {}, sign |-> FALSE]
-----------------------------------------------------------------------------
Init ==
    /\ accounts = [a \in Accts |-> IF a \in New THEN None
                      ELSE [status |-> "active", ids |-> {Owned[a]}]]
    /\ index = [i \in Identities |->
                   IF i \in Free THEN None ELSE CHOOSE a \in DOMAIN Owned : Owned[a] = i]
    /\ merges = [p \in Pairs |-> "none"]
    /\ calls = [h \in Calls |-> Idle]
    /\ met = FALSE
    /\ started = 0
    /\ faults = 0

At(h, place) == calls[h].at = place

Becomes(h, call) == calls' = [calls EXCEPT ![h] = call]

Goes(h, place) == Becomes(h, [calls[h] EXCEPT !.at = place])

End(h) == Becomes(h, Idle)

Starts(h, operation, call) ==
    /\ operation \in Operations
    /\ At(h, "idle") /\ started < MaxCalls
    /\ started' = started + 1
    /\ Becomes(h, call)
    /\ UNCHANGED <<accounts, index, merges, faults>>

Active(a) == accounts[a] # None /\ accounts[a].status = "active"

Read(h, place) ==
    Becomes(h, [calls[h] EXCEPT !.at = place, !.doc = accounts[calls[h].a]])

(* The whole document is written over whatever is there.                   *)
Save(h, place, doc) ==
    /\ accounts' = [accounts EXCEPT ![calls[h].a] = doc]
    /\ IF place = "idle" THEN End(h) ELSE Goes(h, place)
    /\ UNCHANGED <<index, merges, started, faults>>

OnlyCalls == UNCHANGED <<accounts, index, merges, started, faults>>
-----------------------------------------------------------------------------
(* A provider has verified an identity: somebody signs in with it, the     *)
(* launcher does, perhaps on behalf of an account that it already has, or  *)
(* the owner of an account links it.                                       *)
Binds(h, i, a, sign) ==
    Starts(h, "bind", [Idle EXCEPT !.at = "find", !.i = i, !.a = a, !.sign = sign])

SignIn(h) == \E i \in Identities : Binds(h, i, None, TRUE)

LauncherSignIn(h) ==
    \E i \in Identities, a \in Accts : accounts[a] # None /\ Binds(h, i, a, TRUE)

LinkIdentity(h) ==
    \E i \in Identities, a \in Accts : accounts[a] # None /\ Binds(h, i, a, FALSE)

FindIdentity(h) ==
    LET owner == index[calls[h].i]
        a == calls[h].a IN
    /\ At(h, "find")
    /\ \/ /\ owner # None
          /\ IF a \notin {None, owner} THEN End(h)
             ELSE Becomes(h, [calls[h] EXCEPT !.at = "restore", !.a = owner])
       \/ /\ owner = None /\ a # None /\ Goes(h, "link")
       \/ /\ owner = None /\ a = None
          /\ \E n \in New :
              /\ accounts[n] = None
              /\ \A g \in Calls : calls[g].a # n
              /\ \A i \in Identities : index[i] # n
              /\ Becomes(h, [calls[h] EXCEPT !.at = "claim", !.a = n])
    /\ OnlyCalls

(* The identity has an owner: a deletion that was asked for is taken back. *)
Restore(h) ==
    LET doc == accounts[calls[h].a] IN
    /\ At(h, "restore")
    /\ CASE doc = None -> End(h)
         [] doc # None /\ doc.status = "merged" -> End(h)
         [] doc # None /\ doc.status = "deletion_pending" -> Read(h, "restore_save")
         [] doc # None /\ doc.status = "active" ->
                IF calls[h].sign THEN Goes(h, "issue") ELSE End(h)
    /\ OnlyCalls

RestoreSave(h) ==
    /\ At(h, "restore_save")
    /\ Save(h, IF calls[h].sign THEN "issue" ELSE "idle",
            [calls[h].doc EXCEPT !.status = "active"])

Link(h) ==
    /\ At(h, "link")
    /\ IF Active(calls[h].a) THEN Read(h, "claim") ELSE End(h)
    /\ OnlyCalls

(* The claim is atomic: the first account keeps the identity.              *)
ClaimIdentity(h) ==
    LET i == calls[h].i IN
    /\ At(h, "claim")
    /\ index' = [index EXCEPT ![i] = IF @ = None THEN calls[h].a ELSE @]
    /\ Goes(h, "claimed")
    /\ UNCHANGED <<accounts, merges, started, faults>>

Claimed(h) ==
    /\ At(h, "claimed")
    /\ IF index[calls[h].i] = calls[h].a THEN Goes(h, "bind_save") ELSE End(h)
    /\ OnlyCalls

BindSave(h) ==
    LET doc == calls[h].doc IN
    /\ At(h, "bind_save")
    /\ Save(h, IF calls[h].sign THEN "issue" ELSE "idle",
            IF doc = None THEN [status |-> "active", ids |-> {calls[h].i}]
            ELSE [doc EXCEPT !.ids = @ \cup {calls[h].i}])

(* The session that is issued adds its id to the account's document, which *)
(* is read again and written as a whole (session.ts).                      *)
IssueRead(h) ==
    /\ At(h, "issue")
    /\ IF accounts[calls[h].a] = None THEN End(h) ELSE Read(h, "issue_save")
    /\ OnlyCalls

IssueSave(h) ==
    /\ At(h, "issue_save")
    /\ Save(h, "idle", calls[h].doc)
-----------------------------------------------------------------------------
(* The owner takes an identity from the account, never the last one.       *)
Unlink(h) ==
    \E a \in Accts, i \in Identities :
        /\ Active(a) /\ i \in accounts[a].ids /\ accounts[a].ids # {i}
        /\ Starts(h, "unlink",
               [Idle EXCEPT !.at = "unlink", !.a = a, !.i = i, !.doc = accounts[a]])

UnlinkSave(h) ==
    /\ At(h, "unlink")
    /\ Save(h, "forget", [calls[h].doc EXCEPT !.ids = @ \ {calls[h].i}])

DeleteIdentity(h) ==
    /\ At(h, "forget")
    /\ index' = [index EXCEPT ![calls[h].i] = None]
    /\ End(h)
    /\ UNCHANGED <<accounts, merges, started, faults>>

(* Deletion, and its cancellation within fourteen days.                    *)
RequestDeletion(h) ==
    \E a \in Accts :
        /\ accounts[a] # None /\ accounts[a].status # "merged"
        /\ Starts(h, "delete", [Idle EXCEPT !.at = "delete", !.a = a, !.doc = accounts[a]])

DeletionSave(h) ==
    /\ At(h, "delete")
    /\ Save(h, "idle", [calls[h].doc EXCEPT !.status = "deletion_pending"])

CancelDeletion(h) ==
    \E a \in Accts :
        /\ accounts[a] # None /\ accounts[a].status = "deletion_pending"
        /\ Starts(h, "cancel", [Idle EXCEPT !.at = "cancel", !.a = a, !.doc = accounts[a]])

CancelSave(h) ==
    /\ At(h, "cancel")
    /\ Save(h, "idle", [calls[h].doc EXCEPT !.status = "active"])
-----------------------------------------------------------------------------
(* A merge: the owner of a destination shows an identity of the source,    *)
(* and confirms.  What prepare reads decides nothing that confirm does not *)
(* read again, so that its reads and its write are one step.               *)
Prepare(h) ==
    \E a, b \in Accts, i \in Identities :
        /\ "merge" \in Operations /\ At(h, "idle") /\ started < MaxCalls
        /\ a # b /\ Active(a) /\ index[i] = b /\ Active(b)
        /\ merges[<<b, a>>] = "none"
        /\ merges' = [merges EXCEPT ![<<b, a>>] = "prepared"]
        /\ UNCHANGED <<accounts, index, calls, started, faults>>

Confirm(h) ==
    \E p \in Pairs :
        /\ merges[p] = "prepared"
        /\ Starts(h, "merge", [Idle EXCEPT !.at = "destination", !.a = p[2], !.b = p[1]])

ReadDestination(h) ==
    /\ At(h, "destination")
    /\ IF Active(calls[h].a) THEN Read(h, "source") ELSE End(h)
    /\ OnlyCalls

ReadSource(h) ==
    /\ At(h, "source")
    /\ IF Active(calls[h].b)
       THEN Becomes(h, [calls[h] EXCEPT !.at = "move", !.source = accounts[calls[h].b]])
       ELSE End(h)
    /\ OnlyCalls

ToMove(h) == calls[h].source.ids \ calls[h].moved

(* moveIdentity: the identity must be the source's when it is looked up,   *)
(* and is moved if it still is when the index is written.                  *)
FindMoved(h) ==
    /\ At(h, "move") /\ ToMove(h) # {}
    /\ \E i \in ToMove(h) :
        IF index[i] = calls[h].b THEN Becomes(h, [calls[h] EXCEPT !.at = "moving", !.i = i])
        ELSE End(h)
    /\ OnlyCalls

(* Mutant: the index is written whoever owns the identity by now.          *)
MoveIdentity_Blind(h) ==
    /\ At(h, "moving")
    /\ index' = [index EXCEPT ![calls[h].i] = calls[h].a]
    /\ Becomes(h, [calls[h] EXCEPT !.at = "move", !.moved = @ \cup {calls[h].i}])
    /\ UNCHANGED <<accounts, merges, started, faults>>

MoveIdentity(h) ==
    LET i == calls[h].i IN
    /\ At(h, "moving")
    /\ index' = [index EXCEPT ![i] = IF @ = calls[h].b THEN calls[h].a ELSE @]
    /\ Becomes(h, [calls[h] EXCEPT !.at = "move", !.moved = @ \cup {i}])
    /\ UNCHANGED <<accounts, merges, started, faults>>

(* Mutant: the destination's list stays what it was.                       *)
SaveDestination_Bare(h) ==
    /\ At(h, "move") /\ ToMove(h) = {}
    /\ Save(h, "absorb", calls[h].doc)

SaveDestination(h) ==
    /\ At(h, "move") /\ ToMove(h) = {}
    /\ Save(h, "absorb", [calls[h].doc EXCEPT !.ids = @ \cup calls[h].moved])

(* Mutant: the source is left as it is.                                    *)
SaveSource_Kept(h) ==
    /\ At(h, "absorb")
    /\ Goes(h, "complete")
    /\ OnlyCalls

SaveSource(h) ==
    /\ At(h, "absorb")
    /\ accounts' = [accounts EXCEPT ![calls[h].b] = [status |-> "merged", ids |-> {}]]
    /\ Goes(h, "complete")
    /\ UNCHANGED <<index, merges, started, faults>>

SaveMerge(h) ==
    /\ At(h, "complete")
    /\ merges' = [merges EXCEPT ![<<calls[h].b, calls[h].a>>] = "completed"]
    /\ End(h)
    /\ UNCHANGED <<accounts, index, started, faults>>
-----------------------------------------------------------------------------
Die(h) ==
    /\ ~At(h, "idle") /\ faults < MaxFaults
    /\ faults' = faults + 1
    /\ End(h)
    /\ UNCHANGED <<accounts, index, merges, started>>

(* Accounts that a call has read or is to write.                           *)
Touched(h) == {calls[h].a, calls[h].b} \ {None}

Meeting == \E g, h \in Calls : g # h /\ Touched(g) \cap Touched(h) # {}

Step(h) ==
        \/ SignIn(h) \/ LauncherSignIn(h) \/ LinkIdentity(h)
        \/ FindIdentity(h) \/ Restore(h) \/ RestoreSave(h) \/ Link(h)
        \/ ClaimIdentity(h) \/ Claimed(h) \/ BindSave(h) \/ IssueRead(h) \/ IssueSave(h)
        \/ Unlink(h) \/ UnlinkSave(h) \/ DeleteIdentity(h)
        \/ RequestDeletion(h) \/ DeletionSave(h) \/ CancelDeletion(h) \/ CancelSave(h)
        \/ Prepare(h) \/ Confirm(h) \/ ReadDestination(h) \/ ReadSource(h)
        \/ FindMoved(h) \/ MoveIdentity(h) \/ SaveDestination(h) \/ SaveSource(h)
        \/ SaveMerge(h)
        \/ Die(h)

Next == /\ \E h \in Calls : Step(h)
        /\ met' = (met \/ Meeting')

Spec == Init /\ [][Next]_vars
-----------------------------------------------------------------------------
(* Every document and call is of the kind the code gives it.               *)
TypeOK ==
    /\ accounts \in [Accts -> Account \cup {None}]
    /\ index \in [Identities -> Accts \cup {None}]
    /\ merges \in [Pairs -> {"none", "prepared", "completed"}]
    /\ met \in BOOLEAN /\ started \in 0 .. MaxCalls /\ faults \in 0 .. MaxFaults

Quiet == \A h \in Calls : At(h, "idle")

(* When no call is at work the two records of who owns an identity agree,  *)
(* and nobody who can sign in is left without one: however sign-ins, links *)
(* and unlinks of an identity raced, as long as no isolate ended half-way  *)
(* and no two calls were at work on one account.                           *)
IndexAgrees ==
    (Quiet /\ ~met /\ faults = 0) =>
        \A a \in Accts :
            /\ \A i \in Identities :
                  index[i] = a <=> (accounts[a] # None /\ i \in accounts[a].ids)
            /\ accounts[a] # None =>
                  (accounts[a].status = "merged" <=> accounts[a].ids = {})

(* A merge that is on record as completed has ended its source, which has  *)
(* no identity any more: even when isolates ended on the way.              *)
CompletedIsMerged ==
    ~met => \A p \in Pairs : merges[p] = "completed" =>
               accounts[p[1]] = [status |-> "merged", ids |-> {}]

(* An identity leaves one account for another by a merge of those two that *)
(* was prepared, and in no other way: sign-ins, links, unlinks and merges  *)
(* that overlap, whose documents overwrite each other's, never hand it on. *)
MovedByMerge ==
    \A i \in Identities :
        LET from == index[i]
            to == index'[i] IN
        (from # to /\ from # None /\ to # None) => merges[<<from, to>>] # "none"

MovesAreMerges == [][MovedByMerge]_vars
=============================================================================
