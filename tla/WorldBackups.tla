----------------------------- MODULE WorldBackups -----------------------------
(***************************************************************************)
(* Backups of worlds: `WorldBackupService` (src/src/worldBackupService.ts).*)
(*                                                                         *)
(* The backups are of one world of one account, each of size 1.  A call is *)
(* a sequence of steps, each of which asks one of the stores: the backups, *)
(* the objects, the cursor of what is billed, or Billing.  A backup is     *)
(* read as a copy, which is saved as a whole; only the count of layers is  *)
(* changed in place.  `settle`, which comes before every change of what is *)
(* stored, is a subroutine that goes on at `next`.                         *)
(***************************************************************************)
EXTENDS Integers, FiniteSets

CONSTANTS Backups,     \* ids of backups
          Keys,        \* idempotency keys of create
          Calls,
          None,
          Operations,  \* those that are called
          Free,        \* backups that cost nothing
          Lifetime,    \* of grants and authorizations
          MaxTime,     \* bound: the clock
          MaxSequence, \* bound: events of a restore
          MaxFaults    \* bound: calls that die

BackupsAssumption ==
    /\ None \notin Backups
    /\ Operations \subseteq {"create", "upload", "complete", "restore",
                             "event", "delete"}
    /\ {Free, Lifetime, MaxTime, MaxSequence, MaxFaults} \subseteq Nat

VARIABLES backup,   \* the documents
          object,   \* the backups that are in the object storage
          event,    \* the last event of a restore
          cursor,   \* of what is billed
          outbox,   \* usage that is committed with the cursor
          billed,   \* usage that Billing has settled
          call, now, faults

documents == <<backup, object, event>>
money == <<cursor, outbox, billed>>
vars == <<documents, money, call, now, faults>>

Time == 0 .. MaxTime + Lifetime

Backup == [status : {"none", "creating", "uploading", "ready", "restoring",
                     "failed", "deleted"},
           parent : Backups \cup {None}, key : Keys \cup {None}, refs : Int,
           verified : BOOLEAN, grant : Time, authorized : Time]
NoBackup == [status |-> "none", parent |-> None, key |-> None, refs |-> 0,
             verified |-> FALSE, grant |-> 0, authorized |-> 0]

Cursor == [at : 0 .. MaxTime, sequence : Nat]
NoCursor == [at |-> 0, sequence |-> -1]
Usage == [from : Time, to : Time, quantity : Nat, sequence : Nat]

Idle == [pc |-> "idle"]
Call == [pc : {"find", "parent", "claim", "insert", "head", "grant", "save",
               "remove", "drop", "record", "settle", "usage", "publish",
               "commit", "move"},
         op : Operations, backup : Backups \cup {None}, key : Keys \cup {None},
         copy : Backup, next : {"claim", "grant", "save", "remove", "none"},
         at : Time, from : Cursor \cup {NoCursor}, owed : Nat,
         sequence : 0 .. MaxSequence, result : {"started", "ready", "failed"}]

TypeOK ==
    /\ backup \in [Backups -> Backup]
    /\ object \subseteq Backups
    /\ event \in [Backups -> 0 .. MaxSequence]
    /\ cursor \in Cursor \cup {NoCursor}
    /\ outbox \subseteq Usage /\ billed \subseteq Usage
    /\ call \in [Calls -> Call \cup {Idle}]
    /\ now \in 0 .. MaxTime /\ faults \in 0 .. MaxFaults

Init ==
    /\ backup = [b \in Backups |-> NoBackup]
    /\ object = {}
    /\ event = [b \in Backups |-> 0]
    /\ cursor = NoCursor
    /\ outbox = {} /\ billed = {}
    /\ call = [c \in Calls |-> Idle]
    /\ now = 0 /\ faults = 0

Live(b) == backup[b].status \notin {"none", "deleted"}

(* `countedObjects`: what is verified and not deleted is stored.           *)
Counted == {b \in Backups : Live(b) /\ backup[b].verified}
Used == Cardinality(Counted)

At(c, pc) == call[c].pc = pc
Goto(c, pc) == call' = [call EXCEPT ![c].pc = pc]
End(c) == call' = [call EXCEPT ![c] = Idle]

Settle(c, next, copy) ==
    call' = [call EXCEPT ![c].pc = "settle", ![c].next = next,
                         ![c].copy = copy, ![c].at = now]

(* A step that reads, and goes on.                                         *)
Reads == UNCHANGED <<documents, money, now, faults>>
Start(c, op, b, key) ==
    [pc |-> "find", op |-> op, backup |-> b, key |-> key,
     copy |-> IF b = None THEN NoBackup ELSE backup[b], next |-> "none",
     at |-> now, from |-> NoCursor, owed |-> 0, sequence |-> 0,
     result |-> "started"]
-----------------------------------------------------------------------------
(* `create`                                                                *)

(* The backup of a create is the parent of the layer, or None.             *)
Create(c, key, parent) ==
    /\ call[c] = Idle /\ "create" \in Operations
    /\ \E b \in Backups : backup[b].status = "none"
    /\ parent # None => backup[parent].status # "none"
    /\ call' = [call EXCEPT ![c] = Start(c, "create", parent, key)]
    /\ Reads

Created_Live(key) == \E b \in Backups : Live(b) /\ backup[b].key = key
Created(key) ==
    \E b \in Backups : backup[b].status # "none" /\ backup[b].key = key

Find(c) ==
    /\ At(c, "find")
    /\ IF Created(call[c].key) THEN End(c)
       ELSE Goto(c, IF call[c].backup = None THEN "insert" ELSE "parent")
    /\ Reads

ClaimParent(c) ==
    /\ At(c, "parent")
    /\ IF backup[call[c].backup].status = "ready"
       THEN Settle(c, "claim", NoBackup) ELSE End(c)
    /\ Reads

IncrementParent(c) ==
    /\ At(c, "claim")
    /\ IF backup[call[c].backup].status = "deleted"
       THEN End(c) /\ UNCHANGED backup
       ELSE /\ backup' = [backup EXCEPT ![call[c].backup].refs = @ + 1]
            /\ Goto(c, "insert")
    /\ UNCHANGED <<object, event, money, now, faults>>

Insert(c) ==
    /\ At(c, "insert")
    /\ \E b \in Backups :
        /\ backup[b].status = "none"
        /\ backup' = [backup EXCEPT ![b] =
              [NoBackup EXCEPT !.status = "creating", !.key = call[c].key,
                               !.parent = call[c].backup]]
    /\ End(c)
    /\ UNCHANGED <<object, event, money, now, faults>>
-----------------------------------------------------------------------------
(* The other operations, which start from a copy                           *)

Uploadable_Any(b) == backup[b].status \notin {"none", "uploading"}
Uploadable(b) == backup[b].status = "creating"

(* A backup that has its grant is answered with it.                        *)
IssueUpload(c, b) ==
    /\ Uploadable(b)
    /\ call[c] = Idle /\ "upload" \in Operations
    /\ call' = [call EXCEPT ![c] = [Start(c, "upload", b, None)
                  EXCEPT !.pc = "settle", !.next = "grant"]]
    /\ Reads

(* Above what is free, Billing has to authorize an upload.                 *)
Grant(c) ==
    /\ At(c, "grant")
    /\ LET expires == call[c].at + Lifetime
           granted == [call[c].copy EXCEPT !.status = "uploading",
                                           !.grant = expires] IN
       \/ /\ Used + 1 <= Free
          /\ call' = [call EXCEPT ![c].pc = "save", ![c].copy = granted]
       \/ /\ Used + 1 > Free
          /\ \/ call' = [call EXCEPT ![c].pc = "save", ![c].copy =
                           [granted EXCEPT !.authorized = expires]]
             \/ End(c)
    /\ Reads

Complete(c, b) ==
    /\ backup[b].status = "uploading" /\ now <= backup[b].grant
    /\ call[c] = Idle /\ "complete" \in Operations
    /\ call' = [call EXCEPT ![c] = [Start(c, "complete", b, None)
                  EXCEPT !.pc = "head"]]
    /\ Reads

Head(c) ==
    /\ At(c, "head")
    /\ IF call[c].backup \in object
       THEN Settle(c, "save", [call[c].copy EXCEPT !.status = "ready",
                                                   !.verified = TRUE])
       ELSE End(c)
    /\ Reads

Restore(c, b) ==
    /\ backup[b].status = "ready"
    /\ call[c] = Idle /\ "restore" \in Operations
    /\ call' = [call EXCEPT ![c] = [Start(c, "restore", b, None)
                  EXCEPT !.pc = "save", !.copy.status = "restoring"]]
    /\ Reads

RestoreEvent(c, b, sequence, result) ==
    /\ backup[b].status = "restoring"
    /\ call[c] = Idle /\ "event" \in Operations
    /\ call' = [call EXCEPT ![c] = [Start(c, "event", b, None)
                  EXCEPT !.pc = "record", !.sequence = sequence,
                         !.result = result]]
    /\ Reads

(* `recordRestoreEvent` takes an event that is newer than the last.        *)
Record(c) ==
    /\ At(c, "record")
    /\ LET b == call[c].backup IN
       IF call[c].sequence > event[b]
       THEN /\ event' = [event EXCEPT ![b] = call[c].sequence]
            /\ IF call[c].result = "started" THEN End(c)
               ELSE call' = [call EXCEPT ![c].pc = "save",
                                         ![c].copy.status = call[c].result]
       ELSE End(c) /\ UNCHANGED event
    /\ UNCHANGED <<backup, object, money, now, faults>>

Deletable_Any(b) == backup[b].status \notin {"deleted", "restoring"}
Deletable(b) ==
    backup[b].refs <= 0 /\ backup[b].status \notin {"deleted", "restoring"}

Delete(c, b) ==
    /\ backup[b].status # "none" /\ Deletable(b)
    /\ call[c] = Idle /\ "delete" \in Operations
    /\ call' = [call EXCEPT ![c] = [Start(c, "delete", b, None)
                  EXCEPT !.pc = "settle", !.next = "remove"]]
    /\ Reads

Remove(c) ==
    /\ At(c, "remove")
    /\ object' = object \ {call[c].backup}
    /\ call' = [call EXCEPT ![c].pc = "save", ![c].copy.status = "deleted"]
    /\ UNCHANGED <<backup, event, money, now, faults>>

(* Whose save is followed by one less layer of its parent.                 *)
Drops_Any(c) == call[c].copy.parent # None
Drops_Never(c) == FALSE
Drops(c) == call[c].op = "delete" /\ call[c].copy.parent # None

(* `saveBackup` writes the whole document.                                 *)
Save(c) ==
    /\ At(c, "save")
    /\ backup' = [backup EXCEPT ![call[c].backup] = call[c].copy]
    /\ IF Drops(c) THEN Goto(c, "drop") ELSE End(c)
    /\ UNCHANGED <<object, event, money, now, faults>>

DecrementParent(c) ==
    /\ At(c, "drop")
    /\ backup' = [backup EXCEPT ![call[c].copy.parent].refs = @ - 1]
    /\ End(c)
    /\ UNCHANGED <<object, event, money, now, faults>>
-----------------------------------------------------------------------------
(* `settle`: what was stored since the cursor is billed up to `at`         *)

Return(c) == Goto(c, call[c].next)

(* The first interval starts with the hour, which the clock starts in.     *)
ReadCursor(c) ==
    /\ At(c, "settle")
    /\ CASE cursor = NoCursor ->
              cursor' = [at |-> 0, sequence |-> 0] /\ Return(c)
         [] cursor # NoCursor /\ call[c].at <= cursor.at ->
              Return(c) /\ UNCHANGED cursor
         [] OTHER ->
              /\ call' = [call EXCEPT ![c].pc = "usage", ![c].from = cursor]
              /\ UNCHANGED cursor
    /\ UNCHANGED <<documents, outbox, billed, now, faults>>

Authorized == \E b \in Counted : backup[b].authorized > now

ReadUsage(c) ==
    /\ At(c, "usage")
    /\ CASE Used <= Free -> Goto(c, "move")
         [] Used > Free /\ Authorized ->
              call' = [call EXCEPT ![c].pc = "publish", ![c].owed = Used - Free]
         [] OTHER -> End(c)
    /\ Reads

UsageOf(c) ==
    [from |-> call[c].from.at, to |-> call[c].at,
     quantity |-> call[c].owed * (call[c].at - call[c].from.at),
     sequence |-> call[c].from.sequence + 1]

(* That Billing does not settle it ends the call, as Dies does.            *)
Publish(c) ==
    /\ At(c, "publish")
    /\ billed' = billed \cup {UsageOf(c)}
    /\ Goto(c, "commit")
    /\ UNCHANGED <<documents, cursor, outbox, now, faults>>

(* Where the cursor is after usage was committed.                          *)
Moved_Not(c) == [call[c].from EXCEPT !.sequence = @ + 1]
Moved_Ahead(c) == [at |-> call[c].at + 1, sequence |-> call[c].from.sequence + 1]
Moved(c) == [at |-> call[c].at, sequence |-> call[c].from.sequence + 1]

(* An event has the name of its interval.                                  *)
Commit(c) ==
    /\ At(c, "commit")
    /\ LET usage == UsageOf(c) IN
       IF \E u \in outbox : u.from = usage.from /\ u.to = usage.to
       THEN /\ IF usage \in outbox THEN Return(c) ELSE End(c)
            /\ UNCHANGED <<cursor, outbox>>
       ELSE /\ outbox' = outbox \cup {usage}
            /\ cursor' = Moved(c)
            /\ Return(c)
    /\ UNCHANGED <<documents, billed, now, faults>>

Move(c) ==
    /\ At(c, "move")
    /\ cursor' = [call[c].from EXCEPT !.at = call[c].at]
    /\ Return(c)
    /\ UNCHANGED <<documents, outbox, billed, now, faults>>
-----------------------------------------------------------------------------

(* A client uploads with a grant that it was given.                        *)
UploadObject(b) ==
    /\ b \notin object /\ backup[b].status \in {"uploading", "deleted"}
    /\ now <= backup[b].grant
    /\ object' = object \cup {b}
    /\ UNCHANGED <<backup, event, money, call, now, faults>>

Tick ==
    /\ now < MaxTime
    /\ now' = now + 1
    /\ UNCHANGED <<documents, money, call, faults>>

Dies(c) ==
    /\ call[c] # Idle /\ faults < MaxFaults
    /\ faults' = faults + 1
    /\ End(c)
    /\ UNCHANGED <<documents, money, now>>

Ask(c) ==
    \/ \E k \in Keys, p \in Backups \cup {None} : Create(c, k, p)
    \/ \E b \in Backups :
        \/ IssueUpload(c, b) \/ Complete(c, b) \/ Restore(c, b) \/ Delete(c, b)
        \/ \E s \in 1 .. MaxSequence, r \in {"started", "ready", "failed"} :
              RestoreEvent(c, b, s, r)

Step(c) ==
    \/ Find(c) \/ ClaimParent(c) \/ IncrementParent(c) \/ Insert(c)
    \/ Grant(c) \/ Head(c) \/ Record(c) \/ Remove(c) \/ Save(c)
    \/ DecrementParent(c)
    \/ ReadCursor(c) \/ ReadUsage(c) \/ Publish(c) \/ Commit(c) \/ Move(c)

Next ==
    \/ \E c \in Calls : Ask(c) \/ Step(c) \/ Dies(c)
    \/ \E b \in Backups : UploadObject(b)
    \/ Tick

Spec == Init /\ [][Next]_vars

(* A call that does not die goes on, and the owner deletes what there is.  *)
Fairness ==
    /\ \A c \in Calls : WF_vars(Step(c))
    /\ \A c \in Calls, b \in Backups : SF_vars(Delete(c, b))

FairSpec == Spec /\ Fairness
-----------------------------------------------------------------------------

(* A layer has its parent as long as it lives ("parent_in_use",            *)
(* worldBackupService.test.ts:429): a backup is not deleted under it.      *)
LayersKept ==
    \A b \in Backups : Live(b) /\ backup[b].parent # None
                       => backup[backup[b].parent].status # "deleted"

(* The count that keeps a parent is never less than its layers, whatever   *)
(* dies between the layer and the count.                                   *)
CountCovers ==
    \A p \in Backups :
        backup[p].refs >= Cardinality({b \in Backups : Live(b) /\ backup[b].parent = p})

(* "retrying returns the same resource" (src/LOCAL_DEMO.md:127)            *)
OnePerKey ==
    \A a, b \in Backups : backup[a].key # None /\ backup[a].key = backup[b].key
                          => a = b

(* "A delivery retry reuses the event ID" (worldBackupService.ts:96): no   *)
(* time is billed by two events.                                           *)
BilledOnce == \A u, v \in billed : u # v => u.to <= v.from \/ v.to <= u.from

(* What is deleted stays deleted: no operation that read the backup before *)
(* writes it back.                                                         *)
KeepsDeleted ==
    \A b \in Backups : backup[b].status = "deleted"
                       => backup'[b].status = "deleted"

(* A backup whose owner goes on deleting it is deleted, its layers first.  *)
DeleteEnds == \A b \in Backups : backup[b].status = "ready" ~> ~ Live(b)
=============================================================================
