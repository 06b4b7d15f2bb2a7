-------------------------- MODULE TranslationCache --------------------------
(***************************************************************************)
(* One translation of the launcher's project descriptions: its entity in   *)
(* Azure Table (src/src/translationStore.ts), its copy at the edge         *)
(* (src/src/translationEdgeCache.ts), the requests that count accesses     *)
(* (src/src/routes/translation.ts) and the sweeps of the cron that refresh *)
(* it (src/src/translationScheduling.ts).                                  *)
(*                                                                         *)
(* The text is abstracted to the version of the source it translates, and  *)
(* its hash with it; 0 is no text.  The ETag that a read of the row        *)
(* returns is abstracted to the set of the processes whose last read is    *)
(* still what the table holds: every write empties it.  The list of the    *)
(* rows that are due asks for no metadata and returns no ETags.            *)
(* The token of a lease is the sweep.                                      *)
(***************************************************************************)
EXTENDS Integers, TLC

CONSTANTS Sweeps, Requests, None,
          Lease, Retry, EdgeRetry, Grace,    \* the durations of the code
          HotRefresh, NormalRefresh, HotAccess,
          SweepLimit,      \* how long the platform lets a sweep run
          MaxSource,       \* bound: versions of the source
          MaxAccess,       \* bound: accesses
          MaxTime          \* bound: the clock

TranslationAssumption ==
    /\ \A n \in {Lease, Retry, EdgeRetry, Grace, HotRefresh, NormalRefresh,
                 HotAccess, SweepLimit, MaxSource, MaxAccess, MaxTime} :
                     n \in Nat
    /\ None \notin Sweeps
    /\ Sweeps \cap Requests = {}

VARIABLES entity,    \* the row of the table
          current,   \* the processes whose ETag is the row's
          edge,      \* the value in Workers KV
          sweep,     \* the sweeps of the cron
          request,   \* recordAccess calls
          source,    \* the version of the description at its origin
          now,
          counted,   \* history: the accesses that were recorded
          exposed,   \* history: those recorded while a sweep had the row listed
          since,     \* history: when the row got its text
          newest,    \* history: the newest text the row has had
          stale,     \* history: the sweeps whose listed row was claimed since
          doubled    \* history: has one of them claimed it as well?

history == <<counted, exposed, since, newest, stale, doubled>>

vars == <<entity, current, edge, sweep, request, source, now, history>>

Times == 0 .. MaxTime
Horizon == MaxTime + Lease + Retry + NormalRefresh + HotRefresh + Grace
Dates == 0 .. Horizon
Texts == 0 .. MaxSource
Idle == [pc |-> "idle"]

Earlier(a, b) == IF a <= b THEN a ELSE b
Later(a, b) == IF a >= b THEN a ELSE b

Rows == [status : {"pending", "processing", "ready", "failed"}, text : Texts,
         access : 1 .. MaxAccess, next : Dates, lease : Sweeps \cup {None},
         leaseEnds : Dates, edgePending : BOOLEAN, edgeResume :
             Dates \cup {None}]

(* What a sweep still uses of the row it claimed.                          *)
Kept(row) == [text |-> row.text, access |-> row.access,
              edgePending |-> row.edgePending, edgeResume |-> row.edgeResume]

Absent == [status |-> "absent", text |-> 0]

TypeOK ==
    /\ entity \in Rows \cup {Absent}
    /\ current \subseteq Sweeps \cup Requests
    /\ edge \in [text : Texts, validUntil : Dates]
    /\ \A w \in Sweeps :
         /\ sweep[w].pc \in {"idle", "listed", "claimed", "fetched", "store",
                             "write", "put"}
         /\ sweep[w].pc # "idle" =>
              /\ sweep[w].row \in Rows \cup
                   [text : Texts, access : 1 .. MaxAccess,
                    edgePending : BOOLEAN, edgeResume : Dates \cup {None}]
              /\ sweep[w].deadline \in Times
              /\ sweep[w].text \in Texts /\ sweep[w].until \in Dates
              /\ sweep[w].op \in {"stage", "fail", "complete", "retry", None}
              /\ sweep[w].at \in Times
    /\ request \in [Requests -> {"idle", "read"}]
    /\ source \in 1 .. MaxSource
    /\ now \in Times
    /\ counted \in 0 .. MaxAccess /\ exposed \in 0 .. counted
    /\ since \in Times /\ newest \in Texts
    /\ stale \subseteq Sweeps /\ doubled \in BOOLEAN

Init ==
    /\ entity = Absent
    /\ current = {}
    /\ edge = [text |-> 0, validUntil |-> 0]
    /\ sweep = [w \in Sweeps |-> Idle]
    /\ request = [r \in Requests |-> "idle"]
    /\ source = 1 /\ now = 0
    /\ counted = 0 /\ exposed = 0 /\ since = 0 /\ newest = 0
    /\ stale = {} /\ doubled = FALSE

-----------------------------------------------------------------------------
(* The table.                                                              *)

Exists == entity # Absent

(* A write of the row: every ETag read before is out of date, and whoever  *)
(* wrote reads again before it writes again.  MERGE keeps the text when    *)
(* the record it is given has none.                                        *)
Write(row) ==
    /\ entity' = [row EXCEPT !.text = IF @ = 0 THEN entity.text ELSE @]
    /\ current' = {}
    /\ since' = IF entity'.text # entity.text THEN now ELSE since
    /\ newest' = Later(newest, entity'.text)

Read(p) == current' = current \cup {p}

(* if-match: the ETag the process read is the row's.                       *)
Matches(p) == p \in current

(***************************************************************************)
(* recordAccess: reads the row, and writes it with the access counted; on  *)
(* a conflict it reads again, or gives up at the fourth.                   *)
(***************************************************************************)
ReadAccess(r) ==
    /\ request[r] = "idle" /\ counted < MaxAccess
    /\ request' = [request EXCEPT ![r] = "read"]
    /\ Read(r)
    /\ UNCHANGED <<entity, edge, sweep, source, now, history>>

Accessed(row) ==
    [row EXCEPT !.access = @ + 1,
                !.status = IF @ = "processing" \/ row.text # 0 THEN @
                           ELSE "pending",
                !.next = IF row.text # 0 THEN @ ELSE Earlier(@, now)]

FirstAccess_Uncounted ==
    [status |-> "pending", text |-> 0, access |-> 0, next |-> now,
     lease |-> None, leaseEnds |-> 0, edgePending |-> FALSE,
         edgeResume |-> None]
FirstAccess ==
    [status |-> "pending", text |-> 0, access |-> 1, next |-> now,
     lease |-> None, leaseEnds |-> 0, edgePending |-> FALSE,
         edgeResume |-> None]

WriteAccess(r) ==
    /\ request[r] = "read" /\ Matches(r)
    /\ counted < MaxAccess
    /\ Write(IF Exists THEN Accessed(entity) ELSE FirstAccess)
    /\ counted' = counted + 1
    /\ exposed' = IF \E w \in Sweeps : sweep[w].pc = "listed"
                  THEN exposed + 1 ELSE exposed
    /\ request' = [request EXCEPT ![r] = "idle"]
    /\ UNCHANGED <<edge, sweep, source, now, stale, doubled>>

ConflictAccess(r) ==
    /\ request[r] = "read" /\ ~Matches(r)
    /\ \/ Read(r) /\ UNCHANGED request
       \/ UNCHANGED current /\ request' = [request EXCEPT ![r] = "idle"]
    /\ UNCHANGED <<entity, edge, sweep, source, now, history>>

-----------------------------------------------------------------------------
(* The sweeps.                                                             *)

Others == <<edge, request, source, now, counted, exposed, stale, doubled>>

Keeps == UNCHANGED <<entity, current, since, newest, Others>>

Goto(w, fields) ==
    sweep' = [sweep EXCEPT ![w] = fields @@ @]

Ends(w) == sweep' = [sweep EXCEPT ![w] = Idle]

Due ==
    /\ Exists
    /\ entity.next <= now
    /\ entity.status = "processing" => entity.leaseEnds <= now

(* listDue, for this row.                                                  *)
List(w) ==
    /\ sweep[w].pc = "idle" /\ Due
    /\ sweep' = [sweep EXCEPT ![w] =
           [pc |-> "listed", row |-> entity,
            deadline |-> Earlier(now + SweepLimit, MaxTime), text |-> 0,
            until |-> 0, op |-> None, at |-> now]]
    /\ stale' = stale \ {w}
    /\ UNCHANGED <<entity, current, edge, request, source, now, counted,
                   exposed, since, newest, doubled>>

Claimed(w) == [sweep[w].row EXCEPT !.status = "processing", !.lease = w,
                                   !.leaseEnds = now + Lease,
                                   !.next = now + Lease]

(* claim writes the row as it was listed over whatever the row is now: with *)
(* no ETag, the merge is made with if-match "*".                           *)
Claim(w) ==
    /\ sweep[w].pc = "listed"
    /\ Write(Claimed(w))
    /\ Goto(w, [pc |-> "claimed", row |-> Kept(Claimed(w)), at |-> 0])
    /\ doubled' = (doubled \/ w \in stale)
    /\ stale' = {v \in Sweeps \ {w} : v \in stale \/ sweep[v].pc = "listed"}
    /\ UNCHANGED <<edge, request, source, now, counted, exposed>>

Refresh(row) == IF row.access >= HotAccess THEN HotRefresh ELSE NormalRefresh

EdgeOnly(w) == sweep[w].row.edgePending /\ sweep[w].row.text # 0

RetryValidUntil_Refreshed(resume) == now + NormalRefresh + Grace
RetryValidUntil(resume) == Later(resume + Grace, now + EdgeRetry + Grace)

(* A claim of a row whose text is not at the edge yet only writes the edge. *)
AttemptEdge(w) ==
    /\ sweep[w].pc = "claimed" /\ EdgeOnly(w)
    /\ LET resume == IF sweep[w].row.edgeResume = None
                     THEN now + Refresh(sweep[w].row)
                     ELSE sweep[w].row.edgeResume
       IN  Goto(w, [pc |-> "put", text |-> sweep[w].row.text, at |-> now,
                    until |-> RetryValidUntil(resume)])
    /\ Keeps

Call(w, op) == Goto(w, [pc |-> "store", op |-> op, at |-> now])

(* fetchTranslationSource: the source as it is, or an error.               *)
Fetch(w) ==
    /\ sweep[w].pc = "claimed" /\ ~EdgeOnly(w)
    /\ \/ Goto(w, [pc |-> "fetched", text |-> source])
       \/ Call(w, "fail")
    /\ Keeps

Unchanged(w) == sweep[w].row.text = sweep[w].text

(* The provider translates, unless the source is unchanged, or fails.      *)
Translate(w) ==
    /\ sweep[w].pc = "fetched"
    /\ \/ Goto(w, [pc |-> "store", op |-> "stage", at |-> now,
                   until |-> now + Refresh(sweep[w].row) + Grace])
       \/ ~Unchanged(w) /\ Call(w, "fail")
    /\ Keeps

(* mergeLeaseOwned: reads the row, sees that the lease is still its own,   *)
(* and writes the row it read.                                             *)
Owns_Any(w) == entity.status = "processing"
Owns(w) == entity.status = "processing" /\ entity.lease = w

Free(row) == [row EXCEPT !.lease = None, !.leaseEnds = 0]

Updated(w) ==
    LET s == sweep[w] IN
    CASE s.op = "stage" ->
           [entity EXCEPT !.text = s.text, !.edgePending = TRUE,
                          !.edgeResume = s.at + Refresh(s.row)]
      [] s.op = "fail" ->
           [Free(entity) EXCEPT !.status = "failed", !.next = s.at + Retry]
      [] s.op = "complete" ->
           [Free(entity) EXCEPT !.status = "ready", !.edgePending = FALSE,
                !.next = IF entity.edgeResume = None THEN @
                    ELSE entity.edgeResume,
                !.edgeResume = None]
      [] s.op = "retry" ->
           [Free(entity) EXCEPT !.status = "ready", !.edgePending = TRUE,
                                !.next = s.at + EdgeRetry]

(* An error of the store: the sweep records that the job failed, if it can. *)
Throws_Put(w) == IF sweep[w].op = "stage" THEN Goto(w, [pc |-> "put"])
    ELSE Ends(w)
Throws(w) == IF sweep[w].op = "stage" THEN Call(w, "fail") ELSE Ends(w)

Returns(w) == IF sweep[w].op = "stage" THEN Goto(w, [pc |-> "put"]) ELSE Ends(w)

ReadLease(w) ==
    /\ sweep[w].pc = "store"
    /\ \/ Owns(w) /\ Read(w) /\ Goto(w, [pc |-> "write"])
       \/ ~Owns(w) /\ UNCHANGED current /\ Throws(w)
    /\ UNCHANGED <<entity, since, newest, Others>>

(* The answer of a write may be lost: the row is written, the call throws.  *)
WriteLease(w) ==
    /\ sweep[w].pc = "write" /\ Matches(w)
    /\ Write(Updated(w))
    /\ Returns(w) \/ Throws(w)
    /\ UNCHANGED Others

ConflictLease(w) ==
    /\ sweep[w].pc = "write" /\ ~Matches(w)
    /\ Goto(w, [pc |-> "store"]) \/ Throws(w)
    /\ Keeps

Value(w) == [text |-> sweep[w].text, validUntil |-> sweep[w].until]

Outcome_Ignored(synced) == "complete"
Outcome(synced) == IF synced THEN "complete" ELSE "retry"

(* KvTranslationEdgeCache.put, and what is recorded of it.  A put that      *)
(* throws may have taken effect.                                           *)
PutEdge(w) ==
    /\ sweep[w].pc = "put"
    /\ \E synced \in BOOLEAN :
         /\ edge' \in {Value(w)} \cup (IF synced THEN {} ELSE {edge})
         /\ Goto(w, [pc |-> "store", op |-> Outcome(synced)])
    /\ UNCHANGED <<entity, current, request, source, now, history>>

(* The isolate of a sweep may end at any step.                             *)
Die(w) ==
    /\ sweep[w].pc # "idle"
    /\ Ends(w)
    /\ current' = current \ {w}
    /\ UNCHANGED <<entity, since, newest, Others>>

-----------------------------------------------------------------------------
(* Outside.                                                                *)

Edited ==
    /\ source < MaxSource
    /\ source' = source + 1
    /\ UNCHANGED <<entity, current, edge, sweep, request, now, history>>

Tick ==
    /\ now < MaxTime
    /\ \A w \in Sweeps : sweep[w].pc # "idle" => now < sweep[w].deadline
    /\ now' = now + 1
    /\ UNCHANGED <<entity, current, edge, sweep, request, source, history>>

Next ==
    \/ \E r \in Requests : ReadAccess(r) \/ WriteAccess(r) \/ ConflictAccess(r)
    \/ \E w \in Sweeps :
         \/ List(w) \/ Claim(w) \/ AttemptEdge(w) \/ Fetch(w) \/ Translate(w)
         \/ ReadLease(w) \/ WriteLease(w) \/ ConflictLease(w)
         \/ PutEdge(w) \/ Die(w)
    \/ Edited
    \/ Tick

Spec == Init /\ [][Next]_vars

-----------------------------------------------------------------------------

(* An access is lost only if it is recorded while a sweep has the row      *)
(* listed and not yet claimed: the claim writes back what was listed.      *)
AccessesCounted ==
    Exists => entity.access \in counted - exposed .. counted

(* The text of the table goes back to an older source only when a sweep    *)
(* claims the row that it listed before the newer text: whatever a sweep   *)
(* that lost its lease still does.                                         *)
KeepsNewer ==
    entity'.text < entity.text =>
        \E w \in Sweeps : /\ sweep[w].pc = "listed" /\ entity'.lease = w
                          /\ sweep[w].at <= since

(* The edge never has a text before the table has had it: the table is the *)
(* record, and the edge is only a copy of completed text.                  *)
TableFirst == edge.text <= newest

(* "... which prevents an older Table snapshot from racing with and         *)
(* overwriting a newer scheduled result": unless two sweeps claimed the    *)
(* row that both had listed, the copy at the edge is never replaced by an  *)
(* older one.                                                              *)
EdgeNeverOlder == edge'.text < edge.text => doubled

(* A copy at the edge that is older than the table expires within a        *)
(* refresh after the table got the newer text, and unless two sweeps       *)
(* claimed what both had listed, soon after it, also when the newer copy   *)
(* could not be written.                                                   *)
EdgeExpires ==
    edge.text < entity.text =>
        /\ edge.validUntil <= since + Later(HotRefresh, NormalRefresh) + Grace
        /\ doubled \/ edge.validUntil <= since + EdgeRetry + Grace

(* Text that is not at the edge is on its way: the row still says so, and  *)
(* a sweep will find it, unless two sweeps claimed what both had listed.   *)
EdgeNotForgotten ==
    Exists /\ edge.text < entity.text => entity.edgePending \/ doubled
=============================================================================
