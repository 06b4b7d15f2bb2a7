--------------------------- MODULE MultiplayerRoom ---------------------------
(***************************************************************************)
(* `MultiplayerRoomObject` (src/apps/signaling/room.ts): the durable       *)
(* object that holds the members of one room, relays between them and      *)
(* decides who is its master.                                              *)
(*                                                                         *)
(* The object runs one event at a time and other events wait while it      *)
(* waits for its storage, so a handler is one step.  The exception is the  *)
(* body of a request to close, which may come after its headers.  With     *)
(* Faults a handler may end at any of its writes.  A peer is a socket and  *)
(* the ticket it was opened with: peer ids are fresh for every ticket.     *)
(***************************************************************************)
EXTENDS Integers, FiniteSets, FiniteSetsExt, Functions

CONSTANTS Accounts, Peers, None,
          MaxPeers,    \* members of a room
          Ttl,         \* ROOM_TTL_MS
          Grace,       \* PEER_RECONNECT_GRACE_MS
          MaxTime,     \* bound: the clock
          Faults,      \* storage fails between two writes
          SlowBodies   \* the body of a request comes after its headers

ASSUME RoomAssumption ==
    /\ MaxPeers \in Nat \ {0, 1} /\ Ttl \in Nat \ {0} /\ Grace \in Nat
    /\ MaxTime \in Nat /\ Faults \in BOOLEAN /\ SlowBodies \in BOOLEAN
    /\ None \notin Peers \cup Accounts

VARIABLES room,     \* the stored RoomState, or NoRoom
          alarm,    \* the stored alarm, or Never
          used,     \* the stored `used:` keys
          conn,     \* the sockets: open, closing (an event is due), none
          ticket,   \* the tickets that clients hold
          current,  \* the peers whose last snapshot shows the room as it is
          closer,   \* a request to close whose body has not come
          now

vars == <<room, alarm, used, conn, ticket, current, closer, now>>

Never == -1
Times == 0 .. MaxTime
Member == [status : {"negotiating", "connected"}, gone : Times \cup {Never}]
Joined(status) == [status |-> status, gone |-> Never]
Ticket == [account : Accounts, role : {"master", "member"}]

Members == UNION {[S -> Member] : S \in SUBSET Peers}
Room == [status : {"waiting-master", "open", "closed"},
         account : Accounts, master : Peers \cup {None},
         expires : Times, members : Members]
NoRoom == [status |-> "none"]

TypeOK ==
    /\ room \in Room \cup {NoRoom}
    /\ alarm \in Times \cup {Never}
    /\ used \subseteq Peers /\ current \subseteq Peers
    /\ conn \in [Peers -> {"none", "open", "closing"}]
    /\ ticket \in [Peers -> Ticket \cup {None}]
    /\ closer \in [by : Accounts, room : Room] \cup {None}
    /\ now \in Times

Init ==
    /\ room = NoRoom /\ alarm = Never /\ used = {} /\ current = {}
    /\ conn = [p \in Peers |-> "none"] /\ ticket = [p \in Peers |-> None]
    /\ closer = None /\ now = 0
-----------------------------------------------------------------------------

Live == room.status \in {"waiting-master", "open"}
Peers_(r) == DOMAIN r.members
Open(p) == conn[p] = "open"
MasterIsUp == room.master # None /\ Open(room.master)
Account(p) == ticket[p].account

(* The member, other than the master, with this account.                   *)
Previous(a) == {p \in Peers_(room) \ {room.master} : Account(p) = a}

(* Fault for a mutation run: the master's grace is left out.               *)
Due_Members(r) ==
    {r.expires} \cup {r.members[p].gone + Grace :
        p \in {q \in Peers_(r) \ {r.master} : r.members[q].gone # Never}}

(* When the alarm is needed.                                               *)
Due(r) ==
    {r.expires} \cup {r.members[p].gone + Grace :
        p \in {q \in Peers_(r) : r.members[q].gone # Never}}

(* persist, then scheduleAlarm; the snapshot goes to the peers in `told`.  *)
Commit(r, told) ==
    /\ room' = r
    /\ \/ alarm' = Min(Due(r)) /\ current' = told
       \/ Faults /\ current' = {} /\ UNCHANGED alarm

(* Fault for a mutation run: a snapshot is not sent.                       *)
Persist_Silent(r, told) == room' = r /\ current' = {} /\ UNCHANGED alarm

(* persist and the snapshot alone.                                         *)
Persist(r, told) == room' = r /\ current' = told /\ UNCHANGED alarm

Renegotiating(ms) == [p \in DOMAIN ms |-> [ms[p] EXCEPT !.status = "negotiating"]]

AllClosing == [p \in Peers |-> IF Open(p) THEN "closing" ELSE conn[p]]
OpenIn(c) == {p \in Peers : c[p] = "open"}

(* finishRoom                                                              *)
Finish(r) ==
    \/ /\ room' = NoRoom /\ alarm' = Never /\ used' = {}
       /\ conn' = AllClosing /\ current' = {}
    \/ /\ Faults /\ room' = [r EXCEPT !.status = "closed"]
       /\ \/ /\ current' = OpenIn(conn)
             /\ UNCHANGED <<alarm, used, conn>>
          \/ /\ alarm' = Never /\ conn' = AllClosing /\ current' = {}
             /\ UNCHANGED used
-----------------------------------------------------------------------------

Stale == room # NoRoom /\ (room.status = "closed" \/ room.expires <= now)

NewRoom(a) == [status |-> "waiting-master", account |-> a, master |-> None,
               expires |-> now + Ttl, members |-> <<>>]

(* issueTicket                                                             *)
Issue(a, role) ==
    \E p \in Peers :
        /\ ticket[p] = None
        /\ ticket' = [ticket EXCEPT ![p] = [account |-> a, role |-> role]]

(* admission of a room that does not exist, or is over.                    *)
Create(a) ==
    /\ room = NoRoom \/ Stale
    /\ now + Ttl <= MaxTime
    /\ room' = NewRoom(a) /\ current' = {}
    /\ IF Stale THEN used' = {} /\ conn' = AllClosing
                ELSE UNCHANGED <<used, conn>>
    /\ \/ alarm' = now + Ttl /\ Issue(a, "master")
       \/ /\ Faults /\ alarm' = IF Stale THEN Never ELSE alarm
          /\ UNCHANGED ticket
    /\ UNCHANGED <<closer, now>>

(* ... when it must not be created.                                        *)
AdmitNobody ==
    /\ Stale
    /\ Finish(room)
    /\ UNCHANGED <<ticket, closer, now>>

HasPlace(a) ==
    Previous(a) # {} \/ Cardinality(Peers_(room)) < MaxPeers

(* Fault for a mutation run: admission reserves nothing, and connect       *)
(* relies on it.                                                           *)
MemberMayJoin_NoCapacity(a) == room.status = "open" /\ MasterIsUp

MemberMayJoin(a) == room.status = "open" /\ MasterIsUp /\ HasPlace(a)

AdmitMaster(a) ==
    /\ Live /\ ~Stale /\ a = room.account
    /\ Issue(a, "master")
    /\ UNCHANGED <<room, alarm, used, conn, current, closer, now>>

AdmitMember(a) ==
    /\ Live /\ ~Stale /\ a # room.account
    /\ room.status = "open" /\ MasterIsUp /\ HasPlace(a)
    /\ Issue(a, "member")
    /\ UNCHANGED <<room, alarm, used, conn, current, closer, now>>
-----------------------------------------------------------------------------

Without(ms, S) == Restrict(ms, DOMAIN ms \ S)

(* Fault for a mutation run: the status of the room.                       *)
With_Open(ms, p, status) ==
    [q \in DOMAIN ms \cup {p} |-> IF q = p THEN Joined("open") ELSE ms[q]]

With(ms, p, status) ==
    [q \in DOMAIN ms \cup {p} |-> IF q = p THEN Joined(status) ELSE ms[q]]

(* Fault for a mutation run: the member's earlier record stays.            *)
Replaced_None(p) ==
    IF ticket[p].role = "master" THEN {room.master} \ {None} ELSE {}

(* The records that a new socket of the same account replaces.             *)
Replaced(p) ==
    IF ticket[p].role = "master" THEN {room.master} \ {None}
                                 ELSE Previous(Account(p))

(* joinRoom                                                                *)
Entered(p) ==
    LET ms == Without(room.members, Replaced(p) \ {p}) IN
    IF ticket[p].role = "master"
    THEN [room EXCEPT !.status = "open", !.master = p,
                      !.account = Account(p),
                      !.members = With(Renegotiating(ms), p, "connected")]
    ELSE [room EXCEPT !.members = With(ms, p, "negotiating")]

(* Fault for a mutation run: the sockets that are replaced stay open.      *)
Sockets_Keep(p, c) == [conn EXCEPT ![p] = c]

Sockets(p, c) ==
    [q \in Peers |-> IF q = p THEN c
                     ELSE IF q \in Replaced(p) /\ Open(q) THEN "closing"
                     ELSE conn[q]]

(* connect and joinRoom.  The client may be gone when they end.            *)
Connect(p) ==
    /\ Live /\ room.expires > now
    /\ conn[p] = "none" /\ ticket[p] # None /\ p \notin used
    /\ ticket[p].role = "master" <=> Account(p) = room.account
    /\ ticket[p].role = "member" => MemberMayJoin(Account(p))
    /\ used' = used \cup {p}
    /\ \/ /\ conn' = Sockets(p, "open")
          /\ Commit(Entered(p), OpenIn(conn'))
       \/ /\ conn' = Sockets(p, "closing")
          /\ Commit(Entered(p), {})
       \/ /\ Faults
          /\ conn' = Sockets(p, "open")
          /\ UNCHANGED <<room, alarm, current>>
    /\ UNCHANGED <<ticket, closer, now>>
-----------------------------------------------------------------------------

(* A socket that closed may still deliver what its client had sent.        *)
CanSend(p) == conn[p] # "none"

RtcState(p, status) ==
    /\ CanSend(p) /\ Live /\ p \in Peers_(room)
    /\ p # room.master /\ room.members[p].status # status
    /\ Persist([room EXCEPT !.members[p].status = status], OpenIn(conn))
    /\ UNCHANGED <<used, conn, ticket, closer, now>>

(* Fault for a mutation run: the target may be away.                       *)
MayLead_Anyone(q) == TRUE

MayLead(q) == room.members[q].status = "connected" /\ Open(q)

(* transferMaster                                                          *)
TransferMaster(p, q) ==
    /\ CanSend(p) /\ Live /\ p = room.master /\ p \in Peers_(room)
    /\ q \in Peers_(room) \ {p} /\ MayLead(q)
    /\ Persist([room EXCEPT
           !.status = "open", !.master = q, !.account = Account(q),
           !.members = [Renegotiating(@) EXCEPT ![q].status = "connected"]],
           OpenIn(conn))
    /\ UNCHANGED <<used, conn, ticket, closer, now>>

(* removeMember                                                            *)
RemoveMember(p, q) ==
    /\ CanSend(p) /\ Live /\ p = room.master /\ p \in Peers_(room)
    /\ q \in Peers_(room) \ {p}
    /\ conn' = [conn EXCEPT ![q] = IF Open(q) THEN "closing" ELSE @]
    /\ Persist([room EXCEPT !.members = Without(@, {q})], OpenIn(conn'))
    /\ UNCHANGED <<used, ticket, closer, now>>

(* A message to a room that is over closes the socket.                     *)
SendTooLate(p) ==
    /\ Open(p) /\ ~Live
    /\ conn' = [conn EXCEPT ![p] = "closing"]
    /\ UNCHANGED <<room, alarm, used, ticket, current, closer, now>>

(* The client closes the socket or is lost, or webSocketMessage and        *)
(* webSocketError close it.                                                *)
Leave(p) ==
    /\ Open(p)
    /\ conn' = [conn EXCEPT ![p] = "closing"]
    /\ UNCHANGED <<room, alarm, used, ticket, current, closer, now>>

(* Fault for a mutation run: the room stays open when its master leaves.   *)
Left_Open(p) ==
    [room EXCEPT !.members[p] = [status |-> "negotiating", gone |-> now]]

Left(p) ==
    LET r == [room EXCEPT !.members[p] = [status |-> "negotiating",
                                          gone |-> now]] IN
    IF p = room.master
    THEN [r EXCEPT !.status = "waiting-master",
                   !.members = Renegotiating(@)]
    ELSE r

(* webSocketClose                                                          *)
SocketClosed(p) ==
    /\ conn[p] = "closing"
    /\ conn' = [conn EXCEPT ![p] = "none"]
    /\ IF Live /\ p \in Peers_(room)
       THEN Commit(Left(p), OpenIn(conn'))
       ELSE UNCHANGED <<room, alarm, current>>
    /\ UNCHANGED <<used, ticket, closer, now>>
-----------------------------------------------------------------------------

Gone(p) == room.members[p].gone # Never
Overdue(p) == Gone(p) /\ room.members[p].gone + Grace <= now

(* What ends the room in alarm.                                            *)
Over ==
    \/ room.expires <= now
    \/ room.master \in Peers_(room) /\ Overdue(room.master)
    \/ /\ room.status = "waiting-master"
       /\ room.master \notin Peers_(room) \/ ~Gone(room.master)

(* Fault for a mutation run: the alarm is not set again.                   *)
Swept_Once(r) == room' = r /\ alarm' = Never /\ current' = OpenIn(conn)

(* The rest of alarm, when members are dropped or nobody is due.           *)
Swept(r) ==
    /\ room' = r
    /\ \/ alarm' = Min(Due(r))
       \/ Faults /\ UNCHANGED alarm
    /\ current' = IF r = room THEN current ELSE OpenIn(conn)

(* alarm.  One that fails is run again.                                    *)
Alarm ==
    /\ alarm # Never /\ alarm <= now
    /\ IF ~Live
       THEN alarm' = Never /\ UNCHANGED <<room, used, conn, current>>
       ELSE IF Over
       THEN Finish(room)
       ELSE /\ Swept([room EXCEPT !.members =
                          Without(@, {p \in Peers_(room) : Overdue(p)})])
            /\ UNCHANGED <<used, conn>>
    /\ UNCHANGED <<ticket, closer, now>>

(* closeRoom reads the room, ...                                           *)
CloseRequest(a) ==
    /\ SlowBodies /\ closer = None /\ room # NoRoom
    /\ closer' = [by |-> a, room |-> room]
    /\ UNCHANGED <<room, alarm, used, conn, ticket, current, now>>

(* ... waits for the body and closes what it had read.                     *)
CloseBody ==
    /\ closer # None
    /\ IF closer.by = closer.room.account
       THEN Finish(closer.room)
       ELSE UNCHANGED <<room, alarm, used, conn, current>>
    /\ closer' = None
    /\ UNCHANGED <<ticket, now>>

(* The body came with the headers.                                         *)
CloseAtOnce ==
    /\ room # NoRoom
    /\ Finish(room)
    /\ UNCHANGED <<ticket, closer, now>>

(* A ticket is not used for five minutes: another client gets a new one.   *)
TicketLapses(p) ==
    /\ ticket[p] # None /\ conn[p] = "none"
    /\ room # NoRoom => p \notin Peers_(room)
    /\ closer = None
    /\ ticket' = [ticket EXCEPT ![p] = None]
    /\ used' = used \ {p}
    /\ UNCHANGED <<room, alarm, conn, current, closer, now>>

Tick ==
    /\ now < MaxTime
    /\ now' = now + 1
    /\ UNCHANGED <<room, alarm, used, conn, ticket, current, closer>>

Next ==
    \/ \E a \in Accounts :
          Create(a) \/ AdmitMaster(a) \/ AdmitMember(a) \/ CloseRequest(a)
    \/ \E p \in Peers :
          \/ Connect(p) \/ Leave(p) \/ SocketClosed(p) \/ SendTooLate(p)
          \/ TicketLapses(p)
          \/ \E s \in {"negotiating", "connected"} : RtcState(p, s)
          \/ \E q \in Peers : TransferMaster(p, q) \/ RemoveMember(p, q)
    \/ AdmitNobody \/ Alarm \/ CloseBody \/ CloseAtOnce \/ Tick

Spec == Init /\ [][Next]_vars

(* The clock moves, the runtime runs an alarm that is due and delivers the *)
(* event of a socket that closed.                                          *)
FairSpec ==
    /\ Spec /\ WF_vars(Tick) /\ WF_vars(Alarm)
    /\ \A p \in Peers : WF_vars(SocketClosed(p))
-----------------------------------------------------------------------------

(* An account is in a room once: a socket it opens takes the place of the  *)
(* one it had, also when the account became master or stopped being it     *)
(* between its ticket and its connection.                                  *)
OnePerAccount ==
    room # NoRoom =>
        \A p, q \in Peers_(room) : Account(p) = Account(q) => p = q

(* Members that were admitted together do not fill the room beyond its     *)
(* size, and neither does a master who reconnects.                         *)
WithinCapacity ==
    room # NoRoom => Cardinality(Peers_(room)) <= MaxPeers

(* The master is a member, has the master's account, and is away exactly   *)
(* when the room waits for it: joins, transfers, closes and sweeps agree.  *)
MasterIsMember ==
    Live =>
        IF room.master = None
        THEN room.status = "waiting-master" /\ Peers_(room) = {}
        ELSE /\ room.master \in Peers_(room)
             /\ Account(room.master) = room.account
             /\ Gone(room.master) <=> room.status = "waiting-master"

(* What holds of a room also when its storage fails between two writes:    *)
(* an account has one seat, the room no more than it has places for, and   *)
(* the master is a member.                                                 *)
RoomInv == TypeOK /\ OnePerAccount /\ WithinCapacity /\ MasterIsMember

(* While a room exists its alarm is set, and for no later than it expires  *)
(* or the first member who is away runs out of time.                       *)
AlarmCovers ==
    Live => /\ alarm # Never /\ alarm <= room.expires
            /\ \A p \in Peers_(room) :
                  Gone(p) => alarm <= room.members[p].gone + Grace

(* A socket that is open belongs to a member, and a member who is not      *)
(* counted as away has a socket, or the event of its close is still due:   *)
(* otherwise nobody would ever remove it.                                  *)
SocketsAreMembers ==
    /\ \A p \in Peers : Open(p) => Live /\ p \in Peers_(room)
    /\ Live => \A p \in Peers_(room) : ~Gone(p) => conn[p] # "none"

(* Every client that is connected has been sent the room as it is, unless  *)
(* a socket broke and the room has not heard of it.                        *)
EveryoneSeesTheRoom ==
    (\A p \in Peers : Open(p) => p \in current) \/
    (\E p \in Peers : conn[p] = "closing")

(* What holds of a room while its storage does not fail: the alarm covers  *)
(* it, its sockets are its members', and they have seen it.                *)
SteadyInv == AlarmCovers /\ SocketsAreMembers /\ EveryoneSeesTheRoom

(* A member who lost the connection is dropped or replaced, or the room    *)
(* ends: no place in the room is kept for ever.                            *)
GoneIsDropped ==
    \A p \in Peers :
        (Live /\ p \in Peers_(room) /\ Gone(p)) ~>
            ~(Live /\ p \in Peers_(room) /\ Gone(p))

(* No room outlives its time, however its members come and go.             *)
RoomEnds == \A t \in Times :
    (room # NoRoom /\ room.expires = t) ~> ~(room # NoRoom /\ room.expires = t)

(* "Only the current room master can close the room"                       *)
(* (src/src/routes/multiplayer.ts): a request closes a room only if it is  *)
(* from the account that is master when the room closes.                   *)
ClosedByMaster ==
    [][CloseBody /\ room # NoRoom /\ room' = NoRoom
           => closer.by = room.account]_vars
=============================================================================
