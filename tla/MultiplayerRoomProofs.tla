------------------------ MODULE MultiplayerRoomProofs ------------------------
(***************************************************************************)
(* What holds of a room for every number of accounts and peers.            *)
(*                                                                         *)
(* RoomHolds: an account has one seat, the room no more than it has places *)
(* for, and its master is a member, also when the storage fails between    *)
(* two writes and when the body of a request to close is late.             *)
(* SteadyRoom: while the storage does not fail and bodies are not late,    *)
(* the alarm covers every member who is away, sockets are members', and    *)
(* who is connected has the room as it is.                                 *)
(*                                                                         *)
(* And of the meter of relayed bytes.  BytesAreChargedOnce: each byte is   *)
(* charged once at most, and none is forgotten of those that were relayed  *)
(* after the minute of the issue and before the issuance expired.          *)
(***************************************************************************)
EXTENDS MCEdge, FiniteSetTheorems, TLAPS

(* The members of r: who they are does not change under their tickets.     *)
Seated(r, tk) ==
    /\ IsFiniteSet(Peers_(r)) /\ Cardinality(Peers_(r)) <= MaxPeers
    /\ \A p, q \in Peers_(r) :
          tk[p] # None /\ (tk[p].account = tk[q].account => p = q)

(* The master of a room that is not closed.                                *)
Led(r, tk) ==
    r.status # "closed" =>
        IF r.master = None
        THEN r.status = "waiting-master" /\ Peers_(r) = {}
        ELSE /\ r.master \in Peers_(r) /\ tk[r.master].account = r.account
             /\ (r.members[r.master].gone # Never) <=> r.status = "waiting-master"

(* A ticket that seated a member is used, and who is away has no socket.   *)
Absent(r, u, c) ==
    r.status # "closed" =>
        /\ Peers_(r) \subseteq u
        /\ \A p \in Peers_(r) : r.members[p].gone # Never => c[p] = "none"

(* The room a request to close had read may be written back, closed.       *)
Agreement ==
    /\ TypeOK
    /\ room # NoRoom =>
          Seated(room, ticket) /\ Led(room, ticket) /\ Absent(room, used, conn)
    /\ closer # None => Seated(closer.room, ticket)
-----------------------------------------------------------------------------

(* A set of natural numbers has a least one, and that is its Min.          *)
LEMMA LeastOf ==
    ASSUME NEW S \in SUBSET Nat, S # {}
    PROVE  Min(S) \in S /\ \A t \in S : Min(S) <= t
<1> DEFINE Upto(x) == {n \in Nat : n < x}
           Sets == {Upto(x) : x \in S}
<1>1. \A x \in Nat : IsFiniteSet(Upto(x))
  <2> TAKE x \in Nat
  <2>1. Upto(x) \subseteq 0 .. x
    BY SMT
  <2>0. 0 \in Int /\ x \in Int
    BY SMT
  <2>2. IsFiniteSet(0 .. x)
    BY <2>0, FS_Interval, Zenon
  <2> QED BY <2>1, <2>2, FS_Subset, Zenon
<1>2. Sets \subseteq FiniteSubsetsOf(Nat) /\ Sets # {}
  BY <1>1, Zenon DEF FiniteSubsetsOf
<1>3. PICK T \in Sets : \A U \in Sets : <<U, T>> \notin StrictSubsetOrdering(Nat)
  <2> HIDE DEF Sets
  <2>1. IsWellFoundedOn(StrictSubsetOrdering(Nat), FiniteSubsetsOf(Nat))
    BY FS_StrictSubsetOrderingWellFounded, Zenon
  <2> QED BY <1>2, <2>1, WFMin, Zenon
<1>4. PICK x \in S : T = Upto(x)
  BY <1>3, Zenon
<1>5. \A y \in S : x <= y
  <2> SUFFICES ASSUME NEW y \in S, y < x
               PROVE  FALSE
    BY SMT
  <2>1. Upto(y) \subseteq Upto(x) /\ y \in Upto(x) /\ y \notin Upto(y)
    BY SMT
  <2>2. <<Upto(y), T>> \in StrictSubsetOrdering(Nat)
    <3>1. Upto(y) \in SUBSET Nat /\ T \in SUBSET Nat
      BY <1>4, Zenon
    <3>2. Upto(y) \subseteq T /\ Upto(y) # T
      BY <2>1, <1>4, Zenon
    <3> DEFINE V == Upto(y)
    <3>3. V \in SUBSET Nat /\ V \subseteq T /\ V # T
      BY <3>1, <3>2, Zenon
    <3> HIDE DEF V, Upto
    <3>4. <<V, T>> \in (SUBSET Nat) \X (SUBSET Nat)
      BY <3>1, <3>3, Zenon
    <3>5. <<V, T>>[1] = V /\ <<V, T>>[2] = T
      BY SMT
    <3>6. <<V, T>> \in StrictSubsetOrdering(Nat)
      BY <3>3, <3>4, <3>5, Zenon DEF StrictSubsetOrdering
    <3> QED BY <3>6, Zenon DEF V
  <2>3. Upto(y) \in Sets
    BY Zenon
  <2> QED BY <2>2, <2>3, <1>3, Zenon
<1> HIDE DEF Upto, Sets
<1>6. \E m \in S : \A y \in S : m <= y
  BY <1>5, Zenon
<1> QED BY <1>6, Zenon DEF Min
-----------------------------------------------------------------------------

LEMMA MembersType ==
    \A f : f \in Members <=> f \in [DOMAIN f -> Member] /\ DOMAIN f \subseteq Peers
<1> SUFFICES ASSUME NEW f
             PROVE  f \in Members <=>
                        f \in [DOMAIN f -> Member] /\ DOMAIN f \subseteq Peers
  BY Zenon
<1>1. f \in Members <=> \E S \in SUBSET Peers : f \in [S -> Member]
  BY Zenon DEF Members
<1>2. \A S : f \in [S -> Member] => DOMAIN f = S
  BY Zenon
<1> QED BY <1>1, <1>2, Zenon

LEMMA MemberIs ==
    \A m \in Member : /\ m.status \in {"negotiating", "connected"}
                      /\ m.gone \in Times \cup {Never}
BY DEF Member

LEMMA NewMember ==
    ASSUME NEW s \in {"negotiating", "connected"}, NEW t \in Times \cup {Never}
    PROVE  [status |-> s, gone |-> t] \in Member
BY DEF Member

LEMMA WithoutType ==
    ASSUME NEW ms \in Members, NEW S
    PROVE  /\ Without(ms, S) \in Members
           /\ DOMAIN Without(ms, S) = DOMAIN ms \ S
           /\ \A q \in DOMAIN ms \ S : Without(ms, S)[q] = ms[q]
<1>1. ms \in [DOMAIN ms -> Member] /\ DOMAIN ms \subseteq Peers
  BY MembersType, Zenon
<1> DEFINE f == Without(ms, S)
<1>2. f = [q \in DOMAIN ms \ S |-> ms[q]]
  BY Zenon DEF Without, Restrict
<1> HIDE DEF f
<1>3. DOMAIN f = DOMAIN ms \ S /\ f \in [DOMAIN ms \ S -> Member]
  BY <1>1, <1>2, Zenon
<1>4. f \in Members
  BY <1>1, <1>3, MembersType, Zenon
<1> QED BY <1>2, <1>3, <1>4, Zenon DEF f

LEMMA WithType ==
    ASSUME NEW ms \in Members, NEW p \in Peers,
           NEW s \in {"negotiating", "connected"}
    PROVE  /\ With(ms, p, s) \in Members
           /\ DOMAIN With(ms, p, s) = DOMAIN ms \cup {p}
           /\ With(ms, p, s)[p].gone = Never
           /\ \A q \in DOMAIN ms : q # p => With(ms, p, s)[q] = ms[q]
<1>1. ms \in [DOMAIN ms -> Member] /\ DOMAIN ms \subseteq Peers
  BY MembersType, Zenon
<1>2. Joined(s) \in Member /\ Joined(s).gone = Never
  BY NewMember DEF Joined
<1> DEFINE f == With(ms, p, s)
<1>3. f = [q \in DOMAIN ms \cup {p} |-> IF q = p THEN Joined(s) ELSE ms[q]]
  BY Zenon DEF With
<1> HIDE DEF f
<1>4. DOMAIN f = DOMAIN ms \cup {p} /\ f \in [DOMAIN ms \cup {p} -> Member]
  BY <1>1, <1>2, <1>3, Zenon
<1>5. f[p] = Joined(s) /\ \A q \in DOMAIN ms : q # p => f[q] = ms[q]
  BY <1>3, Zenon
<1>6. f \in Members
  BY <1>1, <1>4, MembersType, Zenon
<1> QED BY <1>2, <1>4, <1>5, <1>6, Zenon DEF f

LEMMA RenegotiatingType ==
    ASSUME NEW ms \in Members
    PROVE  /\ Renegotiating(ms) \in Members
           /\ DOMAIN Renegotiating(ms) = DOMAIN ms
           /\ \A q \in DOMAIN ms : Renegotiating(ms)[q].gone = ms[q].gone
<1>1. ms \in [DOMAIN ms -> Member] /\ DOMAIN ms \subseteq Peers
  BY MembersType, Zenon
<1> DEFINE f == Renegotiating(ms)
<1>2. f = [q \in DOMAIN ms |-> [ms[q] EXCEPT !.status = "negotiating"]]
  BY Zenon DEF Renegotiating
<1>3. \A m \in Member : /\ [m EXCEPT !.status = "negotiating"] \in Member
                        /\ [m EXCEPT !.status = "negotiating"].gone = m.gone
  BY DEF Member
<1> HIDE DEF f
<1>4. DOMAIN f = DOMAIN ms /\ f \in [DOMAIN ms -> Member]
  BY <1>1, <1>2, <1>3, Zenon
<1>5. \A q \in DOMAIN ms : f[q].gone = ms[q].gone
  BY <1>1, <1>2, <1>3, Zenon
<1>6. f \in Members
  BY <1>1, <1>4, MembersType, Zenon
<1> QED BY <1>4, <1>5, <1>6, Zenon DEF f

(* One member's record is replaced.                                        *)
LEMMA ExceptType ==
    ASSUME NEW ms \in Members, NEW p \in DOMAIN ms, NEW m \in Member
    PROVE  /\ [ms EXCEPT ![p] = m] \in Members
           /\ DOMAIN [ms EXCEPT ![p] = m] = DOMAIN ms
           /\ [ms EXCEPT ![p] = m][p] = m
           /\ \A q \in DOMAIN ms : q # p => [ms EXCEPT ![p] = m][q] = ms[q]
<1>1. ms \in [DOMAIN ms -> Member] /\ DOMAIN ms \subseteq Peers
  BY MembersType, Zenon
<1> DEFINE f == [ms EXCEPT ![p] = m]
<1>2. /\ DOMAIN f = DOMAIN ms /\ f \in [DOMAIN ms -> Member] /\ f[p] = m
      /\ \A q \in DOMAIN ms : q # p => f[q] = ms[q]
  BY <1>1, Zenon
<1> HIDE DEF f
<1>3. f \in Members
  BY <1>1, <1>2, MembersType, Zenon
<1> QED BY <1>2, <1>3, Zenon DEF f
-----------------------------------------------------------------------------

LEMMA RoomIs ==
    \A r \in Room : /\ r.status \in {"waiting-master", "open", "closed"}
                    /\ r.account \in Accounts /\ r.master \in Peers \cup {None}
                    /\ r.expires \in Times /\ r.members \in Members
                    /\ r # NoRoom
<1> SUFFICES ASSUME NEW r \in Room
             PROVE  /\ r.status \in {"waiting-master", "open", "closed"}
                    /\ r.account \in Accounts /\ r.master \in Peers \cup {None}
                    /\ r.expires \in Times /\ r.members \in Members
                    /\ r # NoRoom
  BY Zenon
<1>1. NoRoom.status = "none"
  BY DEF NoRoom
<1>2. /\ r.status \in {"waiting-master", "open", "closed"}
      /\ r.account \in Accounts /\ r.master \in Peers \cup {None}
      /\ r.expires \in Times /\ r.members \in Members
  BY DEF Room
<1>3. r.status # "none"
  BY <1>2, SMT
<1> QED BY <1>1, <1>2, <1>3, Zenon

LEMMA Refilled ==
    ASSUME NEW r \in Room, NEW ms \in Members
    PROVE  /\ [r EXCEPT !.members = ms] \in Room
           /\ [r EXCEPT !.members = ms].status = r.status
           /\ [r EXCEPT !.members = ms].account = r.account
           /\ [r EXCEPT !.members = ms].master = r.master
           /\ [r EXCEPT !.members = ms].expires = r.expires
           /\ [r EXCEPT !.members = ms].members = ms
BY DEF Room

LEMMA Closed ==
    ASSUME NEW r \in Room, NEW n, n = [r EXCEPT !.status = "closed"]
    PROVE  n \in Room /\ n.status = "closed" /\ n.members = r.members
BY DEF Room

LEMMA Live_ ==
    ASSUME TypeOK
    PROVE  /\ Live => room \in Room /\ room # NoRoom /\ room.status # "closed"
           /\ room # NoRoom => room \in Room
<1>1. NoRoom.status = "none"
  BY DEF NoRoom
<1>2. room \in Room \cup {NoRoom}
  BY Zenon DEF TypeOK
<1>3. Live => room # NoRoom /\ room.status # "closed"
  BY <1>1, SMT DEF Live
<1> QED BY <1>2, <1>3, Zenon

(* Members who leave take no seat.                                         *)
LEMMA SeatedFewer ==
    ASSUME NEW r, NEW n, NEW tk, Seated(r, tk), Peers_(n) \subseteq Peers_(r)
    PROVE  Seated(n, tk)
<1>1. IsFiniteSet(Peers_(r)) /\ Cardinality(Peers_(r)) <= MaxPeers
  BY Zenon DEF Seated
<1>2. IsFiniteSet(Peers_(n)) /\ Cardinality(Peers_(n)) <= Cardinality(Peers_(r))
  BY <1>1, FS_Subset, Zenon
<1>3. Cardinality(Peers_(n)) \in Nat /\ Cardinality(Peers_(r)) \in Nat
  BY <1>1, <1>2, FS_CardinalityType, Zenon
<1>4. Cardinality(Peers_(n)) <= MaxPeers
  BY <1>1, <1>2, <1>3, RoomAssumption, SMT
<1> QED BY <1>2, <1>4, Zenon DEF Seated

(* A member of the account of p, if there is one, gives its seat to p.     *)
LEMMA SeatedOneMore ==
    ASSUME NEW r, NEW n, NEW tk, Seated(r, tk), NEW p, NEW S,
           Peers_(n) = (Peers_(r) \ S) \cup {p}, p \notin S, tk[p] # None,
           \A q \in Peers_(r) : tk[q].account = tk[p].account => q \in S \cup {p},
           \/ S \cap Peers_(r) # {}
           \/ p \in Peers_(r)
           \/ Cardinality(Peers_(r)) < MaxPeers
    PROVE  Seated(n, tk)
<1> DEFINE D == Peers_(r)
           E == D \ S
<1>1. /\ IsFiniteSet(D) /\ Cardinality(D) <= MaxPeers /\ Cardinality(D) \in Nat
      /\ \A a, b \in D : tk[a] # None /\ (tk[a].account = tk[b].account => a = b)
  BY FS_CardinalityType, Zenon DEF Seated
<1>2. IsFiniteSet(E) /\ Cardinality(E) <= Cardinality(D) /\ Cardinality(E) \in Nat
  <2>1. E \subseteq D
    BY Zenon
  <2> HIDE DEF D, E
  <2> QED BY <2>1, <1>1, FS_Subset, FS_CardinalityType, Zenon
<1>3. Cardinality(E) < Cardinality(D) \/ p \in E \/ Cardinality(D) < MaxPeers
  <2>1. CASE S \cap D # {}
    <3>1. PICK s \in S : s \in D
      BY <2>1, Zenon
    <3>2. IsFiniteSet(D \ {s}) /\ Cardinality(D \ {s}) = Cardinality(D) - 1
      BY <1>1, <3>1, FS_RemoveElement, Zenon
    <3>3. E \subseteq D \ {s}
      BY <3>1, Zenon
    <3> HIDE DEF D, E
    <3>4. Cardinality(E) <= Cardinality(D \ {s})
      BY <3>2, <3>3, FS_Subset, Zenon
    <3> QED BY <3>2, <3>4, <1>1, <1>2, SMT
  <2>2. CASE p \in D
    BY <2>2, Zenon
  <2>3. CASE Cardinality(D) < MaxPeers
    BY <2>3, Zenon
  <2> QED BY <2>1, <2>2, <2>3, Zenon
<1>4. Peers_(n) = E \cup {p}
  BY Zenon
<1> HIDE DEF D, E
<1>5. /\ IsFiniteSet(E \cup {p})
      /\ Cardinality(E \cup {p}) = IF p \in E THEN Cardinality(E)
                                              ELSE Cardinality(E) + 1
  BY <1>2, FS_AddElement, Zenon
<1>6. Cardinality(E \cup {p}) <= MaxPeers
  BY <1>1, <1>2, <1>3, <1>5, RoomAssumption, SMT
<1>7. \A a, b \in E \cup {p} : tk[a] # None /\ (tk[a].account = tk[b].account => a = b)
  BY <1>1, Zenon DEF D, E
<1> QED BY <1>4, <1>5, <1>6, <1>7, Zenon DEF Seated
-----------------------------------------------------------------------------

(* When the alarm is needed: it covers the room and who is away.           *)
LEMMA DueLeast ==
    ASSUME NEW r \in Room
    PROVE  /\ Min(Due(r)) \in Times /\ Min(Due(r)) <= r.expires
           /\ \A p \in Peers_(r) :
                 r.members[p].gone # Never => Min(Due(r)) <= r.members[p].gone + Grace
<1>1. r.expires \in Times /\ r.members \in [Peers_(r) -> Member]
  BY RoomIs, MembersType, Zenon DEF Peers_
<1>2. \A p \in Peers_(r) : r.members[p].gone \in Times \cup {Never}
  BY <1>1, MemberIs, Zenon
<1>3. Due(r) \in SUBSET Nat
  <2>1. r.expires \in Nat
    BY <1>1, RoomAssumption, SMT DEF Times
  <2>2. \A p \in Peers_(r) :
            r.members[p].gone # Never => r.members[p].gone + Grace \in Nat
    BY <1>2, RoomAssumption, SMT DEF Times
  <2> QED BY <2>1, <2>2, Zenon DEF Due
<1>4. r.expires \in Due(r)
  BY Zenon DEF Due
<1>5. Min(Due(r)) \in Due(r) /\ \A t \in Due(r) : Min(Due(r)) <= t
  <2>1. Due(r) # {}
    BY <1>4, Zenon
  <2> QED BY <2>1, <1>3, LeastOf, Zenon
<1>6. Min(Due(r)) \in Nat /\ Min(Due(r)) <= r.expires
  BY <1>3, <1>4, <1>5, Zenon
<1>7. Min(Due(r)) \in Times
  BY <1>1, <1>6, RoomAssumption, SMT DEF Times
<1>8. \A p \in Peers_(r) :
          r.members[p].gone # Never => r.members[p].gone + Grace \in Due(r)
  BY Zenon DEF Due
<1> QED BY <1>5, <1>6, <1>7, <1>8, Zenon

LEMMA CommitType ==
    ASSUME TypeOK, NEW r \in Room, NEW told \in SUBSET Peers, Commit(r, told)
    PROVE  room' = r /\ alarm' \in Times \cup {Never} /\ current' \in SUBSET Peers
<1>1. CASE alarm' = Min(Due(r)) /\ current' = told
  BY <1>1, DueLeast, Zenon DEF Commit
<1>2. CASE current' = {} /\ UNCHANGED alarm
  BY <1>2, Zenon DEF Commit, TypeOK
<1> QED BY <1>1, <1>2, Zenon DEF Commit

LEMMA SocketsType ==
    ASSUME TypeOK
    PROVE  /\ AllClosing \in [Peers -> {"none", "open", "closing"}]
           /\ OpenIn(conn) \in SUBSET Peers /\ OpenIn(conn') \in SUBSET Peers
           /\ \A p \in Peers, c \in {"open", "closing"} :
                 /\ Sockets(p, c) \in [Peers -> {"none", "open", "closing"}]
                 /\ \A q \in Peers \ {p} : conn[q] = "none" => Sockets(p, c)[q] = "none"
<1>1. conn \in [Peers -> {"none", "open", "closing"}]
  BY Zenon DEF TypeOK
<1>2. OpenIn(conn) \in SUBSET Peers /\ OpenIn(conn') \in SUBSET Peers
  BY Zenon DEF OpenIn
<1>3. AllClosing \in [Peers -> {"none", "open", "closing"}]
  BY <1>1, Zenon DEF AllClosing
<1>4. ASSUME NEW p \in Peers, NEW c \in {"open", "closing"}
      PROVE  /\ Sockets(p, c) \in [Peers -> {"none", "open", "closing"}]
             /\ \A q \in Peers \ {p} : conn[q] = "none" => Sockets(p, c)[q] = "none"
  <2>1. Sockets(p, c) \in [Peers -> {"none", "open", "closing"}]
    BY <1>1, SMT DEF Sockets
  <2>2. ASSUME NEW q \in Peers \ {p}, conn[q] = "none"
        PROVE  Sockets(p, c)[q] = "none"
    <3>1. q \in Peers /\ q # p
      BY Zenon
    <3>2. ~Open(q)
      BY <2>2, SMT DEF Open
    <3> QED BY <2>2, <3>1, <3>2, Zenon DEF Sockets
  <2> QED BY <2>1, <2>2, Zenon
<1> QED BY <1>2, <1>3, <1>4, Zenon

(* A step that writes a room.                                              *)
LEMMA Rewritten ==
    ASSUME Agreement, UNCHANGED <<ticket, closer, now>>,
           room' \in Room, alarm' \in Times \cup {Never},
           used' \in SUBSET Peers, current' \in SUBSET Peers,
           conn' \in [Peers -> {"none", "open", "closing"}],
           Seated(room', ticket), Led(room', ticket), Absent(room', used', conn')
    PROVE  Agreement'
<1>1. ticket' = ticket /\ closer' = closer /\ now' = now
  BY Zenon
<1>2. TypeOK'
  BY <1>1, Zenon DEF Agreement, TypeOK
<1>3. room' # NoRoom => Seated(room', ticket') /\ Led(room', ticket')
                            /\ Absent(room', used', conn')
  BY <1>1, Zenon
<1>4. closer' # None => Seated(closer'.room, ticket')
  BY <1>1, Zenon DEF Agreement
<1> QED BY <1>2, <1>3, <1>4, Zenon DEF Agreement

(* finishRoom, of the room or of what a request to close had read.         *)
LEMMA FinishStep ==
    ASSUME Agreement, NEW r \in Room, Seated(r, ticket), Finish(r),
           UNCHANGED <<ticket, now>>, closer' \in {closer, None}
    PROVE  Agreement'
<1>1. ticket' = ticket /\ now' = now /\ TypeOK
  BY Zenon DEF Agreement
<1>2. closer' \in [by : Accounts, room : Room] \cup {None}
  BY <1>1, Zenon DEF TypeOK
<1>3. closer' # None => Seated(closer'.room, ticket')
  BY <1>1, Zenon DEF Agreement
<1>4. CASE /\ room' = NoRoom /\ alarm' = Never /\ used' = {}
           /\ conn' = AllClosing /\ current' = {}
  <2>1. TypeOK'
    BY <1>1, <1>2, <1>4, SocketsType, Zenon DEF TypeOK
  <2> QED BY <2>1, <1>3, <1>4, Zenon DEF Agreement
<1>5. CASE /\ room' = [r EXCEPT !.status = "closed"]
           /\ \/ /\ current' = OpenIn(conn)
                 /\ UNCHANGED <<alarm, used, conn>>
              \/ /\ alarm' = Never /\ conn' = AllClosing /\ current' = {}
                 /\ UNCHANGED used
  <2>1. room' \in Room /\ room'.status = "closed" /\ room'.members = r.members
    BY <1>5, Closed, Zenon
  <2>2. TypeOK'
    BY <1>1, <1>2, <1>5, <2>1, SocketsType, Zenon DEF TypeOK
  <2>3. Seated(room', ticket')
    <3>1. Peers_(room') = Peers_(r)
      BY <2>1, Zenon DEF Peers_
    <3> QED BY <3>1, <1>1, Zenon DEF Seated
  <2>4. Led(room', ticket') /\ Absent(room', used', conn')
    BY <2>1, Zenon DEF Led, Absent
  <2> QED BY <2>2, <2>3, <2>4, <1>3, Zenon DEF Agreement
<1> QED BY <1>4, <1>5, Zenon DEF Finish
-----------------------------------------------------------------------------

(* A ticket is given to a peer that had none, so nobody's changes.         *)
LEMMA IssueStep ==
    ASSUME Agreement, NEW a \in Accounts, NEW role \in {"master", "member"},
           Issue(a, role)
    PROVE  /\ ticket' \in [Peers -> Ticket \cup {None}]
           /\ \A p \in Peers : ticket[p] # None => ticket'[p] = ticket[p]
<1>1. ticket \in [Peers -> Ticket \cup {None}]
  BY Zenon DEF Agreement, TypeOK
<1>2. [account |-> a, role |-> role] \in Ticket
  BY DEF Ticket
<1>3. PICK p \in Peers :
          /\ ticket[p] = None
          /\ ticket' = [ticket EXCEPT ![p] = [account |-> a, role |-> role]]
  BY Zenon DEF Issue
<1> QED BY <1>1, <1>2, <1>3, Zenon

LEMMA SeatedWithTickets ==
    ASSUME NEW r \in Room, NEW tk, NEW new, Seated(r, tk),
           \A p \in Peers : tk[p] # None => new[p] = tk[p]
    PROVE  /\ Seated(r, new)
           /\ Led(r, tk) => Led(r, new)
<1>1. Peers_(r) \subseteq Peers
  BY RoomIs, MembersType, Zenon DEF Peers_
<1>2. \A p \in Peers_(r) : tk[p] # None /\ new[p] = tk[p]
  BY <1>1, Zenon DEF Seated
<1>3. Seated(r, new)
  BY <1>2, Zenon DEF Seated
<1>4. Led(r, tk) => Led(r, new)
  BY <1>2, Zenon DEF Led
<1> QED BY <1>3, <1>4, Zenon

(* A step that leaves the room as it is.                                   *)
LEMMA AdmitStep ==
    ASSUME Agreement, NEW a \in Accounts, NEW role \in {"master", "member"},
           Issue(a, role), UNCHANGED <<room, alarm, used, conn, current, closer, now>>
    PROVE  Agreement'
<1>1. /\ ticket' \in [Peers -> Ticket \cup {None}]
      /\ \A p \in Peers : ticket[p] # None => ticket'[p] = ticket[p]
  BY IssueStep, Zenon
<1>2. TypeOK'
  BY <1>1, Zenon DEF Agreement, TypeOK
<1>3. room' # NoRoom => /\ Seated(room', ticket') /\ Led(room', ticket')
                        /\ Absent(room', used', conn')
  <2> SUFFICES ASSUME room # NoRoom
               PROVE  /\ Seated(room, ticket') /\ Led(room, ticket')
                      /\ Absent(room, used, conn)
    BY Zenon
  <2>1. room \in Room /\ Seated(room, ticket) /\ Led(room, ticket)
            /\ Absent(room, used, conn)
    BY Live_, Zenon DEF Agreement
  <2> QED BY <2>1, <1>1, SeatedWithTickets, Zenon
<1>4. closer' # None => Seated(closer'.room, ticket')
  <2> SUFFICES ASSUME closer # None PROVE Seated(closer.room, ticket')
    BY Zenon
  <2>1. closer \in [by : Accounts, room : Room]
    BY Zenon DEF Agreement, TypeOK
  <2>2. closer.room \in Room
    BY <2>1
  <2> QED BY <2>2, <1>1, SeatedWithTickets, Zenon DEF Agreement
<1> QED BY <1>2, <1>3, <1>4, Zenon DEF Agreement

LEMMA CreateStep ==
    ASSUME Agreement, NEW a \in Accounts, Create(a)
    PROVE  Agreement'
<1>1. ticket' \in [Peers -> Ticket \cup {None}]
      /\ \A p \in Peers : ticket[p] # None => ticket'[p] = ticket[p]
  <2>1. CASE Issue(a, "master")
    BY <2>1, IssueStep, Zenon
  <2>2. CASE UNCHANGED ticket
    BY <2>2, Zenon DEF Agreement, TypeOK
  <2> QED BY <2>1, <2>2, Zenon DEF Create
<1>2. now + Ttl \in Times
  BY RoomAssumption, SMT DEF Create, Agreement, TypeOK, Times
<1>3. <<>> \in Members /\ DOMAIN <<>> = {}
  <2>1. DOMAIN <<>> = {}
    BY SMT
  <2>2. <<>> \in [{} -> Member]
    BY SMT
  <2> QED BY <2>1, <2>2, MembersType, Zenon
<1>4. NewRoom(a) \in Room /\ Peers_(NewRoom(a)) = {}
      /\ NewRoom(a).status = "waiting-master" /\ NewRoom(a).master = None
  <2>1. NewRoom(a) \in Room
    BY <1>2, <1>3 DEF NewRoom, Room
  <2> QED BY <2>1, <1>3 DEF NewRoom, Peers_
<1>5. room' = NewRoom(a) /\ closer' = closer /\ now' = now /\ current' = {}
  BY Zenon DEF Create
<1>6. alarm' \in Times \cup {Never}
  BY <1>2, Zenon DEF Create, Agreement, TypeOK
<1>7. used' \subseteq Peers /\ conn' \in [Peers -> {"none", "open", "closing"}]
  BY SocketsType, Zenon DEF Create, Agreement, TypeOK
<1>8. TypeOK'
  BY <1>1, <1>4, <1>5, <1>6, <1>7, Zenon DEF Agreement, TypeOK
<1>9. Seated(NewRoom(a), ticket')
  <2>1. IsFiniteSet({}) /\ Cardinality({}) = 0
    BY FS_EmptySet, Zenon
  <2>2. Cardinality({}) <= MaxPeers
    BY <2>1, RoomAssumption, SMT
  <2> QED BY <2>1, <2>2, <1>4, Zenon DEF Seated
<1>10. Led(NewRoom(a), ticket') /\ Absent(NewRoom(a), used', conn')
  BY <1>4, Zenon DEF Led, Absent
<1>11. closer' # None => Seated(closer'.room, ticket')
  <2> SUFFICES ASSUME closer # None PROVE Seated(closer.room, ticket')
    BY <1>5, Zenon
  <2>1. closer \in [by : Accounts, room : Room]
    BY Zenon DEF Agreement, TypeOK
  <2>2. closer.room \in Room
    BY <2>1
  <2> QED BY <2>2, <1>1, SeatedWithTickets, Zenon DEF Agreement
<1> QED BY <1>5, <1>8, <1>9, <1>10, <1>11, Zenon DEF Agreement

LEMMA AdmitNobodyStep == ASSUME Agreement, AdmitNobody PROVE Agreement'
<1>1. room # NoRoom /\ Finish(room) /\ UNCHANGED <<ticket, closer, now>>
  BY Zenon DEF AdmitNobody, Stale
<1>2. room \in Room /\ Seated(room, ticket)
  BY <1>1, Live_, Zenon DEF Agreement
<1> QED BY <1>1, <1>2, FinishStep, Zenon

LEMMA CloseAtOnceStep == ASSUME Agreement, CloseAtOnce PROVE Agreement'
<1>1. room # NoRoom /\ Finish(room) /\ UNCHANGED <<ticket, closer, now>>
  BY Zenon DEF CloseAtOnce
<1>2. room \in Room /\ Seated(room, ticket)
  BY <1>1, Live_, Zenon DEF Agreement
<1> QED BY <1>1, <1>2, FinishStep, Zenon

LEMMA CloseRequestStep ==
    ASSUME Agreement, NEW a \in Accounts, CloseRequest(a) PROVE Agreement'
<1>1. room # NoRoom /\ closer' = [by |-> a, room |-> room]
      /\ UNCHANGED <<room, alarm, used, conn, ticket, current, now>>
  BY Zenon DEF CloseRequest
<1>2. room \in Room /\ Seated(room, ticket)
  BY <1>1, Live_, Zenon DEF Agreement
<1>3. closer' \in [by : Accounts, room : Room] /\ closer'.room = room
  BY <1>1, <1>2
<1>4. TypeOK'
  BY <1>1, <1>3, Zenon DEF Agreement, TypeOK
<1> QED BY <1>1, <1>2, <1>3, <1>4, Zenon DEF Agreement

LEMMA CloseBodyStep == ASSUME Agreement, CloseBody PROVE Agreement'
<1>1. closer # None /\ closer' = None /\ UNCHANGED <<ticket, now>>
  BY Zenon DEF CloseBody
<1>2. closer \in [by : Accounts, room : Room] /\ Seated(closer.room, ticket)
  BY <1>1, Zenon DEF Agreement, TypeOK
<1>3. closer.room \in Room
  BY <1>2
<1>4. CASE Finish(closer.room)
  BY <1>1, <1>2, <1>3, <1>4, FinishStep, Zenon
<1>5. CASE UNCHANGED <<room, alarm, used, conn, current>>
  <2>1. TypeOK'
    BY <1>1, <1>5, Zenon DEF Agreement, TypeOK
  <2> QED BY <1>1, <1>5, <2>1, Zenon DEF Agreement
<1> QED BY <1>4, <1>5, Zenon DEF CloseBody

(* A socket that closes was not that of a member who is away.              *)
LEMMA ClosingStep ==
    ASSUME Agreement, NEW p \in Peers, Open(p),
           conn' = [conn EXCEPT ![p] = "closing"],
           UNCHANGED <<room, alarm, used, ticket, current, closer, now>>
    PROVE  Agreement'
<1>1. conn \in [Peers -> {"none", "open", "closing"}]
  BY Zenon DEF Agreement, TypeOK
<1>2. conn' \in [Peers -> {"none", "open", "closing"}]
      /\ \A q \in Peers : conn[q] = "none" => conn'[q] = "none"
  BY <1>1, SMT DEF Open
<1>3. TypeOK'
  BY <1>2, Zenon DEF Agreement, TypeOK
<1>4. room' # NoRoom => /\ Seated(room', ticket') /\ Led(room', ticket')
                        /\ Absent(room', used', conn')
  <2> SUFFICES ASSUME room # NoRoom
               PROVE  /\ Seated(room, ticket) /\ Led(room, ticket)
                      /\ Absent(room, used, conn')
    BY Zenon
  <2>1. room \in Room /\ Seated(room, ticket) /\ Led(room, ticket)
            /\ Absent(room, used, conn)
    BY Live_, Zenon DEF Agreement
  <2>2. Peers_(room) \subseteq Peers
    BY <2>1, RoomIs, MembersType, Zenon DEF Peers_
  <2>3. Absent(room, used, conn')
    BY <2>1, <2>2, <1>2, Zenon DEF Absent
  <2> QED BY <2>1, <2>3, Zenon
<1>5. closer' # None => Seated(closer'.room, ticket')
  BY Zenon DEF Agreement
<1> QED BY <1>3, <1>4, <1>5, Zenon DEF Agreement

LEMMA TicketLapsesStep ==
    ASSUME Agreement, NEW p \in Peers, TicketLapses(p) PROVE Agreement'
<1>1. /\ room # NoRoom => p \notin Peers_(room)
      /\ closer = None /\ ticket' = [ticket EXCEPT ![p] = None]
      /\ used' = used \ {p}
      /\ UNCHANGED <<room, alarm, conn, current, closer, now>>
  BY Zenon DEF TicketLapses
<1>2. TypeOK'
  BY <1>1, Zenon DEF Agreement, TypeOK
<1>3. room' # NoRoom => /\ Seated(room', ticket') /\ Led(room', ticket')
                        /\ Absent(room', used', conn')
  <2> SUFFICES ASSUME room # NoRoom
               PROVE  /\ Seated(room, ticket') /\ Led(room, ticket')
                      /\ Absent(room, used', conn)
    BY <1>1, Zenon
  <2>1. room \in Room /\ Seated(room, ticket) /\ Led(room, ticket)
            /\ Absent(room, used, conn) /\ p \notin Peers_(room)
    BY <1>1, Live_, Zenon DEF Agreement
  <2>2. Peers_(room) \subseteq Peers
    BY <2>1, RoomIs, MembersType, Zenon DEF Peers_
  <2>3. \A q \in Peers_(room) : ticket'[q] = ticket[q]
    BY <1>1, <2>1, <2>2, Zenon DEF Agreement, TypeOK
  <2>4. Seated(room, ticket')
    BY <2>1, <2>3, Zenon DEF Seated
  <2>5. Led(room, ticket')
    BY <2>1, <2>3, Zenon DEF Led
  <2>6. Absent(room, used', conn)
    BY <2>1, <1>1, Zenon DEF Absent
  <2> QED BY <2>4, <2>5, <2>6, Zenon
<1> QED BY <1>1, <1>2, <1>3, Zenon DEF Agreement

LEMMA TickStep == ASSUME Agreement, Tick PROVE Agreement'
<1>1. now' \in Times
  BY RoomAssumption, SMT DEF Tick, Agreement, TypeOK, Times
<1>2. UNCHANGED <<room, alarm, used, conn, ticket, current, closer>>
  BY Zenon DEF Tick
<1>3. TypeOK'
  BY <1>1, <1>2, Zenon DEF Agreement, TypeOK
<1> QED BY <1>2, <1>3, Zenon DEF Agreement
-----------------------------------------------------------------------------

(* What connect has checked when a socket enters.                          *)
MayEnter(p) ==
    /\ Live /\ ticket[p] # None
    /\ ticket[p].role = "master" <=> Account(p) = room.account
    /\ ticket[p].role = "member" => MemberMayJoin(Account(p))

LEMMA Facts ==
    ASSUME Agreement, Live
    PROVE  /\ room \in Room /\ room.members \in Members
           /\ Peers_(room) \subseteq Peers /\ room.status \in {"waiting-master", "open"}
           /\ Seated(room, ticket) /\ Led(room, ticket) /\ Absent(room, used, conn)
           /\ room.status # "closed"
<1>1. room \in Room /\ room # NoRoom /\ room.status # "closed"
  BY Live_, Zenon DEF Agreement
<1>2. room.members \in Members /\ Peers_(room) \subseteq Peers
  BY <1>1, RoomIs, MembersType, Zenon DEF Peers_
<1> QED BY <1>1, <1>2, Zenon DEF Agreement, Live

(* The master that enters takes the place of the one there was.            *)
LEMMA EnteredMaster ==
    ASSUME Agreement, NEW p \in Peers, MayEnter(p), ticket[p].role = "master"
    PROVE  /\ Entered(p) \in Room /\ Entered(p).status = "open"
           /\ Entered(p).expires = room.expires
           /\ Peers_(Entered(p)) = (Peers_(room) \ (Replaced(p) \ {p})) \cup {p}
           /\ Entered(p).members[p].gone = Never
           /\ \A q \in Peers_(Entered(p)) \ {p} :
                 Entered(p).members[q].gone = room.members[q].gone
           /\ Seated(Entered(p), ticket) /\ Led(Entered(p), ticket)
<1> DEFINE S == Replaced(p) \ {p}
           left == Without(room.members, S)
           ms == With(Renegotiating(left), p, "connected")
<1>1. Live /\ Account(p) = room.account /\ ticket[p] # None
  BY Zenon DEF MayEnter
<1>2. /\ room \in Room /\ room.members \in Members
      /\ Seated(room, ticket) /\ Led(room, ticket) /\ room.status # "closed"
  BY <1>1, Facts, Zenon
<1>3. left \in Members /\ DOMAIN left = DOMAIN room.members \ S
      /\ \A q \in DOMAIN left : left[q] = room.members[q]
  <2> HIDE DEF S
  <2>1. room.members \in Members
    BY <1>2, Zenon
  <2>2. left \in Members
    BY <2>1, WithoutType, Zenon
  <2>3. DOMAIN left = DOMAIN room.members \ S
    BY <2>1, WithoutType, Zenon
  <2>4. \A q \in DOMAIN room.members \ S : left[q] = room.members[q]
    BY <2>1, WithoutType, Zenon
  <2> QED BY <2>2, <2>3, <2>4, Zenon
<1>4. /\ Renegotiating(left) \in Members
      /\ DOMAIN Renegotiating(left) = DOMAIN left
      /\ \A q \in DOMAIN left : Renegotiating(left)[q].gone = left[q].gone
  <2> HIDE DEF left
  <2> QED BY <1>3, RenegotiatingType, Zenon
<1>5. /\ ms \in Members /\ DOMAIN ms = DOMAIN Renegotiating(left) \cup {p}
      /\ ms[p].gone = Never
      /\ \A q \in DOMAIN Renegotiating(left) : q # p => ms[q] = Renegotiating(left)[q]
  <2>1. "connected" \in {"negotiating", "connected"}
    BY Zenon
  <2> HIDE DEF left
  <2> QED BY <1>4, <2>1, WithType, Zenon
<1>6. Entered(p) = [room EXCEPT !.status = "open", !.master = p,
                                !.account = Account(p), !.members = ms]
  BY Zenon DEF Entered
<1>7. Account(p) \in Accounts
  BY <1>1, <1>2, RoomIs, Zenon
<1>8. /\ Entered(p) \in Room /\ Entered(p).status = "open"
      /\ Entered(p).account = Account(p) /\ Entered(p).master = p
      /\ Entered(p).expires = room.expires /\ Entered(p).members = ms
  <2> DEFINE n == [room EXCEPT !.status = "open", !.master = p,
                               !.account = Account(p), !.members = ms]
  <2> HIDE DEF ms
  <2>1. room \in Room /\ ms \in Members
    BY <1>2, <1>5, Zenon
  <2>2. /\ n \in Room /\ n.status = "open" /\ n.account = Account(p)
        /\ n.master = p /\ n.expires = room.expires /\ n.members = ms
    BY <2>1, <1>7 DEF Room
  <2>3. Entered(p) = n
    BY <1>6, Zenon
  <2> QED BY <2>2, <2>3, Zenon
<1> HIDE DEF ms, left
<1>9. Peers_(Entered(p)) = (Peers_(room) \ S) \cup {p}
  BY <1>3, <1>4, <1>5, <1>8, Zenon DEF Peers_
<1>10. /\ Entered(p).members[p].gone = Never
       /\ \A q \in Peers_(Entered(p)) \ {p} :
             Entered(p).members[q].gone = room.members[q].gone
  BY <1>3, <1>4, <1>5, <1>8, Zenon DEF Peers_
<1>11. Led(Entered(p), ticket)
  <2>1. p # None
    BY RoomAssumption, Zenon
  <2>2. p \in Peers_(Entered(p))
    BY <1>9, Zenon
  <2>3. Entered(p).status # "waiting-master"
    BY <1>8, SMT
  <2> QED BY <1>8, <1>10, <2>1, <2>2, <2>3, Zenon DEF Led, Account
<1>12. Seated(Entered(p), ticket)
  <2>1. CASE room.master = None
    <3>1. Peers_(room) = {}
      BY <2>1, <1>2, Zenon DEF Led
    <3>2. Cardinality(Peers_(room)) < MaxPeers
      <4>1. Cardinality(Peers_(room)) = 0
        BY <3>1, FS_EmptySet, Zenon
      <4> QED BY <4>1, RoomAssumption, SMT
    <3>3. p \notin S
      BY Zenon
    <3> HIDE DEF S
    <3> QED BY <1>1, <1>2, <1>9, <3>1, <3>2, <3>3, SeatedOneMore, SMT
  <2>2. CASE room.master # None
    <3>1. room.master \in Peers_(room) /\ ticket[room.master].account = room.account
      BY <2>2, <1>2, Zenon DEF Led
    <3>2. room.master \in S \cup {p}
      BY <2>2, Zenon DEF Replaced
    <3>3. \A q \in Peers_(room) : ticket[q].account = ticket[p].account => q \in S \cup {p}
      <4>1. \A q \in Peers_(room) :
                ticket[q].account = ticket[p].account => q = room.master
        BY <1>1, <1>2, <3>1, Zenon DEF Seated, Account
      <4> QED BY <4>1, <3>2, Zenon
    <3>4. S \cap Peers_(room) # {} \/ p \in Peers_(room)
      BY <3>1, <3>2, Zenon
    <3>5. p \notin S
      BY Zenon
    <3> HIDE DEF S
    <3> QED BY <1>1, <1>2, <1>9, <3>3, <3>4, <3>5, SeatedOneMore, SMT
  <2> QED BY <2>1, <2>2, Zenon
<1> QED BY <1>8, <1>9, <1>10, <1>11, <1>12, Zenon

(* A member that enters takes the seat of its account, or an empty one.    *)
LEMMA EnteredMember ==
    ASSUME Agreement, NEW p \in Peers, MayEnter(p), ticket[p].role # "master"
    PROVE  /\ Entered(p) \in Room /\ Entered(p).status = "open"
           /\ Entered(p).expires = room.expires
           /\ Peers_(Entered(p)) = (Peers_(room) \ (Replaced(p) \ {p})) \cup {p}
           /\ Entered(p).members[p].gone = Never
           /\ \A q \in Peers_(Entered(p)) \ {p} :
                 Entered(p).members[q].gone = room.members[q].gone
           /\ Seated(Entered(p), ticket) /\ Led(Entered(p), ticket)
<1> DEFINE S == Replaced(p) \ {p}
           left == Without(room.members, S)
           ms == With(left, p, "negotiating")
<1>1. /\ Live /\ Account(p) # room.account /\ ticket[p] # None
      /\ MemberMayJoin(Account(p))
  <2>1. ticket[p] \in Ticket
    BY Zenon DEF MayEnter, Agreement, TypeOK
  <2>2. ticket[p].role = "member"
    BY <2>1 DEF Ticket
  <2> QED BY <2>2, Zenon DEF MayEnter
<1>2. /\ room \in Room /\ room.members \in Members
      /\ Seated(room, ticket) /\ Led(room, ticket) /\ room.status # "closed"
  BY <1>1, Facts, Zenon
<1>3. left \in Members /\ DOMAIN left = DOMAIN room.members \ S
      /\ \A q \in DOMAIN left : left[q] = room.members[q]
  <2> HIDE DEF S
  <2>1. room.members \in Members
    BY <1>2, Zenon
  <2>2. left \in Members
    BY <2>1, WithoutType, Zenon
  <2>3. DOMAIN left = DOMAIN room.members \ S
    BY <2>1, WithoutType, Zenon
  <2>4. \A q \in DOMAIN room.members \ S : left[q] = room.members[q]
    BY <2>1, WithoutType, Zenon
  <2> QED BY <2>2, <2>3, <2>4, Zenon
<1>4. /\ ms \in Members /\ DOMAIN ms = DOMAIN left \cup {p} /\ ms[p].gone = Never
      /\ \A q \in DOMAIN left : q # p => ms[q] = left[q]
  <2>1. "negotiating" \in {"negotiating", "connected"}
    BY Zenon
  <2> HIDE DEF left
  <2> QED BY <1>3, <2>1, WithType, Zenon
<1>5. Entered(p) = [room EXCEPT !.members = ms]
  BY Zenon DEF Entered
<1>6. /\ Entered(p) \in Room /\ Entered(p).status = room.status
      /\ Entered(p).account = room.account /\ Entered(p).master = room.master
      /\ Entered(p).expires = room.expires /\ Entered(p).members = ms
  <2> HIDE DEF ms
  <2> QED BY <1>2, <1>4, <1>5, Refilled, SMT
<1> HIDE DEF ms, left
<1>7. Peers_(Entered(p)) = (Peers_(room) \ S) \cup {p}
  BY <1>3, <1>4, <1>6, Zenon DEF Peers_
<1>8. /\ Entered(p).members[p].gone = Never
      /\ \A q \in Peers_(Entered(p)) \ {p} :
            Entered(p).members[q].gone = room.members[q].gone
  BY <1>3, <1>4, <1>6, <1>7, Zenon DEF Peers_
<1>9. /\ room.status = "open" /\ room.master # None
      /\ room.master \in Peers_(room) /\ ticket[room.master].account = room.account
  BY <1>1, <1>2, Zenon DEF MemberMayJoin, MasterIsUp, Led
<1>10. room.master # p /\ room.master \notin S
  BY <1>1, <1>9, Zenon DEF Replaced, Previous, Account
<1>11. Led(Entered(p), ticket)
  <2>1. room.master \in Peers_(Entered(p)) \ {p}
    BY <1>7, <1>9, <1>10, Zenon
  <2> QED BY <1>2, <1>6, <1>8, <1>9, <2>1, Zenon DEF Led
<1>12. Seated(Entered(p), ticket)
  <2>1. \A q \in Peers_(room) : ticket[q].account = ticket[p].account => q \in S \cup {p}
    BY <1>1, <1>9, Zenon DEF Replaced, Previous, Account
  <2>2. \/ S \cap Peers_(room) # {} \/ p \in Peers_(room)
        \/ Cardinality(Peers_(room)) < MaxPeers
    <3>1. CASE Previous(Account(p)) # {}
      <4>1. PICK q \in Peers_(room) : q \in Previous(Account(p))
        BY <3>1, Zenon DEF Previous
      <4>2. q \in Replaced(p)
        BY <4>1, Zenon DEF Replaced
      <4> QED BY <4>1, <4>2, Zenon
    <3>2. CASE Cardinality(Peers_(room)) < MaxPeers
      BY <3>2, Zenon
    <3> QED BY <3>1, <3>2, <1>1, Zenon DEF MemberMayJoin, HasPlace
  <2>3. p \notin S
    BY Zenon
  <2> HIDE DEF S
  <2> QED BY <1>1, <1>2, <1>7, <2>1, <2>2, <2>3, SeatedOneMore, SMT
<1>13. Entered(p).status = "open"
  BY <1>6, <1>9, Zenon
<1> QED BY <1>6, <1>7, <1>8, <1>11, <1>12, <1>13, Zenon

LEMMA EnteredRoom ==
    ASSUME Agreement, NEW p \in Peers, MayEnter(p)
    PROVE  /\ Entered(p) \in Room /\ Entered(p).status = "open"
           /\ Entered(p).expires = room.expires
           /\ Peers_(Entered(p)) = (Peers_(room) \ (Replaced(p) \ {p})) \cup {p}
           /\ Entered(p).members[p].gone = Never
           /\ \A q \in Peers_(Entered(p)) \ {p} :
                 Entered(p).members[q].gone = room.members[q].gone
           /\ Seated(Entered(p), ticket) /\ Led(Entered(p), ticket)
<1>1. CASE ticket[p].role = "master"
  BY <1>1, EnteredMaster, Zenon
<1>2. CASE ticket[p].role # "master"
  BY <1>2, EnteredMember, Zenon
<1> QED BY <1>1, <1>2, Zenon

LEMMA ConnectStep ==
    ASSUME Agreement, NEW p \in Peers, Connect(p) PROVE Agreement'
<1>1. /\ MayEnter(p) /\ p \notin used /\ used' = used \cup {p}
      /\ UNCHANGED <<ticket, closer, now>>
  BY Zenon DEF Connect, MayEnter
<1>2. TypeOK /\ used' \in SUBSET Peers
  BY <1>1, Zenon DEF Agreement, TypeOK
<1>3. /\ Peers_(room) \subseteq Peers /\ Seated(room, ticket) /\ Led(room, ticket)
      /\ Absent(room, used, conn) /\ room \in Room /\ room.status # "closed"
  BY <1>1, Facts, Zenon DEF MayEnter
<1>4. Peers_(room) \subseteq used
      /\ \A q \in Peers_(room) : room.members[q].gone # Never => conn[q] = "none"
  BY <1>3, Zenon DEF Absent
<1>5. ASSUME NEW c \in {"open", "closing"}, conn' = Sockets(p, c)
      PROVE  /\ conn' \in [Peers -> {"none", "open", "closing"}]
             /\ \A q \in Peers \ {p} : conn[q] = "none" => conn'[q] = "none"
             /\ OpenIn(conn') \in SUBSET Peers
  BY <1>2, <1>5, SocketsType, Zenon
<1>6. ASSUME NEW c \in {"open", "closing"}, conn' = Sockets(p, c),
             NEW told \in SUBSET Peers, Commit(Entered(p), told)
      PROVE  Agreement'
  <2>1. /\ room' = Entered(p) /\ alarm' \in Times \cup {Never}
        /\ current' \in SUBSET Peers
    BY <1>1, <1>2, <1>6, EnteredRoom, CommitType, Zenon
  <2>2. Absent(Entered(p), used', conn')
    <3>1. /\ Peers_(Entered(p)) \subseteq Peers_(room) \cup {p}
          /\ Entered(p).members[p].gone = Never
          /\ \A q \in Peers_(Entered(p)) \ {p} :
                Entered(p).members[q].gone = room.members[q].gone
      <4>1. Peers_(Entered(p)) = (Peers_(room) \ (Replaced(p) \ {p})) \cup {p}
        BY <1>1, EnteredRoom, Zenon
      <4>2. Peers_(Entered(p)) \subseteq Peers_(room) \cup {p}
        BY <4>1, Zenon
      <4> QED BY <4>2, <1>1, EnteredRoom, Zenon
    <3>2. Peers_(Entered(p)) \subseteq used'
      BY <3>1, <1>1, <1>4, Zenon
    <3>3. \A q \in Peers \ {p} : conn[q] = "none" => conn'[q] = "none"
      BY <1>5, <1>6, Zenon
    <3>4. ASSUME NEW q \in Peers_(Entered(p)), Entered(p).members[q].gone # Never
          PROVE  conn'[q] = "none"
      <4>1. q # p /\ q \in Peers_(room) /\ room.members[q].gone # Never
        BY <3>1, <3>4, Zenon
      <4> QED BY <4>1, <3>3, <1>3, <1>4, Zenon
    <3> QED BY <3>2, <3>4, Zenon DEF Absent
  <2> QED BY <1>1, <1>2, <1>5, <1>6, <2>1, <2>2, EnteredRoom, Rewritten, Zenon
<1>7. CASE conn' = Sockets(p, "open") /\ UNCHANGED <<room, alarm, current>>
  <2>1. \A q \in Peers_(room) : q # p
    BY <1>1, <1>4, Zenon
  <2>2. Absent(room, used', conn')
    BY <1>1, <1>3, <1>4, <1>5, <1>7, <2>1, Zenon DEF Absent
  <2>3. room' = room /\ alarm' = alarm /\ current' = current
    BY <1>7, Zenon
  <2>4. alarm' \in Times \cup {Never} /\ current' \in SUBSET Peers
    BY <1>2, <2>3, Zenon DEF TypeOK
  <2> QED BY <1>1, <1>2, <1>3, <1>5, <1>7, <2>2, <2>3, <2>4, Rewritten, Zenon
<1>8. \/ conn' = Sockets(p, "open") /\ Commit(Entered(p), OpenIn(conn'))
      \/ conn' = Sockets(p, "closing") /\ Commit(Entered(p), {})
      \/ conn' = Sockets(p, "open") /\ UNCHANGED <<room, alarm, current>>
  BY Zenon DEF Connect
<1> QED BY <1>5, <1>6, <1>7, <1>8, Zenon

(* What the members say or lose is their own; the master stays.            *)
LEMMA RtcStateRoom ==
    ASSUME Agreement, NEW p \in Peers, NEW s \in {"negotiating", "connected"},
           RtcState(p, s)
    PROVE  /\ Live /\ room' \in Room /\ room'.status \in {"waiting-master", "open"}
           /\ room'.expires = room.expires /\ Peers_(room') = Peers_(room)
           /\ \A r \in Peers_(room) : room'.members[r].gone = room.members[r].gone
           /\ Seated(room', ticket) /\ Led(room', ticket)
           /\ current' = OpenIn(conn)
           /\ UNCHANGED <<alarm, used, conn, ticket, closer, now>>
<1> DEFINE ms == [room.members EXCEPT ![p].status = s]
<1>1. /\ Live /\ p \in Peers_(room) /\ p # room.master
      /\ room' = [room EXCEPT !.members[p].status = s]
      /\ current' = OpenIn(conn)
      /\ UNCHANGED <<alarm, used, conn, ticket, closer, now>>
  BY Zenon DEF RtcState, Persist
<1>2. /\ room \in Room /\ room.members \in Members /\ Peers_(room) \subseteq Peers
      /\ Seated(room, ticket) /\ Led(room, ticket) /\ Absent(room, used, conn)
      /\ room.status # "closed"
  BY <1>1, Facts, Zenon
<1>3. /\ [room.members[p] EXCEPT !.status = s] \in Member
      /\ [room.members[p] EXCEPT !.status = s].gone = room.members[p].gone
  <2>1. room.members[p] \in Member
    BY <1>1, <1>2, MembersType, Zenon DEF Peers_
  <2> QED BY <2>1 DEF Member
<1>4. ms = [room.members EXCEPT ![p] = [room.members[p] EXCEPT !.status = s]]
  BY Zenon
<1>5. /\ ms \in Members /\ DOMAIN ms = Peers_(room)
      /\ \A q \in Peers_(room) : ms[q].gone = room.members[q].gone
  <2> DEFINE m == [room.members[p] EXCEPT !.status = s]
             f == [room.members EXCEPT ![p] = m]
  <2>1. m \in Member /\ m.gone = room.members[p].gone
    BY <1>3, Zenon
  <2> HIDE DEF m
  <2>2. /\ f \in Members /\ DOMAIN f = Peers_(room) /\ f[p] = m
        /\ \A q \in Peers_(room) : q # p => f[q] = room.members[q]
    BY <1>1, <1>2, <2>1, ExceptType, Zenon DEF Peers_
  <2>3. ms = f
    BY <1>4, Zenon DEF m
  <2> HIDE DEF ms, f
  <2> QED BY <2>1, <2>2, <2>3, Zenon
<1>6. room' = [room EXCEPT !.members = ms]
  BY <1>1, Zenon
<1> HIDE DEF ms
<1>7. /\ room' \in Room /\ room'.status = room.status /\ room'.account = room.account
      /\ room'.master = room.master /\ room'.members = ms
  BY <1>2, <1>5, <1>6, Refilled, SMT
<1>8. Peers_(room') = Peers_(room)
  BY <1>5, <1>7, Zenon DEF Peers_
<1>9. Seated(room', ticket)
  BY <1>2, <1>8, Zenon DEF Seated
<1>10. Led(room', ticket)
  BY <1>2, <1>5, <1>7, <1>8, Zenon DEF Led
<1>11. room'.status \in {"waiting-master", "open"} /\ room'.expires = room.expires
  BY <1>1, <1>2, <1>5, <1>6, <1>7, Facts, Refilled, SMT
<1> QED BY <1>1, <1>5, <1>7, <1>8, <1>9, <1>10, <1>11, Zenon

LEMMA TransferMasterRoom ==
    ASSUME Agreement, NEW p \in Peers, NEW q \in Peers, TransferMaster(p, q)
    PROVE  /\ Live /\ room' \in Room /\ room'.status \in {"waiting-master", "open"}
           /\ room'.expires = room.expires /\ Peers_(room') = Peers_(room)
           /\ \A r \in Peers_(room) : room'.members[r].gone = room.members[r].gone
           /\ Seated(room', ticket) /\ Led(room', ticket)
           /\ current' = OpenIn(conn)
           /\ UNCHANGED <<alarm, used, conn, ticket, closer, now>>
<1> DEFINE here == Renegotiating(room.members)
           ms == [here EXCEPT ![q].status = "connected"]
<1>1. /\ Live /\ q \in Peers_(room) /\ MayLead(q)
      /\ room' = [room EXCEPT !.status = "open", !.master = q,
                              !.account = Account(q), !.members = ms]
      /\ current' = OpenIn(conn)
      /\ UNCHANGED <<alarm, used, conn, ticket, closer, now>>
  BY Zenon DEF TransferMaster, Persist
<1>2. /\ room \in Room /\ room.members \in Members /\ Peers_(room) \subseteq Peers
      /\ Seated(room, ticket) /\ Led(room, ticket) /\ Absent(room, used, conn)
      /\ room.status # "closed"
  BY <1>1, Facts, Zenon
<1>3. here \in Members /\ DOMAIN here = Peers_(room)
      /\ \A r \in Peers_(room) : here[r].gone = room.members[r].gone
  BY <1>2, RenegotiatingType, Zenon DEF Peers_
<1> HIDE DEF here
<1>4. /\ ms \in Members /\ DOMAIN ms = Peers_(room)
      /\ \A r \in Peers_(room) : ms[r].gone = room.members[r].gone
  <2> DEFINE m == [here[q] EXCEPT !.status = "connected"]
             f == [here EXCEPT ![q] = m]
  <2>0. here[q] \in Member
    BY <1>1, <1>3, MembersType, Zenon
  <2>1. m \in Member /\ m.gone = here[q].gone
    BY <2>0 DEF Member
  <2>3. ms = f
    BY Zenon
  <2> HIDE DEF m
  <2>2. /\ f \in Members /\ DOMAIN f = Peers_(room) /\ f[q] = m
        /\ \A r \in Peers_(room) : r # q => f[r] = here[r]
    BY <1>1, <1>3, <2>1, ExceptType, Zenon
  <2> HIDE DEF ms, f
  <2> QED BY <1>3, <2>1, <2>2, <2>3, Zenon
<1> HIDE DEF ms
<1>5. /\ ticket[q] # None /\ Account(q) \in Accounts
  <2>1. ticket[q] # None
    BY <1>1, <1>2, Zenon DEF Seated
  <2>2. ticket[q] \in Ticket
    BY <2>1, Zenon DEF Agreement, TypeOK
  <2> QED BY <2>1, <2>2 DEF Ticket, Account
<1>6. /\ room' \in Room /\ room'.status = "open" /\ room'.account = Account(q)
      /\ room'.master = q /\ room'.expires = room.expires /\ room'.members = ms
  <2> DEFINE n == [room EXCEPT !.status = "open", !.master = q,
                               !.account = Account(q), !.members = ms]
  <2>1. /\ n \in Room /\ n.status = "open" /\ n.account = Account(q)
        /\ n.master = q /\ n.expires = room.expires /\ n.members = ms
    BY <1>2, <1>4, <1>5 DEF Room
  <2>2. room' = n
    BY <1>1, Zenon
  <2> QED BY <2>1, <2>2, Zenon
<1>7. Peers_(room') = Peers_(room)
  BY <1>4, <1>6, Zenon DEF Peers_
<1>8. Seated(room', ticket)
  BY <1>2, <1>7, Zenon DEF Seated
<1>9. Led(room', ticket)
  <2>1. q # None
    BY RoomAssumption, Zenon
  <2>2. conn[q] # "none"
    BY <1>1, SMT DEF MayLead, Open
  <2>3. room'.members[q].gone = Never
    BY <1>1, <1>2, <1>4, <1>6, <2>2, Zenon DEF Absent
  <2>4. room'.status # "waiting-master"
    BY <1>6, SMT
  <2> QED BY <1>1, <1>6, <1>7, <2>1, <2>3, <2>4, Zenon DEF Led, Account
<1> QED BY <1>1, <1>4, <1>6, <1>7, <1>8, <1>9, Zenon

LEMMA TalkStep ==
    ASSUME Agreement, NEW p \in Peers,
           \/ \E s \in {"negotiating", "connected"} : RtcState(p, s)
           \/ \E q \in Peers : TransferMaster(p, q)
    PROVE  Agreement'
<1>1. /\ Live /\ room' \in Room /\ Peers_(room') = Peers_(room)
      /\ \A r \in Peers_(room) : room'.members[r].gone = room.members[r].gone
      /\ Seated(room', ticket) /\ Led(room', ticket)
      /\ current' = OpenIn(conn)
      /\ UNCHANGED <<alarm, used, conn, ticket, closer, now>>
  BY RtcStateRoom, TransferMasterRoom, Zenon
<1>2. Absent(room, used, conn) /\ room.status # "closed"
  BY <1>1, Facts, Zenon
<1>3. Absent(room', used', conn')
  BY <1>1, <1>2, Zenon DEF Absent
<1>4. /\ alarm' \in Times \cup {Never} /\ used' \in SUBSET Peers
      /\ current' \in SUBSET Peers /\ conn' \in [Peers -> {"none", "open", "closing"}]
  BY <1>1, Zenon DEF Agreement, TypeOK, OpenIn
<1> QED BY <1>1, <1>3, <1>4, Rewritten, Zenon

(* The room without the members in S.                                      *)
Less(S) == [room EXCEPT !.members = Without(@, S)]

(* Members who are dropped, of whom the master is none.                    *)
LEMMA Dropped ==
    ASSUME Agreement, Live, NEW S, room.master \notin S,
           NEW c, \A q \in Peers : conn[q] = "none" => c[q] = "none"
    PROVE  /\ Less(S) \in Room /\ Less(S).status = room.status
           /\ Less(S).expires = room.expires
           /\ Peers_(Less(S)) = Peers_(room) \ S
           /\ \A q \in Peers_(Less(S)) : Less(S).members[q] = room.members[q]
           /\ Seated(Less(S), ticket) /\ Led(Less(S), ticket)
           /\ Absent(Less(S), used, c)
<1> DEFINE ms == Without(room.members, S)
           n == [room EXCEPT !.members = ms]
<1>1. /\ room \in Room /\ room.members \in Members /\ Peers_(room) \subseteq Peers
      /\ Seated(room, ticket) /\ Led(room, ticket) /\ Absent(room, used, conn)
      /\ room.status # "closed"
  BY Facts, Zenon
<1>2. ms \in Members
  BY <1>1, WithoutType, Zenon
<1>3. DOMAIN ms = Peers_(room) \ S
  BY <1>1, WithoutType, Zenon DEF Peers_
<1>4. \A q \in Peers_(room) \ S : ms[q] = room.members[q]
  BY <1>1, WithoutType, Zenon DEF Peers_
<1> HIDE DEF ms
<1>5. /\ n \in Room /\ n.status = room.status /\ n.account = room.account
      /\ n.master = room.master /\ n.expires = room.expires /\ n.members = ms
  BY <1>1, <1>2, Refilled, SMT
<1> HIDE DEF n
<1>6. Peers_(n) = Peers_(room) \ S
      /\ \A q \in Peers_(n) : n.members[q] = room.members[q]
  BY <1>3, <1>4, <1>5, Zenon DEF Peers_
<1>7. Seated(n, ticket)
  <2>1. Peers_(n) \subseteq Peers_(room)
    BY <1>6, Zenon
  <2> QED BY <1>1, <2>1, SeatedFewer, Zenon
<1>8. Led(n, ticket)
  <2>1. CASE room.master = None
    <3>1. room.status = "waiting-master" /\ Peers_(room) = {}
      BY <2>1, <1>1, Zenon DEF Led
    <3>2. Peers_(n) = {}
      BY <3>1, <1>6, Zenon
    <3> QED BY <2>1, <3>1, <3>2, <1>5, Zenon DEF Led
  <2>2. CASE room.master # None
    <3>1. /\ room.master \in Peers_(room) /\ ticket[room.master].account = room.account
          /\ (room.members[room.master].gone # Never) <=> room.status = "waiting-master"
      BY <2>2, <1>1, Zenon DEF Led
    <3>2. room.master \in Peers_(n) /\ n.members[room.master] = room.members[room.master]
      BY <3>1, <1>6, Zenon
    <3> QED BY <2>2, <3>1, <3>2, <1>5, Zenon DEF Led
  <2> QED BY <2>1, <2>2, Zenon
<1>9. Absent(n, used, c)
  BY <1>1, <1>6, Zenon DEF Absent
<1>10. n = Less(S)
  BY Zenon DEF n, ms, Less
<1> QED BY <1>5, <1>6, <1>7, <1>8, <1>9, <1>10, Zenon

LEMMA RemoveMemberStep ==
    ASSUME Agreement, NEW p \in Peers, NEW q \in Peers, RemoveMember(p, q)
    PROVE  Agreement'
<1>1. /\ Live /\ room.master \notin {q}
      /\ conn' = [conn EXCEPT ![q] = IF Open(q) THEN "closing" ELSE @]
      /\ room' = [room EXCEPT !.members = Without(@, {q})]
      /\ current' = OpenIn(conn') /\ UNCHANGED <<alarm, used, ticket, closer, now>>
  BY Zenon DEF RemoveMember, Persist
<1>2. conn \in [Peers -> {"none", "open", "closing"}]
  BY Zenon DEF Agreement, TypeOK
<1>3. conn' \in [Peers -> {"none", "open", "closing"}]
      /\ \A r \in Peers : conn[r] = "none" => conn'[r] = "none"
  BY <1>1, <1>2, SMT DEF Open
<1>4. /\ room' \in Room /\ Seated(room', ticket) /\ Led(room', ticket)
      /\ Absent(room', used, conn')
  <2> DEFINE S == {q}
  <2>1. room' = Less(S) /\ room.master \notin S /\ Live
    BY <1>1, Zenon DEF Less
  <2> HIDE DEF S
  <2>2. /\ Less(S) \in Room /\ Seated(Less(S), ticket) /\ Led(Less(S), ticket)
        /\ Absent(Less(S), used, conn')
    BY <2>1, <1>3, Dropped, Zenon
  <2> QED BY <2>1, <2>2, Zenon
<1>5. /\ alarm' \in Times \cup {Never} /\ used' \in SUBSET Peers /\ used' = used
      /\ current' \in SUBSET Peers /\ UNCHANGED <<ticket, closer, now>>
  BY <1>1, Zenon DEF Agreement, TypeOK, OpenIn
<1> QED BY <1>3, <1>4, <1>5, Rewritten, Zenon

(* The room when a member is away: without its master it waits.            *)
LEMMA LeftRoom ==
    ASSUME Agreement, Live, NEW p \in Peers_(room)
    PROVE  /\ Left(p) \in Room /\ Left(p).status \in {"waiting-master", "open"}
           /\ Left(p).expires = room.expires
           /\ Peers_(Left(p)) = Peers_(room) /\ Left(p).members[p].gone = now
           /\ \A q \in Peers_(room) \ {p} :
                 Left(p).members[q].gone = room.members[q].gone
           /\ Seated(Left(p), ticket) /\ Led(Left(p), ticket)
<1> DEFINE m == [status |-> "negotiating", gone |-> now]
           ms == [room.members EXCEPT ![p] = m]
           r == [room EXCEPT !.members = ms]
<1>1. /\ room \in Room /\ room.members \in Members /\ Peers_(room) \subseteq Peers
      /\ Seated(room, ticket) /\ Led(room, ticket)
      /\ room.status \in {"waiting-master", "open"} /\ room.status # "closed"
  BY Facts, Zenon
<1>2. m \in Member /\ m.gone = now /\ now # Never
  <2>1. now \in Times
    BY Zenon DEF Agreement, TypeOK
  <2>2. now # Never
    BY <2>1, RoomAssumption, SMT DEF Times, Never
  <2> QED BY <2>1, <2>2, NewMember
<1> HIDE DEF m
<1>3. /\ ms \in Members /\ DOMAIN ms = Peers_(room) /\ ms[p] = m
      /\ \A q \in Peers_(room) : q # p => ms[q] = room.members[q]
  BY <1>1, <1>2, ExceptType, Zenon DEF Peers_
<1> HIDE DEF ms
<1>4. /\ r \in Room /\ r.status = room.status /\ r.account = room.account
      /\ r.master = room.master /\ r.expires = room.expires /\ r.members = ms
  BY <1>1, <1>3, Refilled, SMT
<1>5. Left(p) = IF p = room.master
                THEN [r EXCEPT !.status = "waiting-master",
                               !.members = Renegotiating(r.members)]
                ELSE r
  <2>1. r = [room EXCEPT !.members[p] = [status |-> "negotiating", gone |-> now]]
    BY Zenon DEF ms, m
  <2> HIDE DEF r
  <2> QED BY <2>1, Zenon DEF Left
<1> HIDE DEF r
<1>6. CASE p # room.master
  <2>1. Left(p) = r
    BY <1>5, <1>6, Zenon
  <2>2. Peers_(r) = Peers_(room) /\ r.members[p].gone = now
        /\ \A q \in Peers_(room) \ {p} : r.members[q].gone = room.members[q].gone
    BY <1>2, <1>3, <1>4, Zenon DEF Peers_
  <2>3. Seated(r, ticket)
    BY <1>1, <2>2, Zenon DEF Seated
  <2>4. Led(r, ticket)
    <3>1. room.master # None
      BY <1>1, Zenon DEF Led
    <3>2. /\ room.master \in Peers_(room) \ {p}
          /\ ticket[room.master].account = room.account
          /\ (room.members[room.master].gone # Never) <=> room.status = "waiting-master"
      BY <1>1, <1>6, <3>1, Zenon DEF Led
    <3>3. r.members[room.master].gone = room.members[room.master].gone
      BY <2>2, <3>2, Zenon
    <3> QED BY <3>1, <3>2, <3>3, <2>2, <1>4, Zenon DEF Led
  <2> QED BY <1>1, <1>4, <2>1, <2>2, <2>3, <2>4, Zenon
<1>7. CASE p = room.master
  <2> DEFINE away == Renegotiating(ms)
             n == [r EXCEPT !.status = "waiting-master", !.members = away]
  <2>1. away \in Members /\ DOMAIN away = Peers_(room)
        /\ \A q \in Peers_(room) : away[q].gone = ms[q].gone
    BY <1>3, RenegotiatingType, Zenon
  <2>2. Left(p) = n
    BY <1>4, <1>5, <1>7, Zenon
  <2> HIDE DEF away
  <2>3. /\ n \in Room /\ n.status = "waiting-master" /\ n.account = room.account
        /\ n.master = room.master /\ n.expires = room.expires /\ n.members = away
    BY <1>4, <2>1 DEF Room
  <2> HIDE DEF n
  <2>4. Peers_(n) = Peers_(room) /\ n.members[p].gone = now
        /\ \A q \in Peers_(room) \ {p} : n.members[q].gone = room.members[q].gone
    BY <1>2, <1>3, <2>1, <2>3, Zenon DEF Peers_
  <2>5. Seated(n, ticket)
    BY <1>1, <2>4, Zenon DEF Seated
  <2>6. p # None
    BY <1>1, RoomAssumption, Zenon
  <2>7. ticket[p].account = room.account
    BY <1>1, <1>7, <2>6, Zenon DEF Led
  <2>8. Led(n, ticket)
    BY <1>2, <1>7, <2>3, <2>4, <2>6, <2>7, Zenon DEF Led
  <2> QED BY <2>2, <2>3, <2>4, <2>5, <2>8, Zenon
<1> QED BY <1>6, <1>7, Zenon

LEMMA SocketClosedStep ==
    ASSUME Agreement, NEW p \in Peers, SocketClosed(p) PROVE Agreement'
<1>1. conn' = [conn EXCEPT ![p] = "none"] /\ UNCHANGED <<used, ticket, closer, now>>
  BY Zenon DEF SocketClosed
<1>2. TypeOK /\ conn \in [Peers -> {"none", "open", "closing"}]
  BY Zenon DEF Agreement, TypeOK
<1>3. /\ conn' \in [Peers -> {"none", "open", "closing"}] /\ conn'[p] = "none"
      /\ \A q \in Peers : conn[q] = "none" => conn'[q] = "none"
      /\ used' \in SUBSET Peers /\ used' = used
  <2>1. conn'[p] = "none" /\ \A q \in Peers \ {p} : conn'[q] = conn[q]
    BY <1>1, <1>2, Zenon
  <2>2. conn' \in [Peers -> {"none", "open", "closing"}]
    BY <1>1, <1>2, SMT
  <2> QED BY <1>1, <1>2, <2>1, <2>2, Zenon DEF TypeOK
<1>4. CASE Live /\ p \in Peers_(room)
  <2>1. Commit(Left(p), OpenIn(conn')) /\ OpenIn(conn') \in SUBSET Peers
    BY <1>4, Zenon DEF SocketClosed, OpenIn
  <2>2. /\ room' = Left(p) /\ alarm' \in Times \cup {Never}
        /\ current' \in SUBSET Peers
    BY <1>2, <1>4, <2>1, LeftRoom, CommitType, Zenon
  <2>3. Absent(Left(p), used', conn')
    <3>1. Peers_(room) \subseteq used /\ Peers_(room) \subseteq Peers
          /\ \A q \in Peers_(room) : room.members[q].gone # Never => conn[q] = "none"
      BY <1>4, Facts, Zenon DEF Absent
    <3>2. /\ Peers_(Left(p)) = Peers_(room)
          /\ \A q \in Peers_(room) \ {p} :
                Left(p).members[q].gone = room.members[q].gone
      BY <1>4, LeftRoom, Zenon
    <3> QED BY <1>3, <3>1, <3>2, Zenon DEF Absent
  <2> QED BY <1>1, <1>3, <1>4, <2>2, <2>3, LeftRoom, Rewritten, Zenon
<1>5. CASE UNCHANGED <<room, alarm, current>>
  <2>1. TypeOK'
    BY <1>1, <1>2, <1>3, <1>5, Zenon DEF TypeOK
  <2>2. room # NoRoom => Absent(room, used, conn')
    <3> SUFFICES ASSUME room # NoRoom PROVE Absent(room, used, conn')
      BY Zenon
    <3>1. room \in Room /\ Absent(room, used, conn)
      BY Live_, Zenon DEF Agreement
    <3>2. Peers_(room) \subseteq Peers
      BY <3>1, RoomIs, MembersType, Zenon DEF Peers_
    <3> QED BY <1>3, <3>1, <3>2, Zenon DEF Absent
  <2> QED BY <1>1, <1>3, <1>5, <2>1, <2>2, Zenon DEF Agreement
<1> QED BY <1>4, <1>5, Zenon DEF SocketClosed

(* Those whom the alarm drops.                                             *)
Late == {p \in Peers_(room) : Overdue(p)}

LEMMA AlarmCases ==
    ASSUME Agreement, Alarm
    PROVE  \/ ~Live /\ alarm' = Never /\ UNCHANGED <<room, used, conn, current>>
           \/ Live /\ room \in Room /\ Seated(room, ticket) /\ Finish(room)
           \/ /\ Live /\ room.master \notin Late /\ Swept(Less(Late))
              /\ Less(Late) \in Room /\ UNCHANGED <<used, conn>>
<1>1. CASE ~Live
  BY <1>1, Zenon DEF Alarm
<1>2. CASE Live /\ Over
  BY <1>2, Facts, Zenon DEF Alarm
<1>3. CASE Live /\ ~Over
  <2>1. room.master \notin Late
    BY <1>3, Zenon DEF Over, Late
  <2>2. Swept(Less(Late)) /\ UNCHANGED <<used, conn>>
    BY <1>3, Zenon DEF Alarm, Less, Late
  <2>3. Less(Late) \in Room
    <3>1. \A q \in Peers : conn[q] = "none" => conn[q] = "none"
      BY Zenon
    <3> QED BY <1>3, <2>1, <3>1, Dropped, Zenon
  <2> QED BY <1>3, <2>1, <2>2, <2>3, Zenon
<1> QED BY <1>1, <1>2, <1>3, Zenon

LEMMA AlarmStep == ASSUME Agreement, Alarm PROVE Agreement'
<1>1. UNCHANGED <<ticket, closer, now>>
  BY Zenon DEF Alarm
<1>2. CASE ~Live /\ alarm' = Never /\ UNCHANGED <<room, used, conn, current>>
  <2>1. TypeOK'
    BY <1>1, <1>2, Zenon DEF Agreement, TypeOK
  <2> QED BY <1>1, <1>2, <2>1, Zenon DEF Agreement
<1>3. CASE Live /\ room \in Room /\ Seated(room, ticket) /\ Finish(room)
  BY <1>1, <1>3, FinishStep, Zenon
<1>4. CASE /\ Live /\ room.master \notin Late /\ Swept(Less(Late))
           /\ Less(Late) \in Room /\ UNCHANGED <<used, conn>>
  <2>1. /\ Seated(Less(Late), ticket) /\ Led(Less(Late), ticket)
        /\ Absent(Less(Late), used, conn)
    <3>1. \A q \in Peers : conn[q] = "none" => conn[q] = "none"
      BY Zenon
    <3> QED BY <1>4, <3>1, Dropped, Zenon
  <2>2. room' = Less(Late) /\ used' = used /\ conn' = conn
    BY <1>4, Zenon DEF Swept
  <2>3. alarm' \in Times \cup {Never}
    <3>1. alarm' = Min(Due(Less(Late))) \/ alarm' = alarm
      BY <1>4, Zenon DEF Swept
    <3>2. Min(Due(Less(Late))) \in Times
      BY <1>4, DueLeast, Zenon
    <3> QED BY <3>1, <3>2, Zenon DEF Agreement, TypeOK
  <2>4. current' \in SUBSET Peers
    BY <1>4, Zenon DEF Swept, OpenIn, Agreement, TypeOK
  <2>5. used' \in SUBSET Peers /\ conn' \in [Peers -> {"none", "open", "closing"}]
    BY <2>2, Zenon DEF Agreement, TypeOK
  <2> QED BY <1>1, <1>4, <2>1, <2>2, <2>3, <2>4, <2>5, Rewritten, Zenon
<1> QED BY <1>2, <1>3, <1>4, AlarmCases, Zenon
-----------------------------------------------------------------------------

LEMMA AgreementInit == Init => Agreement
<1> SUFFICES ASSUME Init PROVE Agreement
  BY Zenon
<1>1. 0 \in Times
  BY RoomAssumption, SMT DEF Times
<1>2. TypeOK
  BY <1>1, SMT DEF Init, TypeOK
<1> QED BY <1>2, Zenon DEF Init, Agreement

LEMMA AgreementStep == Agreement /\ [Next]_vars => Agreement'
<1> SUFFICES ASSUME Agreement, [Next]_vars PROVE Agreement'
  BY Zenon
<1>1. ASSUME NEW a \in Accounts,
             Create(a) \/ AdmitMaster(a) \/ AdmitMember(a) \/ CloseRequest(a)
      PROVE  Agreement'
  <2>1. CASE Create(a)
    BY <2>1, CreateStep, Zenon
  <2>2. CASE AdmitMaster(a)
    BY <2>2, AdmitStep, Zenon DEF AdmitMaster
  <2>3. CASE AdmitMember(a)
    BY <2>3, AdmitStep, Zenon DEF AdmitMember
  <2>4. CASE CloseRequest(a)
    BY <2>4, CloseRequestStep, Zenon
  <2> QED BY <1>1, <2>1, <2>2, <2>3, <2>4, Zenon
<1>2. ASSUME NEW p \in Peers,
             \/ Connect(p) \/ Leave(p) \/ SocketClosed(p) \/ SendTooLate(p)
             \/ TicketLapses(p)
             \/ \E s \in {"negotiating", "connected"} : RtcState(p, s)
             \/ \E q \in Peers : TransferMaster(p, q) \/ RemoveMember(p, q)
      PROVE  Agreement'
  <2>1. CASE Connect(p)
    BY <2>1, ConnectStep, Zenon
  <2>2. CASE Leave(p)
    BY <2>2, ClosingStep, Zenon DEF Leave
  <2>3. CASE SocketClosed(p)
    BY <2>3, SocketClosedStep, Zenon
  <2>4. CASE SendTooLate(p)
    BY <2>4, ClosingStep, Zenon DEF SendTooLate
  <2>5. CASE TicketLapses(p)
    BY <2>5, TicketLapsesStep, Zenon
  <2>6. CASE \E s \in {"negotiating", "connected"} : RtcState(p, s)
    BY <2>6, TalkStep, Zenon
  <2>7. CASE \E q \in Peers : TransferMaster(p, q) \/ RemoveMember(p, q)
    BY <2>7, TalkStep, RemoveMemberStep, Zenon
  <2> QED BY <1>2, <2>1, <2>2, <2>3, <2>4, <2>5, <2>6, <2>7, Zenon
<1>3. CASE AdmitNobody
  BY <1>3, AdmitNobodyStep, Zenon
<1>4. CASE Alarm
  BY <1>4, AlarmStep, Zenon
<1>5. CASE CloseBody
  BY <1>5, CloseBodyStep, Zenon
<1>6. CASE CloseAtOnce
  BY <1>6, CloseAtOnceStep, Zenon
<1>7. CASE Tick
  BY <1>7, TickStep, Zenon
<1>8. CASE UNCHANGED vars
  BY <1>8, Zenon DEF vars, Agreement, TypeOK
<1> QED BY <1>1, <1>2, <1>3, <1>4, <1>5, <1>6, <1>7, <1>8, Zenon DEF Next

LEMMA AgreementMeans == Agreement => RoomInv
<1> SUFFICES ASSUME Agreement PROVE RoomInv
  BY Zenon
<1>1. TypeOK /\ OnePerAccount /\ WithinCapacity
  BY Zenon DEF Agreement, Seated, OnePerAccount, WithinCapacity, Account
<1>2. MasterIsMember
  <2> SUFFICES ASSUME Live PROVE MasterIsMember
    BY Zenon DEF MasterIsMember
  <2>1. Led(room, ticket) /\ room.status # "closed"
    BY Facts, Zenon
  <2>2. CASE room.master = None
    BY <2>1, <2>2, Zenon DEF Led, MasterIsMember
  <2>3. CASE room.master # None
    BY <2>1, <2>3, Zenon DEF Led, MasterIsMember, Gone, Account
  <2> QED BY <2>2, <2>3, Zenon
<1> QED BY <1>1, <1>2, Zenon DEF RoomInv

(* A room of `MultiplayerRoomObject` has an account once, no more members  *)
(* than its size, and a master who is one of them and is away exactly when *)
(* the room waits for it: also when a handler ends between two writes and  *)
(* when a request to close writes back what it had read.                   *)
THEOREM RoomHolds == Spec => []RoomInv
<1>1. Spec => []Agreement
  BY AgreementInit, AgreementStep, PTL DEF Spec
<1> QED BY <1>1, AgreementMeans, PTL
-----------------------------------------------------------------------------

(* How the alarm, the sockets and the snapshots go with a live room.  A    *)
(* client that has not the room as it is waits for a member whose socket   *)
(* broke.                                                                  *)
Shown(r, al, c, cur) ==
    /\ al # Never /\ al <= r.expires
    /\ \A p \in Peers_(r) : r.members[p].gone # Never =>
                               al <= r.members[p].gone + Grace
    /\ \A p \in Peers : c[p] = "open" => p \in Peers_(r)
    /\ \A p \in Peers_(r) : r.members[p].gone = Never => c[p] # "none"
    /\ \/ \A p \in Peers : c[p] = "open" => p \in cur
       \/ \E p \in Peers_(r) : c[p] = "closing"

Steady ==
    /\ closer = None
    /\ Live => Shown(room, alarm, conn, current)
    /\ ~Live => \A p \in Peers : conn[p] # "open"

LEMMA StillShown ==
    ASSUME closer' = None, room'.status \in {"waiting-master", "open"},
           Shown(room', alarm', conn', current')
    PROVE  Steady'
<1>1. Live'
  BY Zenon DEF Live
<1> QED BY <1>1, Zenon DEF Steady

(* A room that ends closes all its sockets.                                *)
LEMMA FinishSteady ==
    ASSUME TypeOK, ~Faults, NEW r, Finish(r), closer' = None PROVE Steady'
<1>1. room' = NoRoom /\ conn' = AllClosing
  BY Zenon DEF Finish
<1>2. \A p \in Peers : AllClosing[p] # "open"
  BY SMT DEF AllClosing, Open, TypeOK
<1>3. NoRoom.status = "none"
  BY DEF NoRoom
<1>4. room'.status \notin {"waiting-master", "open"}
  BY <1>1, <1>3, SMT
<1>5. ~Live'
  BY <1>4, Zenon DEF Live
<1> QED BY <1>1, <1>2, <1>5, Zenon DEF Steady

LEMMA CreateSteady ==
    ASSUME Agreement, Steady, ~Faults, NEW a \in Accounts, Create(a) PROVE Steady'
<1>1. /\ room' = NewRoom(a) /\ closer' = None /\ alarm' = now + Ttl
      /\ now + Ttl <= MaxTime /\ TypeOK
  BY Zenon DEF Create, Steady, Agreement
<1>2. \A p \in Peers : conn'[p] # "open"
  <2>1. CASE Stale
    <3>1. conn' = AllClosing
      BY <2>1, Zenon DEF Create
    <3> QED BY <3>1, <1>1, SMT DEF AllClosing, Open, TypeOK
  <2>2. CASE ~Stale
    <3>1. room = NoRoom /\ conn' = conn
      BY <2>2, Zenon DEF Create
    <3>2. ~Live
      BY <1>1, <3>1, Live_, Zenon
    <3> QED BY <3>1, <3>2, Zenon DEF Steady
  <2> QED BY <2>1, <2>2, Zenon
<1>3. /\ room'.status = "waiting-master" /\ room'.expires = now + Ttl
      /\ room'.members = <<>>
  BY <1>1 DEF NewRoom
<1>4. Peers_(room') = {}
  BY <1>3, SMT DEF Peers_
<1>5. alarm' # Never /\ alarm' <= room'.expires
  BY <1>1, <1>3, RoomAssumption, SMT DEF TypeOK, Times, Never
<1>6. Shown(room', alarm', conn', current')
  BY <1>2, <1>4, <1>5, Zenon DEF Shown
<1> QED BY <1>1, <1>3, <1>6, StillShown, Zenon

(* A step that neither the room nor its sockets hear of.                   *)
LEMMA UnheardSteady ==
    ASSUME Steady, UNCHANGED <<room, alarm, conn, current, closer>> PROVE Steady'
BY Zenon DEF Steady, Live

(* persist and scheduleAlarm: the alarm is set for the room as it is now.  *)
LEMMA CommitAlarm ==
    ASSUME ~Faults, NEW r \in Room, NEW told, Commit(r, told)
    PROVE  /\ room' = r /\ current' = told
           /\ alarm' # Never /\ alarm' <= r.expires
           /\ \A p \in Peers_(r) :
                 r.members[p].gone # Never => alarm' <= r.members[p].gone + Grace
<1>1. room' = r /\ current' = told /\ alarm' = Min(Due(r))
  BY Zenon DEF Commit
<1>2. /\ Min(Due(r)) \in Times /\ Min(Due(r)) <= r.expires
      /\ \A p \in Peers_(r) :
            r.members[p].gone # Never => Min(Due(r)) <= r.members[p].gone + Grace
  BY DueLeast, Zenon
<1>3. Min(Due(r)) # Never
  BY <1>2, RoomAssumption, SMT DEF Times, Never
<1> QED BY <1>1, <1>2, <1>3, Zenon

LEMMA ConnectSteady ==
    ASSUME Agreement, Steady, ~Faults, NEW p \in Peers, Connect(p) PROVE Steady'
<1>1. MayEnter(p) /\ Live /\ closer' = None /\ TypeOK
  BY Zenon DEF Connect, MayEnter, Steady, Agreement
<1>2. Shown(room, alarm, conn, current) /\ Peers_(room) \subseteq Peers
  BY <1>1, Facts, Zenon DEF Steady
<1>3. /\ Entered(p) \in Room /\ Entered(p).status = "open"
      /\ Peers_(Entered(p)) = (Peers_(room) \ (Replaced(p) \ {p})) \cup {p}
      /\ Entered(p).members[p].gone = Never
      /\ \A q \in Peers_(Entered(p)) \ {p} :
            Entered(p).members[q].gone = room.members[q].gone
  BY <1>1, EnteredRoom, Zenon
<1>4. ASSUME NEW c \in {"open", "closing"}, conn' = Sockets(p, c),
             NEW told, Commit(Entered(p), told),
             c = "open" => told = OpenIn(conn')
      PROVE  Steady'
  <2>1. /\ room' = Entered(p) /\ current' = told
        /\ alarm' # Never /\ alarm' <= room'.expires
        /\ \A q \in Peers_(room') :
              room'.members[q].gone # Never => alarm' <= room'.members[q].gone + Grace
    BY <1>3, <1>4, CommitAlarm, Zenon
  <2>2. conn'[p] = c
    BY <1>4, Zenon DEF Sockets
  <2>3. ASSUME NEW q \in Peers, q # p
        PROVE  /\ conn'[q] = "open" => conn[q] = "open" /\ q \notin Replaced(p)
               /\ conn[q] # "none" => conn'[q] # "none"
    <3>1. conn'[q] = IF q \in Replaced(p) /\ Open(q) THEN "closing" ELSE conn[q]
      BY <1>4, <2>3, Zenon DEF Sockets
    <3> QED BY <3>1, SMT DEF Open
  <2>4. \A q \in Peers : conn'[q] = "open" => q \in Peers_(room')
    <3> SUFFICES ASSUME NEW q \in Peers, conn'[q] = "open", q # p
                 PROVE  q \in Peers_(Entered(p))
      BY <1>3, <2>1, Zenon
    <3>1. q \in Peers_(room) /\ q \notin Replaced(p)
      BY <1>2, <2>3, Zenon DEF Shown
    <3> QED BY <3>1, <1>3, Zenon
  <2>5. \A q \in Peers_(room') : room'.members[q].gone = Never => conn'[q] # "none"
    <3> SUFFICES ASSUME NEW q \in Peers_(Entered(p)),
                        Entered(p).members[q].gone = Never
                 PROVE  conn'[q] # "none"
      BY <2>1, Zenon
    <3>1. CASE q = p
      BY <2>2, <3>1, SMT
    <3>2. CASE q # p
      <4>1. q \in Peers_(room) /\ room.members[q].gone = Never /\ q \in Peers
        BY <1>2, <1>3, <3>2, Zenon
      <4>2. conn[q] # "none"
        BY <1>2, <4>1, Zenon DEF Shown
      <4> QED BY <2>3, <3>2, <4>1, <4>2, Zenon
    <3> QED BY <3>1, <3>2, Zenon
  <2>6. \/ \A q \in Peers : conn'[q] = "open" => q \in current'
        \/ \E q \in Peers_(room') : conn'[q] = "closing"
    <3>1. CASE c = "open"
      BY <1>4, <2>1, <3>1, Zenon DEF OpenIn
    <3>2. CASE c = "closing"
      BY <1>3, <2>1, <2>2, <3>2, Zenon
    <3> QED BY <1>4, <3>1, <3>2, Zenon
  <2>7. Shown(room', alarm', conn', current')
    BY <2>1, <2>4, <2>5, <2>6, Zenon DEF Shown
  <2>8. room'.status \in {"waiting-master", "open"}
    BY <1>3, <2>1, Zenon
  <2> QED BY <1>1, <2>7, <2>8, StillShown, Zenon
<1>5. \/ conn' = Sockets(p, "open") /\ Commit(Entered(p), OpenIn(conn'))
      \/ conn' = Sockets(p, "closing") /\ Commit(Entered(p), {})
  BY Zenon DEF Connect
<1>6. "closing" # "open"
  BY SMT
<1> QED BY <1>4, <1>5, <1>6, Zenon

(* A message that every client is told of.                                 *)
LEMMA TalkSteady ==
    ASSUME Agreement, Steady, NEW p \in Peers,
           \/ \E s \in {"negotiating", "connected"} : RtcState(p, s)
           \/ \E q \in Peers : TransferMaster(p, q)
    PROVE  Steady'
<1>1. /\ Live /\ room'.status \in {"waiting-master", "open"}
      /\ room'.expires = room.expires /\ Peers_(room') = Peers_(room)
      /\ \A r \in Peers_(room) : room'.members[r].gone = room.members[r].gone
      /\ current' = OpenIn(conn)
      /\ alarm' = alarm /\ conn' = conn /\ closer' = closer
  BY RtcStateRoom, TransferMasterRoom, Zenon
<1>2. Shown(room, alarm, conn, current) /\ closer' = None
  BY <1>1, Zenon DEF Steady
<1>3. \A q \in Peers : conn'[q] = "open" => q \in current'
  BY <1>1, Zenon DEF OpenIn
<1>4. Shown(room', alarm', conn', current')
  BY <1>1, <1>2, <1>3, Zenon DEF Shown
<1> QED BY <1>1, <1>2, <1>4, StillShown, Zenon

(* Members who are dropped have no open socket, and the others hear of it  *)
(* unless nothing changed.                                                 *)
LEMMA DroppedSteady ==
    ASSUME Agreement, Steady, Live, NEW S, room.master \notin S, room' = Less(S),
           closer' = closer,
           alarm' # Never, alarm' <= room'.expires,
           \A q \in Peers_(room') : room'.members[q].gone # Never =>
                                      alarm' <= room'.members[q].gone + Grace,
           \A q \in Peers : conn'[q] = "open" => conn[q] = "open" /\ q \notin S,
           \A q \in Peers : conn[q] # "none" => conn'[q] # "none",
           \/ \A q \in Peers : conn'[q] = "open" => q \in current'
           \/ \E q \in Peers_(room') : conn'[q] = "closing"
    PROVE  Steady'
<1>1. Shown(room, alarm, conn, current) /\ closer' = None
      /\ Peers_(room) \subseteq Peers /\ room.status \in {"waiting-master", "open"}
  BY Facts, Zenon DEF Steady
<1>2. /\ room'.status = room.status /\ Peers_(room') = Peers_(room) \ S
      /\ \A q \in Peers_(room') : room'.members[q] = room.members[q]
  <2>1. \A q \in Peers : conn[q] = "none" => conn[q] = "none"
    BY Zenon
  <2>2. /\ Less(S).status = room.status /\ Peers_(Less(S)) = Peers_(room) \ S
        /\ \A q \in Peers_(Less(S)) : Less(S).members[q] = room.members[q]
    BY <2>1, Dropped, Zenon
  <2> QED BY <2>2, Zenon
<1>3. \A q \in Peers : conn'[q] = "open" => q \in Peers_(room')
  BY <1>1, <1>2, Zenon DEF Shown
<1>4. \A q \in Peers_(room') : room'.members[q].gone = Never => conn'[q] # "none"
  BY <1>1, <1>2, Zenon DEF Shown
<1>5. Shown(room', alarm', conn', current')
  BY <1>3, <1>4, Zenon DEF Shown
<1> QED BY <1>1, <1>2, <1>5, StillShown, Zenon

LEMMA RemoveMemberSteady ==
    ASSUME Agreement, Steady, NEW p \in Peers, NEW q \in Peers, RemoveMember(p, q)
    PROVE  Steady'
<1> DEFINE S == {q}
<1>1. /\ Live /\ room.master \notin S
      /\ conn' = [conn EXCEPT ![q] = IF Open(q) THEN "closing" ELSE @]
      /\ room' = Less(S) /\ current' = OpenIn(conn')
      /\ alarm' = alarm /\ closer' = closer
  BY Zenon DEF RemoveMember, Persist, Less
<1>2. Shown(room, alarm, conn, current)
  BY <1>1, Zenon DEF Steady
<1>3. /\ room'.expires = room.expires /\ Peers_(room') \subseteq Peers_(room)
      /\ \A r \in Peers_(room') : room'.members[r] = room.members[r]
  <2>1. \A r \in Peers : conn[r] = "none" => conn[r] = "none"
    BY Zenon
  <2> HIDE DEF S
  <2>2. /\ room'.expires = room.expires /\ Peers_(room') = Peers_(room) \ S
        /\ \A r \in Peers_(room') : room'.members[r] = room.members[r]
    BY <1>1, <2>1, Dropped, Zenon
  <2> QED BY <2>2, Zenon
<1>4. conn \in [Peers -> {"none", "open", "closing"}]
  BY Zenon DEF Agreement, TypeOK
<1>5. /\ \A r \in Peers : conn'[r] = "open" => conn[r] = "open" /\ r \notin S
      /\ \A r \in Peers : conn[r] # "none" => conn'[r] # "none"
  BY <1>1, <1>4, SMT DEF Open
<1>6. \A r \in Peers : conn'[r] = "open" => r \in current'
  BY <1>1, Zenon DEF OpenIn
<1>7. /\ alarm' # Never /\ alarm' <= room'.expires
      /\ \A r \in Peers_(room') : room'.members[r].gone # Never =>
                                 alarm' <= room'.members[r].gone + Grace
  BY <1>1, <1>2, <1>3, Zenon DEF Shown
<1> HIDE DEF S
<1> QED BY <1>1, <1>5, <1>6, <1>7, DroppedSteady, Zenon

LEMMA LeaveSteady ==
    ASSUME Agreement, Steady, NEW p \in Peers, Open(p),
           conn' = [conn EXCEPT ![p] = "closing"],
           UNCHANGED <<room, alarm, used, ticket, current, closer, now>>
    PROVE  Steady'
<1>1. Live /\ closer' = None /\ room' = room /\ alarm' = alarm /\ current' = current
  BY Zenon DEF Steady, Open
<1>2. Shown(room, alarm, conn, current) /\ Peers_(room) \subseteq Peers
      /\ room.status \in {"waiting-master", "open"}
  BY <1>1, Facts, Zenon DEF Steady
<1>3. conn \in [Peers -> {"none", "open", "closing"}]
  BY Zenon DEF Agreement, TypeOK
<1>4. /\ conn'[p] = "closing"
      /\ \A q \in Peers : conn'[q] = "open" => conn[q] = "open"
      /\ \A q \in Peers : conn[q] # "none" => conn'[q] # "none"
  BY <1>3, SMT
<1>5. p \in Peers_(room)
  BY <1>2, Zenon DEF Shown, Open
<1>6. Shown(room', alarm', conn', current')
  BY <1>1, <1>2, <1>4, <1>5, Zenon DEF Shown
<1> QED BY <1>1, <1>2, <1>6, StillShown, Zenon

LEMMA SocketClosedSteady ==
    ASSUME Agreement, Steady, ~Faults, NEW p \in Peers, SocketClosed(p) PROVE Steady'
<1>1. conn' = [conn EXCEPT ![p] = "none"] /\ conn[p] = "closing" /\ closer' = None
  BY Zenon DEF SocketClosed, Steady
<1>2. conn \in [Peers -> {"none", "open", "closing"}]
  BY Zenon DEF Agreement, TypeOK
<1>3. /\ \A q \in Peers : conn'[q] = "open" => conn[q] = "open"
      /\ \A q \in Peers : q # p => conn'[q] = conn[q]
  BY <1>1, <1>2, SMT
<1>4. CASE Live /\ p \in Peers_(room)
  <2>1. Shown(room, alarm, conn, current) /\ Peers_(room) \subseteq Peers
    BY <1>4, Facts, Zenon DEF Steady
  <2>2. /\ Left(p) \in Room /\ Left(p).status \in {"waiting-master", "open"}
        /\ Peers_(Left(p)) = Peers_(room) /\ Left(p).members[p].gone = now
        /\ \A q \in Peers_(room) \ {p} :
              Left(p).members[q].gone = room.members[q].gone
    BY <1>4, LeftRoom, Zenon
  <2>3. Commit(Left(p), OpenIn(conn'))
    BY <1>4, Zenon DEF SocketClosed
  <2>4. /\ room' = Left(p) /\ current' = OpenIn(conn')
        /\ alarm' # Never /\ alarm' <= room'.expires
        /\ \A q \in Peers_(room') :
              room'.members[q].gone # Never => alarm' <= room'.members[q].gone + Grace
    BY <2>2, <2>3, CommitAlarm, Zenon
  <2>5. now # Never
    BY RoomAssumption, SMT DEF Agreement, TypeOK, Times, Never
  <2>6. \A q \in Peers : conn'[q] = "open" => q \in Peers_(room') /\ q \in current'
    BY <1>3, <2>1, <2>2, <2>4, Zenon DEF Shown, OpenIn
  <2>7. \A q \in Peers_(room') : room'.members[q].gone = Never => conn'[q] # "none"
    BY <1>3, <2>1, <2>2, <2>4, <2>5, Zenon DEF Shown
  <2>8. Shown(room', alarm', conn', current')
    BY <2>4, <2>6, <2>7, Zenon DEF Shown
  <2> QED BY <1>1, <2>2, <2>4, <2>8, StillShown, Zenon
<1>5. CASE ~(Live /\ p \in Peers_(room))
  <2>1. room' = room /\ alarm' = alarm /\ current' = current
    BY <1>5, Zenon DEF SocketClosed
  <2>2. CASE ~Live
    BY <1>1, <1>3, <2>1, <2>2, Zenon DEF Steady, Live
  <2>3. CASE Live
    <3>1. Shown(room, alarm, conn, current) /\ p \notin Peers_(room)
          /\ Peers_(room) \subseteq Peers /\ room.status \in {"waiting-master", "open"}
      BY <1>5, <2>3, Facts, Zenon DEF Steady
    <3>2. \A q \in Peers_(room) : conn'[q] = conn[q]
      BY <1>3, <3>1, Zenon
    <3>3. Shown(room', alarm', conn', current')
      BY <1>3, <2>1, <3>1, <3>2, Zenon DEF Shown
    <3> QED BY <1>1, <2>1, <3>1, <3>3, StillShown, Zenon
  <2> QED BY <2>2, <2>3, Zenon
<1> QED BY <1>4, <1>5, Zenon

LEMMA AlarmSteady ==
    ASSUME Agreement, Steady, ~Faults, Alarm PROVE Steady'
<1>1. closer' = closer /\ closer' = None /\ TypeOK
  BY Zenon DEF Alarm, Steady, Agreement
<1>2. CASE ~Live /\ alarm' = Never /\ UNCHANGED <<room, used, conn, current>>
  BY <1>1, <1>2, Zenon DEF Steady, Live
<1>3. CASE Live /\ room \in Room /\ Seated(room, ticket) /\ Finish(room)
  BY <1>1, <1>3, FinishSteady, Zenon
<1>4. CASE /\ Live /\ room.master \notin Late /\ Swept(Less(Late))
           /\ Less(Late) \in Room /\ UNCHANGED <<used, conn>>
  <2>1. Shown(room, alarm, conn, current)
    BY <1>4, Zenon DEF Steady
  <2>2. /\ room' = Less(Late) /\ conn' = conn /\ alarm' = Min(Due(Less(Late)))
        /\ current' = IF room' = room THEN current ELSE OpenIn(conn)
    BY <1>4, Zenon DEF Swept
  <2>3. /\ Min(Due(Less(Late))) \in Times /\ Min(Due(Less(Late))) <= Less(Late).expires
        /\ \A q \in Peers_(Less(Late)) : Less(Late).members[q].gone # Never =>
              Min(Due(Less(Late))) <= Less(Late).members[q].gone + Grace
    BY <1>4, DueLeast, Zenon
  <2>4. alarm' # Never
    BY <2>2, <2>3, RoomAssumption, SMT DEF Times, Never
  <2>5. \A q \in Peers : conn'[q] = "open" => conn[q] = "open" /\ q \notin Late
    <3>1. \A q \in Late : conn[q] = "none"
      BY <1>4, Facts, Zenon DEF Late, Overdue, Gone, Absent
    <3>2. "none" # "open"
      BY SMT
    <3> QED BY <2>2, <3>1, <3>2, Zenon
  <2>6. \/ \A q \in Peers : conn'[q] = "open" => q \in current'
        \/ \E q \in Peers_(room') : conn'[q] = "closing"
    <3>1. CASE room' = room
      BY <2>1, <2>2, <3>1, Zenon DEF Shown
    <3>2. CASE room' # room
      BY <2>2, <3>2, Zenon DEF OpenIn
    <3> QED BY <3>1, <3>2, Zenon
  <2> QED BY <1>1, <1>4, <2>2, <2>3, <2>4, <2>5, <2>6, DroppedSteady, Zenon
<1> QED BY <1>2, <1>3, <1>4, AlarmCases, Zenon
-----------------------------------------------------------------------------

LEMMA SteadyInit == Init => Steady
<1> SUFFICES ASSUME Init PROVE Steady
  BY Zenon
<1>1. room = NoRoom /\ closer = None /\ conn = [p \in Peers |-> "none"]
  BY Zenon DEF Init
<1>2. NoRoom.status = "none"
  BY DEF NoRoom
<1>3. ~Live
  BY <1>1, <1>2, SMT DEF Live
<1>4. \A p \in Peers : conn[p] # "open"
  BY <1>1, SMT
<1> QED BY <1>1, <1>3, <1>4, Zenon DEF Steady

LEMMA SteadyStep ==
    ASSUME ~Faults, ~SlowBodies
    PROVE  Agreement /\ Steady /\ [Next]_vars => Steady'
<1> SUFFICES ASSUME Agreement, Steady, [Next]_vars PROVE Steady'
  BY Zenon
<1>0. closer = None /\ TypeOK
  BY Zenon DEF Steady, Agreement
<1>1. ASSUME NEW a \in Accounts,
             Create(a) \/ AdmitMaster(a) \/ AdmitMember(a) \/ CloseRequest(a)
      PROVE  Steady'
  <2>1. CASE Create(a)
    BY <2>1, CreateSteady, Zenon
  <2>2. CASE AdmitMaster(a)
    BY <2>2, UnheardSteady, Zenon DEF AdmitMaster
  <2>3. CASE AdmitMember(a)
    BY <2>3, UnheardSteady, Zenon DEF AdmitMember
  <2>4. CASE CloseRequest(a)
    BY <2>4, Zenon DEF CloseRequest
  <2> QED BY <1>1, <2>1, <2>2, <2>3, <2>4, Zenon
<1>2. ASSUME NEW p \in Peers,
             \/ Connect(p) \/ Leave(p) \/ SocketClosed(p) \/ SendTooLate(p)
             \/ TicketLapses(p)
             \/ \E s \in {"negotiating", "connected"} : RtcState(p, s)
             \/ \E q \in Peers : TransferMaster(p, q) \/ RemoveMember(p, q)
      PROVE  Steady'
  <2>1. CASE Connect(p)
    BY <2>1, ConnectSteady, Zenon
  <2>2. CASE Leave(p)
    BY <2>2, LeaveSteady, Zenon DEF Leave
  <2>3. CASE SocketClosed(p)
    BY <2>3, SocketClosedSteady, Zenon
  <2>4. CASE SendTooLate(p)
    BY <2>4, LeaveSteady, Zenon DEF SendTooLate
  <2>5. CASE TicketLapses(p)
    BY <2>5, UnheardSteady, Zenon DEF TicketLapses
  <2>6. CASE \E s \in {"negotiating", "connected"} : RtcState(p, s)
    BY <2>6, TalkSteady, Zenon
  <2>7. CASE \E q \in Peers : TransferMaster(p, q) \/ RemoveMember(p, q)
    BY <2>7, TalkSteady, RemoveMemberSteady, Zenon
  <2> QED BY <1>2, <2>1, <2>2, <2>3, <2>4, <2>5, <2>6, <2>7, Zenon
<1>3. CASE AdmitNobody
  BY <1>0, <1>3, FinishSteady, Zenon DEF AdmitNobody
<1>4. CASE Alarm
  BY <1>4, AlarmSteady, Zenon
<1>5. CASE CloseBody
  BY <1>0, <1>5, Zenon DEF CloseBody
<1>6. CASE CloseAtOnce
  BY <1>0, <1>6, FinishSteady, Zenon DEF CloseAtOnce
<1>7. CASE Tick
  BY <1>7, UnheardSteady, Zenon DEF Tick
<1>8. CASE UNCHANGED vars
  BY <1>8, UnheardSteady, Zenon DEF vars
<1> QED BY <1>1, <1>2, <1>3, <1>4, <1>5, <1>6, <1>7, <1>8, Zenon DEF Next

LEMMA SteadyMeans == Agreement /\ Steady => SteadyInv
<1> SUFFICES ASSUME Agreement, Steady PROVE SteadyInv
  BY Zenon
<1>1. CASE Live
  <2>1. Shown(room, alarm, conn, current) /\ Peers_(room) \subseteq Peers
    BY <1>1, Facts, Zenon DEF Steady
  <2>2. AlarmCovers
    BY <2>1, Zenon DEF AlarmCovers, Shown, Gone
  <2>3. SocketsAreMembers
    BY <1>1, <2>1, Zenon DEF SocketsAreMembers, Shown, Gone, Open
  <2>4. EveryoneSeesTheRoom
    BY <2>1, Zenon DEF EveryoneSeesTheRoom, Shown, Open
  <2> QED BY <2>2, <2>3, <2>4, Zenon DEF SteadyInv
<1>2. CASE ~Live
  <2>1. \A p \in Peers : ~Open(p)
    BY <1>2, Zenon DEF Steady, Open
  <2> QED BY <1>2, <2>1, Zenon DEF SteadyInv, AlarmCovers, SocketsAreMembers,
                                 EveryoneSeesTheRoom
<1> QED BY <1>1, <1>2, Zenon

(* While the storage of `MultiplayerRoomObject` does not fail and requests *)
(* come whole: its alarm covers the room and every member who is away, a   *)
(* socket that is open is a member's and a member who is not away has one, *)
(* and who is connected has been sent the room as it is, unless the event  *)
(* of a broken socket is due.                                              *)
THEOREM SteadyRoom ==
    ASSUME ~Faults, ~SlowBodies
    PROVE  Spec => []SteadyInv
<1>1. Spec => [](Agreement /\ Steady)
  BY AgreementInit, AgreementStep, SteadyInit, SteadyStep, PTL DEF Spec
<1> QED BY <1>1, SteadyMeans, PTL

(* The rooms that MCEdge checks.                                           *)
THEOREM SteadyRoomHolds ==
    ASSUME ~Faults, ~SlowBodies
    PROVE  MCSpec => []SteadyRoomInv
<1>. DEFINE IInv == part = "rooms" => Agreement /\ Steady
<1>1. MCInit => IInv
  BY AgreementInit, SteadyInit DEF MCInit
<1>2. IInv /\ [MCNext]_<<part, vars, meterVars>> => IInv'
  <2>. SUFFICES ASSUME IInv, [MCNext]_<<part, vars, meterVars>>, part' = "rooms"
                PROVE  (Agreement /\ Steady)'
    OBVIOUS
  <2>1. Agreement /\ Steady /\ [Next]_vars
    BY DEF MCNext
  <2>. QED BY <2>1, AgreementStep, SteadyStep
<1>3. IInv => SteadyRoomInv
  BY SteadyMeans DEF SteadyRoomInv
<1>. QED BY <1>1, <1>2, <1>3, PTL DEF MCSpec

-----------------------------------------------------------------------------
(* Relayed bytes.  A credential that owes bytes was asked about by every   *)
(* sweep started after it expired and before it is forgotten, but for the  *)
(* sweeps that failed: the sweeps of that window that are over without an  *)
(* answer are no more than the failures, and they are fewer than the       *)
(* window has times.                                                       *)

(* A sweep that is not over.                                               *)
Asking == [at : Turn!Times, todo : SUBSET Pair, doing : Pair \cup {None},
           answer : Turn!Bytes]

(* The bytes that are counted for a credential in the end, and one that is *)
(* not charged for all of them.                                            *)
Final(c) == Turn!Counted(c, issuance[c].expires)

Owing(c) == issuance[c].observed # Final(c)

(* The times at which a sweep that is started sees all of the bytes of c.  *)
InWindow(c, a) == issuance[c].expires + TurnDelay <= a
    /\ a < issuance[c].expires + TurnWindow

(* A sweep that has yet to ask about c or to settle the answer.            *)
Has(w, c) == c \in querying[w].todo \/ querying[w].doing = c

(* The times in the window of c whose sweep is over, or left c out.        *)
Missed(c) ==
    {a \in Turn!Times : /\ InWindow(c, a) /\ started # None /\ a <= started
                   /\ ~\E w \in TurnSweeps : querying[w] # Turn!Idle
                          /\ querying[w].at = a /\ Has(w, c)}

(* Sweeps are started one at a time, at every time but perhaps this one.   *)
SweepsStarted ==
    /\ minute = 0 \/ (started # None /\ minute - 1 <= started)
    /\ started # None => started <= minute
    /\ \A w \in TurnSweeps : querying[w] # Turn!Idle =>
          /\ started # None /\ querying[w].at <= started
          /\ minute - querying[w].at <= TurnRun
          /\ \A v \in TurnSweeps : querying[v] # Turn!Idle
                 /\ querying[v].at = querying[w].at => v = w

(* What a sweep asks about was issued early enough, and what it was told   *)
(* is what counts, all of it once the issuance has expired.                *)
Knows(w) ==
    /\ \A c \in Pair :
          Has(w, c) => /\ issuance[c] # Turn!NotIssued
                       /\ issuance[c].issued < querying[w].at - TurnDelay
    /\ \A c \in Pair : querying[w].doing = c =>
          /\ querying[w].answer <= Final(c)
          /\ issuance[c].expires <= querying[w].at - TurnDelay
                 => querying[w].answer = Final(c)

SweepsKnow == \A w \in TurnSweeps : querying[w] # Turn!Idle => Knows(w)

(* The analytics add up what is relayed, and no more is charged for than   *)
(* is counted.                                                             *)
Fits(c) ==
    /\ route[c] = "new" <=> issuance[c] = Turn!NotIssued
    /\ route[c] # "given" => \A t \in Turn!Minutes : relayed[c][t] = 0
    /\ \A t, u \in Turn!Minutes : t <= u => relayed[c][t] <= relayed[c][u]
    /\ issuance[c] # Turn!NotIssued =>
          /\ issuance[c].expires = issuance[c].issued + TurnTtl
          /\ issuance[c].issued <= minute /\ issuance[c].observed <= Final(c)
    /\ issuance[c].state = "pruned"
           => issuance[c].expires + TurnWindow <= minute

RelayedFits == \A c \in Pair : Fits(c)

(* Only failures lose a sweep that owed bytes are waiting for.             *)
FewMissed ==
    \A c \in Pair :
        Turn!Live(c) /\ Owing(c) => Cardinality(Missed(c)) <= failures

TurnKept == Turn!TypeOK /\ SweepsStarted /\ SweepsKnow /\ RelayedFits
    /\ FewMissed
            /\ Turn!PrunedIsCharged

(* The numbers of the meter.                                               *)
LEMMA TurnNumbers ==
    ASSUME Turn!TurnAssumption
    PROVE  /\ Periods \in Nat /\ TurnLimit \in Nat /\ TurnTtl \in Nat
           /\ TurnDelay \in Nat
           /\ TurnWindow \in Nat /\ TurnRun \in Nat /\ TurnFailures \in Nat
           /\ TurnBytes \in Nat /\ TurnTime \in Nat
           /\ TurnTime \in Turn!Times /\ Turn!Times \subseteq Nat
           /\ Turn!Times \subseteq Turn!Minutes /\ Turn!Minutes \subseteq Nat
           /\ Turn!Bytes \subseteq Nat
           /\ TurnTtl > 0 /\ TurnDelay + TurnFailures + TurnRun < TurnWindow
           /\ IsFiniteSet(Pair) /\ None \notin Pair /\ None \notin Turn!Times
<1>1. {Periods, TurnLimit, TurnTtl, TurnDelay, TurnWindow, TurnRun,
          TurnFailures,
      TurnBytes, TurnTime} \subseteq Nat
  BY DEF Turn!TurnAssumption
<1>2. TurnTime \in Nat /\ TurnBytes \in Nat
  BY <1>1
<1>3. IsFiniteSet(Pair)
  BY DEF Turn!TurnAssumption, Turn!IsFiniteSet, IsFiniteSet
<1> QED BY <1>1, <1>2, <1>3
           DEF Turn!TurnAssumption, Turn!Times, Turn!Bytes, Turn!Minutes

(* What is counted for a credential before a minute that is later than     *)
(* that of its issue: no less than nothing, and no more than was relayed.  *)
LEMMA CountedBounds ==
    ASSUME Turn!TurnAssumption, Turn!TypeOK, NEW c \in Pair, Fits(c),
           issuance[c] # Turn!NotIssued
    PROVE  /\ issuance[c] \in Turn!Issuance
           /\ issuance[c].issued \in Turn!Times
           /\ issuance[c].issued + 1 \in Turn!Minutes
           /\ issuance[c].issued + 1 <= issuance[c].expires
           /\ issuance[c].expires \in Turn!Minutes
           /\ issuance[c].observed \in Nat
           /\ \A t \in Turn!Minutes : relayed[c][t] \in Turn!Bytes
           /\ Final(c) \in Nat
           /\ \A t \in Turn!Minutes :
                 issuance[c].issued < t =>
                     /\ Turn!Counted(c, t) \in Turn!Bytes
                     /\ t <= issuance[c].expires
                            => Turn!Counted(c, t) <= Final(c)
<1> USE TurnNumbers
<1>1. /\ issuance[c] \in Turn!Issuance /\ issuance[c].issued \in Turn!Times
      /\ issuance[c].expires \in Nat /\ issuance[c].observed \in Nat
  <2>1. \A i \in Turn!Issuance : i.issued \in Turn!Times /\ i.expires \in Nat
            /\ i.observed \in Nat
    BY DEF Turn!Issuance
  <2> QED BY <2>1 DEF Turn!TypeOK
<1> DEFINE first == issuance[c].issued + 1
           last == issuance[c].expires
<1>2. /\ first \in Turn!Minutes /\ last \in Turn!Minutes /\ first <= last
      /\ first = issuance[c].issued + 1
  <2>1. issuance[c].expires = issuance[c].issued + TurnTtl
    BY DEF Fits
  <2> QED BY <1>1, <2>1 DEF Turn!Minutes, Turn!Times
<1>3. \A t \in Turn!Minutes : relayed[c][t] \in Turn!Bytes
          /\ relayed[c][t] \in 0 .. TurnBytes
  BY DEF Turn!TypeOK, Turn!Bytes
<1>4. ASSUME NEW t \in Turn!Minutes, first <= t
      PROVE  /\ Turn!Counted(c, t) = relayed[c][t] - relayed[c][first]
             /\ relayed[c][first] <= relayed[c][t]
  BY <1>2, <1>4 DEF Turn!Counted, Fits
<1>5. Final(c) = relayed[c][last] - relayed[c][first]
          /\ relayed[c][first] <= relayed[c][last]
  BY <1>2, <1>4 DEF Final
<1>6. ASSUME NEW t \in Turn!Minutes, first <= t, t <= last
      PROVE  relayed[c][t] <= relayed[c][last]
  BY <1>2, <1>6 DEF Fits
<1>7. ASSUME NEW t \in Turn!Minutes, issuance[c].issued < t
      PROVE  first <= t
  BY <1>1, <1>2, <1>7
<1> HIDE DEF first, last
<1>8. Final(c) \in Nat
  BY <1>2, <1>3, <1>5
<1>9. ASSUME NEW t \in Turn!Minutes, issuance[c].issued < t
      PROVE  Turn!Counted(c, t) \in Turn!Bytes
  <2>1. /\ relayed[c][t] \in 0 .. TurnBytes
        /\ relayed[c][first] \in 0 .. TurnBytes
        /\ relayed[c][first] <= relayed[c][t]
        /\ Turn!Counted(c, t) = relayed[c][t] - relayed[c][first]
    BY <1>2, <1>3, <1>4, <1>7, <1>9
  <2> QED BY <2>1 DEF Turn!Bytes
<1>10. ASSUME NEW t \in Turn!Minutes, issuance[c].issued < t, t <= last
       PROVE  Turn!Counted(c, t) <= Final(c)
  <2>1. relayed[c][t] <= relayed[c][last]
    BY <1>6, <1>7, <1>10
  <2>2. Turn!Counted(c, t) = relayed[c][t] - relayed[c][first]
    BY <1>4, <1>7, <1>10
  <2>3. /\ relayed[c][t] \in Nat /\ relayed[c][first] \in Nat
        /\ relayed[c][last] \in Nat
    BY <1>2, <1>3
  <2> QED BY <1>5, <2>1, <2>2, <2>3
<1> QED BY <1>1, <1>2, <1>3, <1>8, <1>9, <1>10 DEF first, last

(* The bytes relayed now are counted in the end unless the issuance has    *)
(* expired, and until then alone.                                          *)
LEMMA RelayCounts ==
    ASSUME Turn!TurnAssumption, Turn!TypeOK, NEW c \in Pair, Fits(c),
           issuance[c] # Turn!NotIssued, Turn!Relay(c)
    PROVE  /\ Final(c)' \in Nat /\ Final(c) <= Final(c)'
           /\ issuance[c].expires <= minute => Final(c)' = Final(c)
<1> USE TurnNumbers
<1> DEFINE first == issuance[c].issued + 1
           last == issuance[c].expires
           more(t) == IF t > minute THEN 1 ELSE 0
<1>1. /\ first \in Turn!Minutes /\ last \in Turn!Minutes /\ first <= last
      /\ relayed[c][first] \in Nat /\ relayed[c][last] \in Nat
      /\ Final(c) \in Nat /\ minute \in Nat
      /\ Final(c) = relayed[c][last] - relayed[c][first]
  BY CountedBounds DEF Turn!TypeOK, Final, Turn!Counted, Turn!Bytes
<1>2. /\ relayed'[c][first] = relayed[c][first] + more(first)
      /\ relayed'[c][last] = relayed[c][last] + more(last)
      /\ issuance' = issuance
  BY <1>1 DEF Turn!Relay, Turn!TypeOK
<1>3. Final(c)' = relayed'[c][last] - relayed'[c][first]
  BY <1>2 DEF Final, Turn!Counted
<1>4. first \in Nat /\ last \in Nat
  BY <1>1
<1> HIDE DEF first, last
<1>5. /\ Final(c)' \in Nat /\ Final(c) <= Final(c)'
      /\ last <= minute => Final(c)' = Final(c)
  BY <1>1, <1>2, <1>3, <1>4
<1> QED BY <1>5 DEF last

(* Each step keeps the parts of the invariant.                             *)
LEMMA TurnTypes ==
    ASSUME Turn!TurnAssumption, TurnKept, Turn!Next PROVE Turn!TypeOK'
<1> USE TurnNumbers DEF Turn!Sources, Turn!Times, Turn!Bytes
<1>0. /\ Turn!TypeOK
      /\ issuance \in [Pair -> Turn!Issuance \cup {Turn!NotIssued}]
      /\ usage \in [Turn!Sources -> Nat]
      /\ querying \in [TurnSweeps -> Asking \cup {Turn!Idle}]
      /\ relayed \in [Pair -> [Turn!Minutes -> Turn!Bytes]]
      /\ until \in [Pair -> Turn!Minutes]
      /\ minute \in 0 .. TurnTime /\ minute \in Nat
  <2>1. Turn!TypeOK /\ minute \in Turn!Times
    BY DEF TurnKept, Turn!TypeOK
  <2> QED BY <2>1 DEF Turn!TypeOK, Asking
<1>1. ASSUME NEW c \in Pair, Turn!Authorize(c) PROVE Turn!TypeOK'
  <2>1. PICK s \in Turn!Sources : issuance' = [issuance EXCEPT ![c] =
                 [state |-> "live", source |-> s, issued |-> minute,
                  expires |-> minute + TurnTtl, observed |-> 0]]
    BY <1>1 DEF Turn!Authorize
  <2>2. [state |-> "live", source |-> s, issued |-> minute,
                  expires |-> minute + TurnTtl, observed |-> 0]
                      \in Turn!Issuance
    <3>1. minute + TurnTtl \in Nat
      BY <1>0
    <3> QED BY <1>0, <3>1 DEF Turn!Issuance
  <2>3. issuance' \in [Pair -> Turn!Issuance \cup {Turn!NotIssued}]
    BY <1>0, <2>1, <2>2
  <2> QED BY <1>0, <1>1, <2>3 DEF Turn!Authorize, Turn!TypeOK
<1>2. ASSUME NEW c \in Pair, Turn!Release(c) PROVE Turn!TypeOK'
  <2>1. Turn!Live(c) => issuance[c] \in Turn!Issuance
    BY <1>0 DEF Turn!Live, Turn!NotIssued
  <2>2. issuance' = [issuance EXCEPT ![c] =
            IF Turn!Live(c) THEN [issuance[c] EXCEPT !.state = "released"]
                ELSE issuance[c]]
    BY <1>0, <1>2 DEF Turn!Release
  <2>3. Turn!Live(c)
            => [issuance[c] EXCEPT !.state = "released"] \in Turn!Issuance
    BY <2>1 DEF Turn!Issuance
  <2>4. issuance' \in [Pair -> Turn!Issuance \cup {Turn!NotIssued}]
    BY <1>0, <2>2, <2>3
  <2> QED BY <1>0, <1>2, <2>4 DEF Turn!Release, Turn!TypeOK
<1>3. ASSUME NEW c \in Pair, Turn!HandOut(c) \/ Turn!Lose(c) PROVE Turn!TypeOK'
  <2>1. minute + TurnTtl \in Turn!Minutes
    BY <1>0 DEF Turn!Minutes
  <2>2. until' \in [Pair -> Turn!Minutes]
    BY <1>0, <1>3, <2>1 DEF Turn!HandOut, Turn!Lose
  <2>3. route' \in [Pair -> {"new", "authorized", "given", "lost"}]
    BY <1>0, <1>3 DEF Turn!HandOut, Turn!Lose, Turn!TypeOK
  <2>4. UNCHANGED <<issuance, usage, relayed, querying, started, failures,
                    minute>>
    BY <1>3 DEF Turn!HandOut, Turn!Lose
  <2> QED BY <1>0, <2>2, <2>3, <2>4 DEF Turn!TypeOK
<1>4. ASSUME NEW c \in Pair, Turn!Relay(c) PROVE Turn!TypeOK'
  <2> DEFINE more ==
          [t \in Turn!Minutes |-> relayed[c][t] + IF t > minute THEN 1 ELSE 0]
             last == TurnTime + TurnTtl
  <2>1. relayed' = [relayed EXCEPT ![c] = more]
    BY <1>4 DEF Turn!Relay
  <2>2. more \in [Turn!Minutes -> Turn!Bytes]
    <3>1. last \in Turn!Minutes /\ \A t \in Turn!Minutes : t <= last
      BY DEF Turn!Minutes
    <3>2. \A t \in Turn!Minutes : relayed[c][t] \in Turn!Bytes
              /\ relayed[c][t] <= relayed[c][last]
      BY <1>0, <3>1 DEF TurnKept, RelayedFits, Fits
    <3>3. relayed[c][last] < TurnBytes /\ minute \in Turn!Times
      BY <1>0, <1>4 DEF Turn!Relay, Turn!TypeOK
    <3>4. ASSUME NEW t \in Turn!Minutes
          PROVE  relayed[c][t] + (IF t > minute THEN 1 ELSE 0) \in Turn!Bytes
      <4>1. relayed[c][t] \in Turn!Bytes /\ relayed[c][t] < TurnBytes
                /\ TurnBytes \in Nat
        <5>1. relayed[c][last] \in Turn!Bytes
          BY <3>1, <3>2
        <5> QED BY <3>2, <3>3, <5>1
      <4> QED BY <4>1
    <3> QED BY <3>4
  <2> HIDE DEF more
  <2>3. relayed' \in [Pair -> [Turn!Minutes -> Turn!Bytes]]
    BY <1>0, <2>1, <2>2
  <2> QED BY <1>0, <1>4, <2>3 DEF Turn!Relay, Turn!TypeOK
<1>5. ASSUME NEW w \in TurnSweeps, NEW c \in Pair, Turn!Query(w, c)
      PROVE  Turn!TypeOK'
  <2>1. querying[w] \in Asking /\ c \in querying[w].todo
    BY <1>0, <1>5 DEF Turn!Query
  <2>2. issuance[c] \in Turn!Issuance
            /\ issuance[c].issued < querying[w].at - TurnDelay
    BY <1>0, <1>5, <2>1 DEF Turn!Query, TurnKept, SweepsKnow, Knows, Has
  <2> DEFINE end == Turn!Least(querying[w].at - TurnDelay, issuance[c].expires)
  <2>3. end \in Turn!Minutes /\ issuance[c].issued < end
    <3>1. /\ querying[w].at \in 0 .. TurnTime /\ TurnDelay \in Nat
          /\ TurnTime \in Nat
          /\ issuance[c].expires \in Nat /\ issuance[c].issued \in 0 .. TurnTime
          /\ issuance[c].expires = issuance[c].issued + TurnTtl
      <4>1. issuance[c] # Turn!NotIssued
        BY <2>2 DEF Turn!Issuance, Turn!NotIssued
      <4>2. issuance[c].expires = issuance[c].issued + TurnTtl
        BY <4>1 DEF TurnKept, RelayedFits, Fits
      <4> QED BY <2>1, <2>2, <4>2 DEF Asking, Turn!Issuance
    <3> QED BY <2>2, <3>1 DEF Turn!Least, Turn!Minutes
  <2> HIDE DEF end
  <2>4. Turn!Counted(c, end) \in Turn!Bytes
    <3>1. issuance[c] # Turn!NotIssued
      BY <2>2 DEF Turn!Issuance, Turn!NotIssued
    <3> QED BY <1>0, <2>3, <3>1, CountedBounds DEF TurnKept, RelayedFits
  <2>5. [at |-> querying[w].at, todo |-> querying[w].todo \ {c}, doing |-> c,
         answer |-> Turn!Counted(c, end)] \in Asking
    BY <2>1, <2>4 DEF Asking
  <2>6. querying' \in [TurnSweeps -> Asking \cup {Turn!Idle}]
    BY <1>0, <1>5, <2>5 DEF Turn!Query, Turn!Asks, end
  <2> QED BY <1>0, <1>5, <2>6 DEF Turn!Query, Turn!TypeOK, Asking
<1>6. ASSUME NEW w \in TurnSweeps, Turn!Start(w) PROVE Turn!TypeOK'
  <2>1. [at |-> minute, todo |-> Turn!Due(minute), doing |-> None, answer |-> 0]
            \in Asking
    BY <1>0 DEF Asking, Turn!Due, Turn!TypeOK
  <2>2. querying' \in [TurnSweeps -> Asking \cup {Turn!Idle}]
    BY <1>0, <1>6, <2>1 DEF Turn!Start
  <2> QED BY <1>0, <1>6, <2>2 DEF Turn!Start, Turn!TypeOK, Asking
<1>7. ASSUME NEW w \in TurnSweeps, Turn!Fail(w) PROVE Turn!TypeOK'
  <2>1. querying' \in [TurnSweeps -> Asking \cup {Turn!Idle}]
    BY <1>0, <1>7 DEF Turn!Fail
  <2>2. failures' \in 0 .. TurnFailures
    BY <1>0, <1>7 DEF Turn!Fail, Turn!TypeOK
  <2>3. UNCHANGED <<issuance, usage, route, until, relayed, started, minute>>
    BY <1>7 DEF Turn!Fail
  <2> QED BY <1>0, <2>1, <2>2, <2>3 DEF Turn!TypeOK, Asking
<1>8. ASSUME NEW w \in TurnSweeps, Turn!Settle(w) PROVE Turn!TypeOK'
  <2> DEFINE c == querying[w].doing
             n == querying[w].answer
  <2>1. querying[w] \in Asking /\ c \in Pair /\ n \in Turn!Bytes
    BY <1>0, <1>8 DEF Turn!Settle, Asking
  <2>2. querying' \in [TurnSweeps -> Asking \cup {Turn!Idle}]
    <3>1. [at |-> querying[w].at, todo |-> querying[w].todo, doing |-> None,
              answer |-> 0] \in Asking
      BY <2>1 DEF Asking
    <3> QED BY <1>0, <1>8, <3>1 DEF Turn!Settle, Turn!Asks
  <2>3. Turn!Live(c) => issuance[c] \in Turn!Issuance
    BY <1>0, <2>1 DEF Turn!Live, Turn!NotIssued
  <2> HIDE DEF c, n
  <2>4. issuance' \in [Pair -> Turn!Issuance \cup {Turn!NotIssued}]
            /\ usage' \in [Turn!Sources -> Nat]
    <3>1. CASE Turn!Live(c) /\ Turn!Delta(c, n) # 0
      <4>1. Turn!Delta(c, n) \in Nat
        <5>1. issuance[c].observed \in Turn!Bytes
          BY <2>3, <3>1 DEF Turn!Issuance
        <5> QED BY <2>1, <5>1 DEF Turn!Delta
      <4>2. /\ issuance'
                   = [issuance EXCEPT ![c]
                       = [issuance[c] EXCEPT !.observed = n]]
            /\ usage' = [usage EXCEPT ![issuance[c].source]
                   = usage[issuance[c].source] + Turn!Delta(c, n)]
        BY <1>8, <3>1 DEF Turn!Settle, c, n
      <4>0. issuance[c] \in Turn!Issuance
        BY <2>3, <3>1
      <4>3. [issuance[c] EXCEPT !.observed = n] \in Turn!Issuance
                /\ issuance[c].source \in Turn!Sources
        <5> DEFINE i == issuance[c]
        <5>1. i \in Turn!Issuance /\ n \in 0 .. TurnBytes
          BY <4>0, <2>1
        <5> HIDE DEF i
        <5>2. [i EXCEPT !.observed = n] \in Turn!Issuance
                  /\ i.source \in Turn!Sources
          BY <5>1 DEF Turn!Issuance
        <5> QED BY <5>2 DEF i
      <4> DEFINE i == [issuance[c] EXCEPT !.observed = n]
                 u == usage[issuance[c].source] + Turn!Delta(c, n)
      <4>4. i \in Turn!Issuance /\ u \in Nat
        <5>1. usage[issuance[c].source] \in Nat
          BY <1>0, <4>3
        <5>2. u \in Nat
          BY <5>1, <4>1
        <5> QED BY <4>3, <5>2
      <4>5. issuance' = [issuance EXCEPT ![c] = i]
            /\ usage' = [usage EXCEPT ![issuance[c].source] = u]
        BY <4>2
      <4> HIDE DEF i, u
      <4> QED BY <1>0, <4>4, <4>5
    <3>2. CASE ~(Turn!Live(c) /\ Turn!Delta(c, n) # 0)
      BY <1>0, <1>8, <3>2 DEF Turn!Settle, c, n
    <3> QED BY <3>1, <3>2
  <2>5. UNCHANGED <<route, until, relayed, started, failures, minute>>
    BY <1>8 DEF Turn!Settle
  <2> QED BY <1>0, <2>2, <2>4, <2>5 DEF Turn!TypeOK, Asking
<1>9. ASSUME NEW w \in TurnSweeps, Turn!Prune(w) PROVE Turn!TypeOK'
  <2>1. querying' \in [TurnSweeps -> Asking \cup {Turn!Idle}]
    BY <1>0, <1>9 DEF Turn!Prune
  <2>2. \A c \in Pair : Turn!Live(c)
            => [issuance[c] EXCEPT !.state = "pruned"] \in Turn!Issuance
    <3>1. \A c \in Pair : Turn!Live(c) => issuance[c] \in Turn!Issuance
      BY <1>0 DEF Turn!Live, Turn!NotIssued
    <3>2. \A i \in Turn!Issuance :
              [i EXCEPT !.state = "pruned"] \in Turn!Issuance
      BY DEF Turn!Issuance
    <3> QED BY <3>1, <3>2
  <2>3. issuance' \in [Pair -> Turn!Issuance \cup {Turn!NotIssued}]
    <3>1. issuance' = [c \in Pair |->
           IF Turn!Live(c) /\ issuance[c].expires + TurnWindow <= querying[w].at
           THEN [issuance[c] EXCEPT !.state = "pruned"] ELSE issuance[c]]
      BY <1>9 DEF Turn!Prune
    <3> DEFINE next(c) == IF Turn!Live(c)
            /\ issuance[c].expires + TurnWindow <= querying[w].at
           THEN [issuance[c] EXCEPT !.state = "pruned"] ELSE issuance[c]
    <3>2. \A c \in Pair : next(c) \in Turn!Issuance \cup {Turn!NotIssued}
      BY <1>0, <2>2
    <3>3. issuance' = [c \in Pair |-> next(c)]
      BY <3>1
    <3> HIDE DEF next
    <3> QED BY <3>2, <3>3, Zenon
  <2> QED BY <1>0, <1>9, <2>1, <2>3 DEF Turn!Prune, Turn!TypeOK, Asking
<1>10. CASE Turn!Tick
  BY <1>0, <1>10 DEF Turn!Tick, Turn!TypeOK
<1> QED BY <1>1, <1>2, <1>3, <1>4, <1>5, <1>6, <1>7, <1>8, <1>9, <1>10
           DEF Turn!Next

(* A sweep that asks or settles keeps the time at which it was started.    *)
LEMMA AsksKeeps ==
    ASSUME Turn!TurnAssumption, Turn!TypeOK, NEW w \in TurnSweeps, NEW todo,
           NEW c, NEW answer,
           querying[w] # Turn!Idle, Turn!Asks(w, todo, c, answer)
    PROVE  /\ \A v \in TurnSweeps : v # w => querying'[v] = querying[v]
           /\ querying'[w] = [at |-> querying[w].at, todo |-> todo, doing |-> c,
                           answer |-> answer]
           /\ querying'[w] # Turn!Idle /\ querying'[w].at = querying[w].at
<1>1. /\ querying \in [TurnSweeps -> Asking \cup {Turn!Idle}]
      /\ querying[w] \in Asking
  BY DEF Turn!TypeOK, Asking
<1>2. querying[w].at # None
  BY <1>1, TurnNumbers DEF Asking
<1>3. querying'[w]
          = [at |-> querying[w].at, todo |-> todo, doing |-> c,
              answer |-> answer]
      /\ \A v \in TurnSweeps : v # w => querying'[v] = querying[v]
  BY <1>1 DEF Turn!Asks
<1> QED BY <1>2, <1>3 DEF Turn!Idle

LEMMA StartedKept ==
    ASSUME Turn!TurnAssumption, TurnKept, Turn!Next PROVE SweepsStarted'
<1> USE TurnNumbers
<1>0. /\ Turn!TypeOK /\ SweepsStarted
      /\ querying \in [TurnSweeps -> Asking \cup {Turn!Idle}]
      /\ minute \in Nat /\ minute \in Turn!Times
      /\ started \in Turn!Times \cup {None}
  BY DEF TurnKept, Turn!TypeOK, Asking
<1>1. \A w \in TurnSweeps : querying[w] # Turn!Idle
          => querying[w] \in Asking /\ querying[w].at \in Nat
  BY <1>0 DEF Asking
<1>2. CASE UNCHANGED <<querying, started, minute>>
  BY <1>0, <1>2 DEF SweepsStarted
<1>3. ASSUME NEW w \in TurnSweeps, Turn!Start(w) PROVE SweepsStarted'
  <2>1. /\ querying'[w].at = minute /\ started' = minute /\ minute' = minute
        /\ started # minute
        /\ \A v \in TurnSweeps : v # w => querying'[v] = querying[v]
    BY <1>0, <1>3 DEF Turn!Start
  <2>2. ASSUME NEW v \in TurnSweeps, querying[v] # Turn!Idle
        PROVE  querying[v].at < minute
    <3>1. started # None /\ querying[v].at <= started /\ started <= minute
      BY <1>0, <2>2 DEF SweepsStarted
    <3>2. started \in Nat /\ querying[v].at \in Nat
      BY <1>0, <1>1, <2>2, <3>1
    <3> QED BY <1>0, <2>1, <3>1, <3>2
  <2>3. ASSUME NEW v \in TurnSweeps, querying'[v] # Turn!Idle
        PROVE  /\ started' # None /\ querying'[v].at <= started'
               /\ minute' - querying'[v].at <= TurnRun
               /\ \A u \in TurnSweeps : querying'[u] # Turn!Idle
                      /\ querying'[u].at = querying'[v].at => u = v
    <3>1. CASE v = w
      BY <1>0, <2>1, <2>2, <3>1
    <3>2. CASE v # w
      BY <1>0, <1>1, <2>1, <2>2, <2>3, <3>2 DEF SweepsStarted
    <3> QED BY <3>1, <3>2
  <2> QED BY <1>0, <2>1, <2>3 DEF SweepsStarted
<1>4. ASSUME NEW w \in TurnSweeps,
             querying' = [querying EXCEPT ![w] = Turn!Idle],
             UNCHANGED <<started, minute>>
      PROVE  SweepsStarted'
  <2>1. \A v \in TurnSweeps : querying'[v] # Turn!Idle
            => querying'[v] = querying[v] /\ querying[v] # Turn!Idle
    BY <1>0, <1>4
  <2> QED BY <1>0, <1>4, <2>1 DEF SweepsStarted
<1>5. ASSUME NEW w \in TurnSweeps, NEW todo, NEW c, NEW answer,
             querying[w] # Turn!Idle,
             Turn!Asks(w, todo, c, answer), UNCHANGED <<started, minute>>
      PROVE  SweepsStarted'
  <2>1. \A v \in TurnSweeps : querying'[v] # Turn!Idle
            => querying'[v].at = querying[v].at /\ querying[v] # Turn!Idle
    BY <1>0, <1>5, AsksKeeps
  <2> QED BY <1>0, <1>5, <2>1 DEF SweepsStarted
<1>6. CASE Turn!Tick
  <2>1. /\ started = minute /\ minute' = minute + 1
        /\ UNCHANGED <<querying, started>>
        /\ \A w \in TurnSweeps : querying[w] # Turn!Idle
               => minute - querying[w].at < TurnRun
    BY <1>6 DEF Turn!Tick
  <2>2. \A w \in TurnSweeps : querying[w] # Turn!Idle
            => minute' - querying[w].at <= TurnRun
    BY <1>0, <1>1, <2>1
  <2> QED BY <1>0, <2>1, <2>2 DEF SweepsStarted
<1>7. CASE \E c \in Pair : Turn!Authorize(c) \/ Turn!HandOut(c)
               \/ Turn!Release(c) \/ Turn!Lose(c) \/ Turn!Relay(c)
  BY <1>2, <1>7
     DEF Turn!Authorize, Turn!HandOut, Turn!Release, Turn!Lose, Turn!Relay
<1>8. CASE \E w \in TurnSweeps, c \in Pair : Turn!Query(w, c)
  BY <1>5, <1>8 DEF Turn!Query
<1>9. CASE \E w \in TurnSweeps : Turn!Fail(w) \/ Turn!Prune(w)
  BY <1>4, <1>9 DEF Turn!Fail, Turn!Prune
<1>10. CASE \E w \in TurnSweeps : Turn!Settle(w)
  BY <1>5, <1>10 DEF Turn!Settle
<1> QED BY <1>3, <1>6, <1>7, <1>8, <1>9, <1>10 DEF Turn!Next

(* What a credential is issued for, it keeps.                              *)
LEMMA TermsKept ==
    ASSUME Turn!TurnAssumption, TurnKept, Turn!Next, NEW c \in Pair,
           issuance[c] # Turn!NotIssued
    PROVE  /\ issuance'[c] # Turn!NotIssued
           /\ issuance'[c].source = issuance[c].source
           /\ issuance'[c].issued = issuance[c].issued
           /\ issuance'[c].expires = issuance[c].expires
           /\ issuance[c].state # "live" => issuance'[c] = issuance[c]
<1>0. /\ issuance \in [Pair -> Turn!Issuance \cup {Turn!NotIssued}]
      /\ issuance[c] \in Turn!Issuance
  BY DEF TurnKept, Turn!TypeOK
<1>1. CASE UNCHANGED issuance
  BY <1>0, <1>1
<1>2. ASSUME NEW d \in Pair, Turn!Authorize(d)
      PROVE  d # c /\ issuance'[c] = issuance[c]
  <2>1. d # c
    BY <1>2 DEF Turn!Authorize, TurnKept, RelayedFits, Fits
  <2> QED BY <1>0, <1>2, <2>1 DEF Turn!Authorize
<1>3. ASSUME NEW i \in Turn!Issuance, NEW x, NEW n
      PROVE  /\ [i EXCEPT !.state = x] # Turn!NotIssued
             /\ [i EXCEPT !.state = x].source = i.source
             /\ [i EXCEPT !.state = x].issued = i.issued
             /\ [i EXCEPT !.state = x].expires = i.expires
             /\ [i EXCEPT !.state = x].observed = i.observed
             /\ [i EXCEPT !.observed = n] # Turn!NotIssued
             /\ [i EXCEPT !.observed = n].source = i.source
             /\ [i EXCEPT !.observed = n].issued = i.issued
             /\ [i EXCEPT !.observed = n].expires = i.expires
  BY DEF Turn!Issuance, Turn!NotIssued
<1>4. ASSUME NEW d \in Pair, Turn!Release(d)
      PROVE  \/ issuance'[c] = issuance[c]
             \/ Turn!Live(c)
                    /\ issuance'[c] = [issuance[c] EXCEPT !.state = "released"]
  BY <1>0, <1>4 DEF Turn!Release
<1>5. ASSUME NEW w \in TurnSweeps, Turn!Settle(w)
      PROVE  \/ issuance'[c] = issuance[c]
             \/ Turn!Live(c)
                    /\ \E n \in Turn!Bytes :
                           issuance'[c] = [issuance[c] EXCEPT !.observed = n]
  <2>1. querying[w].answer \in Turn!Bytes
    BY <1>5 DEF Turn!Settle, TurnKept, Turn!TypeOK
  <2> QED BY <1>0, <1>5, <2>1 DEF Turn!Settle
<1>6. ASSUME NEW w \in TurnSweeps, Turn!Prune(w)
      PROVE  \/ issuance'[c] = issuance[c]
             \/ Turn!Live(c)
                    /\ issuance'[c] = [issuance[c] EXCEPT !.state = "pruned"]
  BY <1>0, <1>6 DEF Turn!Prune
<1>7. \/ issuance'[c] = issuance[c]
      \/ Turn!Live(c) /\ \E x : issuance'[c] = [issuance[c] EXCEPT !.state = x]
      \/ Turn!Live(c)
             /\ \E n : issuance'[c] = [issuance[c] EXCEPT !.observed = n]
  <2>1. CASE \E d \in Pair : Turn!HandOut(d) \/ Turn!Lose(d) \/ Turn!Relay(d)
               \/ \E w \in TurnSweeps : Turn!Query(w, d)
    BY <2>1 DEF Turn!HandOut, Turn!Lose, Turn!Relay, Turn!Query
  <2>2. CASE Turn!Tick \/ \E w \in TurnSweeps : Turn!Start(w) \/ Turn!Fail(w)
    BY <2>2 DEF Turn!Tick, Turn!Start, Turn!Fail
  <2> QED BY <1>2, <1>4, <1>5, <1>6, <2>1, <2>2 DEF Turn!Next
<1>8. CASE issuance'[c] = issuance[c]
  BY <1>0, <1>8
<1>9. CASE Turn!Live(c)
               /\ \E x : issuance'[c] = [issuance[c] EXCEPT !.state = x]
  <2>1. PICK x : issuance'[c] = [issuance[c] EXCEPT !.state = x]
    BY <1>9
  <2> QED BY <1>0, <1>3, <1>9, <2>1 DEF Turn!Live
<1>10. CASE Turn!Live(c)
                /\ \E n : issuance'[c] = [issuance[c] EXCEPT !.observed = n]
  <2>1. PICK n : issuance'[c] = [issuance[c] EXCEPT !.observed = n]
    BY <1>10
  <2> QED BY <1>0, <1>3, <1>10, <2>1 DEF Turn!Live
<1> QED BY <1>7, <1>8, <1>9, <1>10

LEMMA FitsKept ==
    ASSUME Turn!TurnAssumption, TurnKept, Turn!Next PROVE RelayedFits'
<1> USE TurnNumbers
<1>0. /\ Turn!TypeOK /\ RelayedFits /\ SweepsStarted /\ SweepsKnow
      /\ issuance \in [Pair -> Turn!Issuance \cup {Turn!NotIssued}]
      /\ querying \in [TurnSweeps -> Asking \cup {Turn!Idle}]
      /\ relayed \in [Pair -> [Turn!Minutes -> Turn!Bytes]]
      /\ route \in [Pair -> {"new", "authorized", "given", "lost"}]
      /\ minute \in Nat /\ minute \in Turn!Times
  BY DEF TurnKept, Turn!TypeOK, Asking
<1>2. \A c \in Pair : issuance[c] # Turn!NotIssued =>
          /\ issuance[c] \in Turn!Issuance /\ issuance[c].issued \in Nat
          /\ issuance[c].expires \in Nat /\ issuance[c].observed \in Nat
  <2>1. \A i \in Turn!Issuance : i.issued \in Turn!Times /\ i.expires \in Nat
            /\ i.observed \in Nat
    BY DEF Turn!Issuance
  <2> QED BY <1>0, <2>1
<1>3. SUFFICES ASSUME NEW c \in Pair PROVE Fits(c)'
  BY DEF RelayedFits
<1>4. Fits(c)
  BY <1>0 DEF RelayedFits
<1>5. CASE UNCHANGED <<route[c], issuance[c], relayed[c], minute>>
  BY <1>4, <1>5 DEF Fits, Final, Turn!Counted
<1>6. CASE Turn!Authorize(c)
  <2>1. PICK s \in Turn!Sources : issuance' = [issuance EXCEPT ![c] =
                 [state |-> "live", source |-> s, issued |-> minute,
                  expires |-> minute + TurnTtl, observed |-> 0]]
    BY <1>6 DEF Turn!Authorize
  <2>2. issuance'[c] = [state |-> "live", source |-> s, issued |-> minute,
                        expires |-> minute + TurnTtl, observed |-> 0]
    BY <1>0, <2>1
  <2>3. route[c] = "new" /\ route'[c] = "authorized"
            /\ UNCHANGED <<relayed, minute>>
    BY <1>0, <1>6 DEF Turn!Authorize
  <2>4. \A t \in Turn!Minutes : relayed[c][t] = 0
    BY <1>4, <2>3 DEF Fits
  <2>5. minute + 1 \in Turn!Minutes /\ minute + TurnTtl \in Turn!Minutes
    BY <1>0 DEF Turn!Times, Turn!Minutes
  <2>6. Final(c)' = 0
    <3>1. Final(c)' = relayed[c][minute + TurnTtl] - relayed[c][minute + 1]
      BY <2>2, <2>3 DEF Final, Turn!Counted
    <3> QED BY <2>4, <2>5, <3>1
  <2>7. issuance'[c] # Turn!NotIssued /\ issuance'[c].state # "pruned"
    BY <2>2 DEF Turn!NotIssued
  <2> QED BY <1>0, <2>2, <2>3, <2>4, <2>6, <2>7 DEF Fits
<1>7. CASE Turn!HandOut(c) \/ Turn!Lose(c)
  <2>1. route[c] = "authorized" /\ route'[c] \in {"given", "lost"}
    BY <1>0, <1>7 DEF Turn!HandOut, Turn!Lose
  <2>2. UNCHANGED <<issuance, relayed, minute>>
    BY <1>7 DEF Turn!HandOut, Turn!Lose
  <2> QED BY <1>4, <2>1, <2>2 DEF Fits, Final, Turn!Counted
<1>8. CASE Turn!Release(c)
  <2>1. route[c] = "authorized" /\ route'[c] = "lost"
            /\ UNCHANGED <<relayed, minute>>
    BY <1>0, <1>8 DEF Turn!Release
  <2>2. issuance[c] \in Turn!Issuance
    BY <1>2, <1>4, <2>1 DEF Fits
  <2>3. \/ issuance'[c] = issuance[c]
        \/ issuance'[c] = [issuance[c] EXCEPT !.state = "released"]
    BY <1>0, <1>8 DEF Turn!Release
  <2>4. /\ issuance'[c] # Turn!NotIssued
        /\ issuance'[c].issued = issuance[c].issued
        /\ issuance'[c].expires = issuance[c].expires
        /\ issuance'[c].observed = issuance[c].observed
        /\ issuance'[c].state = "pruned" => issuance[c].state = "pruned"
    BY <2>2, <2>3 DEF Turn!Issuance, Turn!NotIssued
  <2>5. issuance[c] # Turn!NotIssued
    BY <2>2 DEF Turn!Issuance, Turn!NotIssued
  <2> QED BY <1>4, <2>1, <2>4, <2>5 DEF Fits, Final, Turn!Counted
<1>9. CASE Turn!Relay(c)
  <2>1. route[c] = "given" /\ UNCHANGED <<issuance, route, minute>>
    BY <1>9 DEF Turn!Relay
  <2>2. issuance[c] # Turn!NotIssued
    BY <1>4, <2>1 DEF Fits
  <2>3. \A t \in Turn!Minutes : relayed'[c][t] = relayed[c][t] + IF t > minute
            THEN 1 ELSE 0
    BY <1>0, <1>9 DEF Turn!Relay
  <2>4. ASSUME NEW t \in Turn!Minutes, NEW u \in Turn!Minutes, t <= u
        PROVE  relayed'[c][t] <= relayed'[c][u]
    <3>1. /\ t \in Nat /\ u \in Nat /\ relayed[c][t] \in Nat
          /\ relayed[c][u] \in Nat
      BY <1>0
    <3>2. relayed[c][t] <= relayed[c][u]
      BY <1>4, <2>4 DEF Fits
    <3> QED BY <1>0, <2>3, <2>4, <3>1, <3>2
  <2>5. issuance[c].observed <= Final(c)'
    <3>1. /\ Final(c)' \in Nat /\ Final(c) <= Final(c)'
      BY <1>0, <1>4, <1>9, <2>2, RelayCounts
    <3>2. Final(c) \in Nat /\ issuance[c].observed \in Nat
      BY <1>0, <1>4, <2>2, CountedBounds
    <3>3. issuance[c].observed <= Final(c)
      BY <1>4, <2>2 DEF Fits
    <3> QED BY <3>1, <3>2, <3>3
  <2> QED BY <1>4, <2>1, <2>2, <2>4, <2>5 DEF Fits
<1>10. ASSUME NEW w \in TurnSweeps, Turn!Settle(w) PROVE Fits(c)'
  <2>1. UNCHANGED <<route, relayed, minute>>
    BY <1>10 DEF Turn!Settle
  <2>2. CASE issuance'[c] = issuance[c]
    BY <1>5, <2>1, <2>2
  <2>3. CASE issuance'[c] # issuance[c]
    <3>1. /\ Turn!Live(c) /\ querying[w].doing = c /\ querying[w].doing # None
          /\ querying[w] # Turn!Idle
          /\ issuance'[c] = [issuance[c] EXCEPT !.observed = querying[w].answer]
      BY <1>0, <1>10, <2>3 DEF Turn!Settle
    <3>2. issuance[c] \in Turn!Issuance /\ issuance[c] # Turn!NotIssued
      BY <1>0, <3>1 DEF Turn!Live, Turn!NotIssued
    <3>3. querying[w].answer <= Final(c)
      BY <1>0, <3>1, <3>2 DEF SweepsKnow, Knows
    <3>4. /\ issuance'[c] # Turn!NotIssued
          /\ issuance'[c].issued = issuance[c].issued
          /\ issuance'[c].expires = issuance[c].expires
          /\ issuance'[c].observed = querying[w].answer
          /\ issuance'[c].state = issuance[c].state
      BY <3>1, <3>2 DEF Turn!Issuance, Turn!NotIssued
    <3> QED BY <1>4, <2>1, <3>2, <3>3, <3>4 DEF Fits, Final, Turn!Counted
  <2> QED BY <2>2, <2>3
<1>11. ASSUME NEW w \in TurnSweeps, Turn!Prune(w) PROVE Fits(c)'
  <2>1. UNCHANGED <<route, relayed, minute>>
    BY <1>11 DEF Turn!Prune
  <2>2. CASE issuance'[c] = issuance[c]
    BY <1>5, <2>1, <2>2
  <2>3. CASE issuance'[c] # issuance[c]
    <3>1. /\ Turn!Live(c) /\ querying[w] # Turn!Idle
          /\ issuance[c].expires + TurnWindow <= querying[w].at
          /\ issuance'[c] = [issuance[c] EXCEPT !.state = "pruned"]
      BY <1>0, <1>11, <2>3 DEF Turn!Prune
    <3>2. issuance[c] \in Turn!Issuance /\ issuance[c] # Turn!NotIssued
      BY <1>0, <3>1 DEF Turn!Live, Turn!NotIssued
    <3>3. issuance[c].expires + TurnWindow <= minute
      <4>1. started # None /\ querying[w].at <= started /\ started <= minute
        BY <1>0, <3>1 DEF SweepsStarted
      <4>2. started \in Nat /\ querying[w].at \in Nat
                /\ issuance[c].expires \in Nat
        BY <1>0, <1>2, <3>1, <3>2, <4>1 DEF Turn!TypeOK, Asking
      <4> QED BY <1>0, <3>1, <4>1, <4>2
    <3>4. /\ issuance'[c] # Turn!NotIssued
          /\ issuance'[c].issued = issuance[c].issued
          /\ issuance'[c].expires = issuance[c].expires
          /\ issuance'[c].observed = issuance[c].observed
      BY <3>1, <3>2 DEF Turn!Issuance, Turn!NotIssued
    <3> QED BY <1>4, <2>1, <3>2, <3>3, <3>4 DEF Fits, Final, Turn!Counted
  <2> QED BY <2>2, <2>3
<1>12. CASE Turn!Tick
  <2>1. minute' = minute + 1 /\ UNCHANGED <<route, relayed, issuance>>
    BY <1>12 DEF Turn!Tick
  <2> QED BY <1>0, <1>2, <1>4, <2>1
          DEF Fits, Final, Turn!Counted, Turn!NotIssued
<1>13. CASE \E w \in TurnSweeps : Turn!Start(w) \/ Turn!Fail(w)
                \/ \E d \in Pair : Turn!Query(w, d)
  BY <1>5, <1>13 DEF Turn!Start, Turn!Fail, Turn!Query
<1>14. ASSUME NEW d \in Pair, d # c,
              Turn!Authorize(d) \/ Turn!HandOut(d) \/ Turn!Release(d)
                  \/ Turn!Lose(d) \/ Turn!Relay(d)
       PROVE  Fits(c)'
  BY <1>0, <1>5, <1>14
     DEF Turn!Authorize, Turn!HandOut, Turn!Release, Turn!Lose, Turn!Relay
<1> QED
  BY <1>6, <1>7, <1>8, <1>9, <1>10, <1>11, <1>12, <1>13, <1>14 DEF Turn!Next

LEMMA KnowKept ==
    ASSUME Turn!TurnAssumption, TurnKept, Turn!Next PROVE SweepsKnow'
<1> USE TurnNumbers
<1>0. /\ Turn!TypeOK /\ RelayedFits /\ SweepsStarted /\ SweepsKnow
      /\ issuance \in [Pair -> Turn!Issuance \cup {Turn!NotIssued}]
      /\ querying \in [TurnSweeps -> Asking \cup {Turn!Idle}]
      /\ relayed \in [Pair -> [Turn!Minutes -> Turn!Bytes]]
      /\ minute \in Nat /\ minute \in Turn!Times
  BY DEF TurnKept, Turn!TypeOK, Asking
<1>1. \A w \in TurnSweeps : querying[w] # Turn!Idle =>
          /\ querying[w] \in Asking /\ querying[w].at \in Turn!Times
          /\ querying[w].at <= minute
          /\ querying[w].todo \subseteq Pair
          /\ querying[w].doing \in Pair \cup {None}
  <2>1. \A s \in Asking : /\ s.at \in Turn!Times /\ s.todo \subseteq Pair
                           /\ s.doing \in Pair \cup {None}
    BY DEF Asking
  <2>2. ASSUME NEW w \in TurnSweeps, querying[w] # Turn!Idle
        PROVE  querying[w].at <= minute
    <3>1. started # None /\ querying[w].at <= started /\ started <= minute
      BY <1>0, <2>2 DEF SweepsStarted
    <3>2. started \in Nat /\ querying[w].at \in Nat
      BY <1>0, <2>1, <2>2, <3>1 DEF Turn!TypeOK
    <3> QED BY <1>0, <3>1, <3>2
  <2> QED BY <1>0, <2>1, <2>2
<1>2. \A c \in Pair : issuance[c] # Turn!NotIssued =>
          /\ issuance[c].issued \in Nat /\ issuance[c].expires \in Nat
  <2>1. \A i \in Turn!Issuance : i.issued \in Turn!Times /\ i.expires \in Nat
    BY DEF Turn!Issuance
  <2> QED BY <1>0, <2>1
<1>3. SUFFICES ASSUME NEW w \in TurnSweeps, querying'[w] # Turn!Idle
               PROVE  Knows(w)'
  BY DEF SweepsKnow
<1>4. \A c \in Pair : Fits(c)
  BY <1>0 DEF RelayedFits
<1>5. CASE querying'[w] = querying[w]
  <2>1. querying[w] # Turn!Idle /\ Knows(w)
    BY <1>0, <1>3, <1>5 DEF SweepsKnow
  <2>2. ASSUME NEW c \in Pair, Has(w, c)'
        PROVE  issuance'[c] # Turn!NotIssued
                   /\ issuance'[c].issued < querying'[w].at - TurnDelay
    <3>1. issuance[c] # Turn!NotIssued
              /\ issuance[c].issued < querying[w].at - TurnDelay
      BY <1>5, <2>1, <2>2 DEF Knows, Has
    <3> QED BY <1>5, <3>1, TermsKept
  <2>3. ASSUME NEW c \in Pair, querying'[w].doing = c
        PROVE  /\ querying'[w].answer <= Final(c)'
               /\ issuance'[c].expires <= querying'[w].at - TurnDelay
                      => querying'[w].answer = Final(c)'
    <3>1. /\ issuance[c] # Turn!NotIssued /\ querying[w].answer <= Final(c)
          /\ issuance[c].expires <= querying[w].at - TurnDelay
                 => querying[w].answer = Final(c)
      BY <1>5, <2>1, <2>3 DEF Knows, Has
    <3>2. issuance'[c].expires = issuance[c].expires
      BY <3>1, TermsKept
    <3>3. CASE relayed'[c] = relayed[c]
      <4>1. issuance'[c].issued = issuance[c].issued
        BY <3>1, TermsKept
      <4> QED BY <1>5, <3>1, <3>2, <3>3, <4>1 DEF Final, Turn!Counted
    <3>4. CASE relayed'[c] # relayed[c]
      <4>1. Turn!Relay(c)
        BY <1>0, <3>4
           DEF Turn!Next, Turn!Authorize, Turn!HandOut, Turn!Release, Turn!Lose,
               Turn!Relay, Turn!Query, Turn!Start,
                          Turn!Fail, Turn!Settle, Turn!Prune, Turn!Tick
      <4>2. /\ Final(c)' \in Nat /\ Final(c) <= Final(c)'
            /\ issuance[c].expires <= minute => Final(c)' = Final(c)
        BY <1>0, <1>4, <3>1, <4>1, RelayCounts
      <4>3. Final(c) \in Nat /\ querying[w].answer \in Nat
        BY <1>0, <1>1, <1>4, <2>1, <3>1, CountedBounds DEF Asking
      <4>4. issuance[c].expires <= querying[w].at - TurnDelay
                => issuance[c].expires <= minute
        <5>1. querying[w].at \in Nat /\ querying[w].at <= minute
                  /\ issuance[c].expires \in Nat
          BY <1>1, <1>2, <2>1, <3>1
        <5> QED BY <1>0, <5>1
      <4> QED BY <1>5, <3>1, <3>2, <4>2, <4>3, <4>4
    <3> QED BY <3>3, <3>4
  <2> QED BY <2>2, <2>3 DEF Knows
<1>6. CASE Turn!Start(w)
  <2>1. /\ querying'[w]
               = [at |-> minute, todo |-> Turn!Due(minute), doing |-> None,
                   answer |-> 0]
        /\ UNCHANGED <<issuance, relayed>>
    BY <1>0, <1>6 DEF Turn!Start
  <2>2. \A c \in Turn!Due(minute) : issuance[c] # Turn!NotIssued
            /\ issuance[c].issued < minute - TurnDelay
    BY DEF Turn!Due, Turn!Live, Turn!NotIssued
  <2> QED BY <2>1, <2>2 DEF Knows, Has
<1>7. ASSUME NEW d \in Pair, Turn!Query(w, d) PROVE Knows(w)'
  <2> DEFINE n ==
          Turn!Counted(d, Turn!Least(querying[w].at - TurnDelay,
                                     issuance[d].expires))
  <2>1. /\ querying[w] # Turn!Idle /\ d \in querying[w].todo
        /\ UNCHANGED <<issuance, relayed>>
        /\ Turn!Asks(w, querying[w].todo \ {d}, d, n)
    BY <1>7 DEF Turn!Query
  <2>2. querying'[w]
            = [at |-> querying[w].at, todo |-> querying[w].todo \ {d},
                doing |-> d,
                     answer |-> n]
    <3> DEFINE s ==
            [at |-> querying[w].at, todo |-> querying[w].todo \ {d},
                doing |-> d,
                     answer |-> n]
    <3>1. querying' = [querying EXCEPT ![w] = s]
      BY <2>1 DEF Turn!Asks
    <3> HIDE DEF s
    <3>2. querying'[w] = s
      BY <1>0, <3>1
    <3> QED BY <3>2 DEF s
  <2>3. Knows(w)
    BY <1>0, <2>1 DEF SweepsKnow
  <2>4. issuance[d] # Turn!NotIssued
            /\ issuance[d].issued < querying[w].at - TurnDelay
    BY <2>1, <2>3 DEF Knows, Has
  <2>5. n <= Final(d)
            /\ (issuance[d].expires <= querying[w].at - TurnDelay
                   => n = Final(d))
    <3> DEFINE end ==
            Turn!Least(querying[w].at - TurnDelay, issuance[d].expires)
    <3>1. /\ querying[w].at \in 0 .. TurnTime /\ TurnDelay \in Nat
          /\ TurnTime \in Nat
          /\ issuance[d].expires \in Nat /\ issuance[d].issued \in Nat
          /\ issuance[d].issued < issuance[d].expires
      <4>1. issuance[d].expires = issuance[d].issued + TurnTtl
        BY <1>4, <2>4 DEF Fits
      <4> QED BY <1>1, <1>2, <2>1, <2>4, <4>1 DEF Turn!Times
    <3>2. /\ end \in Turn!Minutes /\ issuance[d].issued < end
          /\ end <= issuance[d].expires
      BY <2>4, <3>1 DEF Turn!Least, Turn!Minutes
    <3>3. n <= Final(d)
      <4> HIDE DEF end
      <4>1. Turn!Counted(d, end) <= Final(d)
        BY <1>0, <1>4, <2>4, <3>2, CountedBounds
      <4> QED BY <4>1 DEF end
    <3>4. ASSUME issuance[d].expires <= querying[w].at - TurnDelay
          PROVE  n = Final(d)
      <4>1. end = issuance[d].expires
        BY <3>1, <3>4 DEF Turn!Least
      <4> QED BY <4>1 DEF Final
    <3> QED BY <3>3, <3>4
  <2> HIDE DEF n
  <2> QED BY <2>1, <2>2, <2>3, <2>4, <2>5 DEF Knows, Has, Final, Turn!Counted
<1>8. CASE Turn!Settle(w)
  <2>1. querying[w] # Turn!Idle /\ Turn!Asks(w, querying[w].todo, None, 0)
    BY <1>8 DEF Turn!Settle
  <2>2. querying'[w]
            = [at |-> querying[w].at, todo |-> querying[w].todo, doing |-> None,
                answer |-> 0]
    <3> DEFINE s ==
            [at |-> querying[w].at, todo |-> querying[w].todo, doing |-> None,
                answer |-> 0]
    <3>1. querying' = [querying EXCEPT ![w] = s]
      BY <2>1 DEF Turn!Asks
    <3> HIDE DEF s
    <3>2. querying'[w] = s
      BY <1>0, <3>1
    <3> QED BY <3>2 DEF s
  <2>3. Knows(w)
    BY <1>0, <2>1 DEF SweepsKnow
  <2>4. ASSUME NEW c \in Pair, Has(w, c)'
        PROVE  issuance'[c] # Turn!NotIssued
                   /\ issuance'[c].issued < querying'[w].at - TurnDelay
    <3>1. Has(w, c)
      BY <2>2, <2>4 DEF Has
    <3>2. issuance[c] # Turn!NotIssued
              /\ issuance[c].issued < querying[w].at - TurnDelay
      BY <2>3, <3>1 DEF Knows
    <3> QED BY <2>2, <3>2, TermsKept
  <2> QED BY <2>2, <2>4 DEF Knows
<1>9. ASSUME Turn!Fail(w) \/ Turn!Prune(w) PROVE FALSE
  BY <1>0, <1>3, <1>9 DEF Turn!Fail, Turn!Prune
<1>10. \/ querying'[w] = querying[w] \/ Turn!Start(w) \/ Turn!Settle(w)
              \/ Turn!Fail(w) \/ Turn!Prune(w)
       \/ \E d \in Pair : Turn!Query(w, d)
  <2>1. CASE \E v \in TurnSweeps : v # w
                 /\ (Turn!Start(v) \/ Turn!Settle(v) \/ Turn!Fail(v)
                        \/ Turn!Prune(v)
                                       \/ \E d \in Pair : Turn!Query(v, d))
    BY <1>0, <2>1
       DEF Turn!Start, Turn!Settle, Turn!Fail, Turn!Prune, Turn!Query, Turn!Asks
  <2>2. CASE UNCHANGED querying
    BY <2>2
  <2> QED BY <2>1, <2>2
             DEF Turn!Next, Turn!Authorize, Turn!HandOut, Turn!Release,
                 Turn!Lose, Turn!Relay, Turn!Tick
<1> QED BY <1>5, <1>6, <1>7, <1>8, <1>9, <1>10

(* A sweep that asks about c goes on to ask about it.                      *)
LEMMA NoMoreMissed ==
    ASSUME NEW c \in Pair, started' = started,
           issuance'[c].expires = issuance[c].expires,
           \A w \in TurnSweeps :
              querying[w] # Turn!Idle /\ Has(w, c)
                  /\ InWindow(c, querying[w].at)
              => querying'[w] # Turn!Idle /\ Has(w, c)'
                  /\ querying'[w].at = querying[w].at
    PROVE  Missed(c)' \subseteq Missed(c)
<1>1. ASSUME NEW a \in Missed(c)' PROVE a \in Missed(c)
  <2>1. /\ a \in Turn!Times /\ InWindow(c, a)' /\ started # None /\ a <= started
        /\ ~\E w \in TurnSweeps : querying'[w] # Turn!Idle
               /\ querying'[w].at = a /\ Has(w, c)'
    BY <1>1 DEF Missed
  <2>2. InWindow(c, a)
    BY <2>1 DEF InWindow
  <2>3. ~\E w \in TurnSweeps : querying[w] # Turn!Idle /\ querying[w].at = a
            /\ Has(w, c)
    BY <2>1, <2>2
  <2> QED BY <2>1, <2>2, <2>3 DEF Missed
<1> QED BY <1>1

LEMMA MissedIsFinite ==
    ASSUME Turn!TurnAssumption, NEW M, M \subseteq Turn!Times
    PROVE  IsFiniteSet(M) /\ Cardinality(M) \in Nat
<1>1. IsFiniteSet(Turn!Times)
  BY TurnNumbers, FS_Interval DEF Turn!Times
<1> QED BY <1>1, FS_Subset, FS_CardinalityType

LEMMA MissedKept ==
    ASSUME Turn!TurnAssumption, TurnKept, Turn!Next, RelayedFits'
    PROVE  FewMissed'
<1> USE TurnNumbers
<1>0. /\ Turn!TypeOK /\ RelayedFits /\ SweepsStarted /\ SweepsKnow /\ FewMissed
      /\ issuance \in [Pair -> Turn!Issuance \cup {Turn!NotIssued}]
      /\ querying \in [TurnSweeps -> Asking \cup {Turn!Idle}]
      /\ relayed \in [Pair -> [Turn!Minutes -> Turn!Bytes]]
      /\ minute \in Nat /\ minute \in Turn!Times /\ failures \in Nat
      /\ started \in Turn!Times \cup {None}
  BY DEF TurnKept, Turn!TypeOK, Asking
<1>1. \A i \in Turn!Issuance : /\ i.issued \in Nat /\ i.expires \in Nat
          /\ i.observed \in Nat
                          /\ i # Turn!NotIssued
  BY DEF Turn!Issuance, Turn!Times, Turn!NotIssued
<1>2. SUFFICES ASSUME NEW c \in Pair, (Turn!Live(c) /\ Owing(c))'
               PROVE  Cardinality(Missed(c)') <= failures'
  BY DEF FewMissed
<1>3. Fits(c) /\ Fits(c)'
  BY <1>0 DEF RelayedFits
<1>4. Missed(c) \subseteq Turn!Times /\ Missed(c)' \subseteq Turn!Times
  BY DEF Missed
<1>5. IsFiniteSet(Missed(c)) /\ Cardinality(Missed(c)) \in Nat
  BY <1>4, MissedIsFinite
<1>6. CASE Turn!Authorize(c)
  <2>1. PICK s \in Turn!Sources : issuance' = [issuance EXCEPT ![c] =
                 [state |-> "live", source |-> s, issued |-> minute,
                  expires |-> minute + TurnTtl, observed |-> 0]]
    BY <1>6 DEF Turn!Authorize
  <2>2. issuance'[c].observed = 0 /\ issuance'[c].issued = minute
            /\ issuance'[c].expires = minute + TurnTtl
    BY <1>0, <2>1
  <2>3. \A t \in Turn!Minutes : relayed'[c][t] = 0
    BY <1>0, <1>3, <1>6 DEF Fits, Turn!Authorize
  <2>4. minute + 1 \in Turn!Minutes /\ minute + TurnTtl \in Turn!Minutes
    BY <1>0 DEF Turn!Times, Turn!Minutes
  <2>5. Final(c)' = relayed'[c][minute + TurnTtl] - relayed'[c][minute + 1]
    BY <2>2 DEF Final, Turn!Counted
  <2>6. Final(c)' = 0
    BY <2>3, <2>4, <2>5
  <2> QED BY <1>2, <2>2, <2>6 DEF Owing
<1>7. CASE Turn!Relay(c)
  <2>1. /\ UNCHANGED <<issuance, querying, started, failures>>
        /\ route[c] = "given"
    BY <1>7 DEF Turn!Relay
  <2>2. issuance[c] # Turn!NotIssued /\ issuance[c].expires \in Nat
    BY <1>0, <1>1, <1>3, <2>1 DEF Fits
  <2>3. CASE minute < issuance[c].expires
    <3>1. ASSUME NEW a \in Missed(c)' PROVE FALSE
      <4>1. a \in Turn!Times /\ issuance[c].expires + TurnDelay <= a
                /\ started # None /\ a <= started
        BY <2>1, <3>1 DEF Missed, InWindow
      <4>2. started \in Nat /\ a \in Nat /\ started <= minute
        BY <1>0, <4>1 DEF SweepsStarted
      <4> QED BY <1>0, <2>2, <2>3, <4>1, <4>2
    <3>2. Missed(c)' = {}
      BY <3>1
    <3> QED BY <1>0, <2>1, <3>2, FS_EmptySet
  <2>4. CASE issuance[c].expires <= minute
    <3>1. Final(c)' = Final(c)
      BY <1>0, <1>3, <1>7, <2>2, <2>4, RelayCounts
    <3>2. Turn!Live(c) /\ Owing(c)
      BY <1>2, <2>1, <3>1 DEF Turn!Live, Owing
    <3>3. Missed(c)' = Missed(c)
      BY <2>1 DEF Missed, InWindow, Has
    <3> QED BY <1>0, <2>1, <3>2, <3>3 DEF FewMissed
  <2> QED BY <1>0, <2>2, <2>3, <2>4
<1>8. ASSUME ~Turn!Authorize(c), ~Turn!Relay(c)
      PROVE  /\ issuance[c] \in Turn!Issuance /\ Turn!Live(c)
                                            /\ Final(c)' = Final(c) /\ Owing(c)
                                            /\ issuance'[c].expires
                                                   = issuance[c].expires
                                            /\ Cardinality(Missed(c))
                                                   <= failures
  <2>1. relayed'[c] = relayed[c]
    BY <1>0, <1>8
       DEF Turn!Next, Turn!Authorize, Turn!HandOut, Turn!Release, Turn!Lose,
           Turn!Relay, Turn!Query, Turn!Start,
                      Turn!Fail, Turn!Settle, Turn!Prune, Turn!Tick
  <2>2. issuance[c] # Turn!NotIssued
    <3>1. SUFFICES ASSUME issuance[c] = Turn!NotIssued PROVE FALSE
      OBVIOUS
    <3>2. route[c] = "new"
      BY <1>3, <3>1 DEF Fits
    <3>3. ASSUME NEW w \in TurnSweeps, Turn!Settle(w)
          PROVE  issuance'[c] = issuance[c]
      BY <1>0, <3>1, <3>3 DEF Turn!Settle, Turn!Live, Turn!NotIssued
    <3>4. ASSUME NEW w \in TurnSweeps, Turn!Prune(w)
          PROVE  issuance'[c] = issuance[c]
      BY <1>0, <3>1, <3>4 DEF Turn!Prune, Turn!Live, Turn!NotIssued
    <3>5. ASSUME NEW d \in Pair, d # c, Turn!Authorize(d)
          PROVE  issuance'[c] = issuance[c]
      BY <1>0, <3>5 DEF Turn!Authorize
    <3>6. ASSUME NEW d \in Pair, Turn!Release(d)
          PROVE  issuance'[c] = issuance[c]
      BY <1>0, <3>2, <3>6 DEF Turn!Release
    <3>7. issuance'[c] = issuance[c]
      BY <1>8, <3>3, <3>4, <3>5, <3>6
         DEF Turn!Next, Turn!HandOut, Turn!Lose, Turn!Relay, Turn!Query,
             Turn!Start, Turn!Fail, Turn!Tick
    <3> QED BY <1>2, <3>1, <3>7 DEF Turn!Live, Turn!NotIssued
  <2>3. issuance[c] \in Turn!Issuance /\ Turn!Live(c)
            /\ issuance'[c].expires = issuance[c].expires
            /\ issuance'[c].issued = issuance[c].issued
    <3>1. issuance[c] \in Turn!Issuance
      BY <1>0, <2>2
    <3> QED BY <1>2, <2>2, <3>1, TermsKept DEF Turn!Live
  <2>4. Final(c)' = Final(c)
    BY <2>1, <2>3 DEF Final, Turn!Counted
  <2>5. Owing(c)
    <3>1. SUFFICES ASSUME issuance[c].observed = Final(c) PROVE FALSE
      BY DEF Owing
    <3>2. ASSUME NEW w \in TurnSweeps, Turn!Settle(w)
          PROVE  issuance'[c].observed = issuance[c].observed
      <4>1. CASE querying[w].doing = c /\ querying[w] # Turn!Idle
        <5>1. querying[w].answer <= issuance[c].observed
          BY <1>0, <3>1, <4>1 DEF SweepsKnow, Knows
        <5>2. querying[w].answer \in Nat /\ issuance[c].observed \in Nat
          BY <1>0, <1>1, <2>3, <4>1 DEF Asking
        <5>3. Turn!Delta(c, querying[w].answer) = 0
          BY <5>1, <5>2 DEF Turn!Delta
        <5> QED BY <3>2, <4>1, <5>3 DEF Turn!Settle
      <4>2. CASE ~(querying[w].doing = c /\ querying[w] # Turn!Idle)
        BY <1>0, <3>2, <4>2 DEF Turn!Settle
      <4> QED BY <4>1, <4>2
    <3>3. ASSUME NEW w \in TurnSweeps, Turn!Prune(w)
          PROVE  issuance'[c].observed = issuance[c].observed
      <4>1. \/ issuance'[c] = issuance[c]
            \/ issuance'[c] = [issuance[c] EXCEPT !.state = "pruned"]
        BY <1>0, <3>3 DEF Turn!Prune
      <4> QED BY <2>3, <4>1 DEF Turn!Issuance
    <3>4. ASSUME NEW d \in Pair, Turn!Release(d)
          PROVE  issuance'[c].observed = issuance[c].observed
      <4>1. \/ issuance'[c] = issuance[c]
            \/ issuance'[c] = [issuance[c] EXCEPT !.state = "released"]
        BY <1>0, <3>4 DEF Turn!Release
      <4> QED BY <2>3, <4>1 DEF Turn!Issuance
    <3>5. ASSUME NEW d \in Pair, d # c, Turn!Authorize(d)
          PROVE  issuance'[c].observed = issuance[c].observed
      BY <1>0, <3>5 DEF Turn!Authorize
    <3>6. issuance'[c].observed = issuance[c].observed
      BY <1>8, <3>2, <3>3, <3>4, <3>5
         DEF Turn!Next, Turn!HandOut, Turn!Lose, Turn!Relay, Turn!Query,
             Turn!Start, Turn!Fail, Turn!Tick
    <3> QED BY <1>2, <2>4, <3>1, <3>6 DEF Owing
  <2> QED BY <1>0, <2>3, <2>4, <2>5 DEF FewMissed
<1>9. ASSUME ~Turn!Authorize(c), ~Turn!Relay(c), failures' = failures,
             Missed(c)' \subseteq Missed(c)
      PROVE  Cardinality(Missed(c)') <= failures'
  <2>1. Cardinality(Missed(c)') <= Cardinality(Missed(c))
            /\ Cardinality(Missed(c)') \in Nat
    BY <1>5, <1>9, FS_Subset, FS_CardinalityType
  <2> QED BY <1>0, <1>5, <1>8, <1>9, <2>1
<1>10. ASSUME NEW w \in TurnSweeps, Turn!Fail(w), ~Turn!Authorize(c),
              ~Turn!Relay(c)
       PROVE  Cardinality(Missed(c)') <= failures'
  <2> DEFINE M == Missed(c) \cup {querying[w].at}
  <2>1. /\ querying[w] # Turn!Idle
        /\ querying' = [querying EXCEPT ![w] = Turn!Idle]
        /\ failures' = failures + 1
        /\ UNCHANGED <<issuance, started>>
    BY <1>10 DEF Turn!Fail
  <2>2. ASSUME NEW a \in Missed(c)' PROVE a \in M
    <3>1. /\ a \in Turn!Times /\ InWindow(c, a) /\ started # None
          /\ a <= started
          /\ ~\E v \in TurnSweeps : querying'[v] # Turn!Idle
                 /\ querying'[v].at = a /\ Has(v, c)'
      BY <2>1, <2>2 DEF Missed, InWindow
    <3>2. \A v \in TurnSweeps : v # w => querying'[v] = querying[v]
      BY <1>0, <2>1
    <3>3. \A v \in TurnSweeps : v # w => (Has(v, c)' <=> Has(v, c))
      BY <3>2 DEF Has
    <3>4. a # querying[w].at
              => ~\E v \in TurnSweeps : querying[v] # Turn!Idle
                  /\ querying[v].at = a /\ Has(v, c)
      BY <3>1, <3>2, <3>3
    <3> QED BY <3>1, <3>4 DEF Missed
  <2>3. IsFiniteSet(M) /\ Cardinality(M) <= Cardinality(Missed(c)) + 1
            /\ Cardinality(M) \in Nat
    <3>1. /\ IsFiniteSet(M)
          /\ Cardinality(M) = IF querying[w].at \in Missed(c)
                 THEN Cardinality(Missed(c))
                              ELSE Cardinality(Missed(c)) + 1
      BY <1>5, FS_AddElement, Zenon
    <3> QED BY <1>5, <3>1
  <2>4. Cardinality(Missed(c)') <= Cardinality(M)
            /\ Cardinality(Missed(c)') \in Nat
    BY <2>2, <2>3, FS_Subset, FS_CardinalityType
  <2> HIDE DEF M
  <2> QED BY <1>0, <1>5, <1>8, <1>10, <2>1, <2>3, <2>4
<1>11. ASSUME NEW w \in TurnSweeps, Turn!Start(w), ~Turn!Authorize(c),
              ~Turn!Relay(c)
       PROVE  Cardinality(Missed(c)') <= failures'
  <2>1. /\ querying[w] = Turn!Idle /\ UNCHANGED <<issuance, failures>>
        /\ started # minute /\ started' = minute
        /\ querying'[w]
               = [at |-> minute, todo |-> Turn!Due(minute), doing |-> None,
                   answer |-> 0]
        /\ \A v \in TurnSweeps : v # w => querying'[v] = querying[v]
    BY <1>0, <1>11 DEF Turn!Start
  <2>2. querying'[w] # Turn!Idle /\ querying'[w].at = minute
    <3>1. querying'[w].at = minute /\ minute # None
      BY <1>0, <2>1
    <3> QED BY <3>1 DEF Turn!Idle
  <2>3. ASSUME NEW a \in Missed(c)' PROVE a \in Missed(c)
    <3>1. /\ a \in Turn!Times /\ InWindow(c, a) /\ a <= minute
          /\ ~\E v \in TurnSweeps : querying'[v] # Turn!Idle
                 /\ querying'[v].at = a /\ Has(v, c)'
      BY <2>1, <2>3 DEF Missed, InWindow
    <3>2. a # minute
      <4>1. SUFFICES ASSUME a = minute PROVE FALSE
        OBVIOUS
      <4>2. issuance[c].expires + TurnWindow > minute
                /\ issuance[c].expires + TurnDelay <= minute
        BY <1>0, <1>1, <1>8, <1>11, <3>1, <4>1 DEF InWindow
      <4>3. issuance[c].issued < minute - TurnDelay
        BY <1>0, <1>1, <1>3, <1>8, <1>11, <4>2 DEF Fits
      <4>4. c \in Turn!Due(minute)
        BY <1>8, <1>11, <4>2, <4>3 DEF Turn!Due
      <4>5. Has(w, c)'
        BY <2>1, <4>4 DEF Has
      <4> QED BY <2>2, <3>1, <4>1, <4>5
    <3>3. started # None /\ a <= started
      <4>1. a \in Nat /\ a <= minute /\ a # minute /\ minute \in Nat
        BY <1>0, <3>1, <3>2
      <4>2. minute # 0 /\ a <= minute - 1
        BY <4>1
      <4>3. started # None /\ minute - 1 <= started
        BY <1>0, <4>2 DEF SweepsStarted
      <4>4. started \in Nat
        BY <1>0, <4>3
      <4>5. a <= started
        BY <4>1, <4>2, <4>3, <4>4
      <4> QED BY <4>3, <4>5
    <3>4. ~\E v \in TurnSweeps : querying[v] # Turn!Idle /\ querying[v].at = a
              /\ Has(v, c)
      <4>1. ASSUME NEW v \in TurnSweeps, querying[v] # Turn!Idle,
                   querying[v].at = a, Has(v, c)
            PROVE  FALSE
        <5>1. v # w
          BY <2>1, <4>1
        <5>2. Has(v, c)'
          BY <2>1, <4>1, <5>1 DEF Has
        <5> QED BY <2>1, <3>1, <4>1, <5>1, <5>2
      <4> QED BY <4>1
    <3> QED BY <3>1, <3>3, <3>4 DEF Missed
  <2> QED BY <1>9, <1>11, <2>1, <2>3
<1>12. ASSUME NEW w \in TurnSweeps, NEW d \in Pair, Turn!Query(w, d)
       PROVE  Cardinality(Missed(c)') <= failures'
  <2> DEFINE n ==
          Turn!Counted(d, Turn!Least(querying[w].at - TurnDelay,
                                     issuance[d].expires))
  <2>1. /\ querying[w] # Turn!Idle /\ d \in querying[w].todo
        /\ querying[w].doing = None
        /\ UNCHANGED <<issuance, route, relayed, started, failures>>
        /\ Turn!Asks(w, querying[w].todo \ {d}, d, n)
    BY <1>12 DEF Turn!Query
  <2> HIDE DEF n
  <2>2. /\ \A v \in TurnSweeps : v # w => querying'[v] = querying[v]
        /\ querying'[w]
               = [at |-> querying[w].at, todo |-> querying[w].todo \ {d},
                   doing |-> d,
                        answer |-> n]
        /\ querying'[w] # Turn!Idle
    <3>1. querying[w].at # None
      BY <1>0, <2>1 DEF Asking
    <3> QED BY <1>0, <2>1, <3>1 DEF Turn!Asks, Turn!Idle
  <2>3. \A v \in TurnSweeps : querying[v] # Turn!Idle /\ Has(v, c)
           => querying'[v] # Turn!Idle /\ Has(v, c)'
               /\ querying'[v].at = querying[v].at
    BY <2>1, <2>2 DEF Has
  <2>4. Missed(c)' \subseteq Missed(c)
    BY <2>1, <2>3, NoMoreMissed
  <2>5. ~Turn!Authorize(c) /\ ~Turn!Relay(c)
    BY <1>0, <2>1, <2>2 DEF Turn!Authorize, Turn!Relay, Has
  <2> QED BY <1>9, <2>1, <2>4, <2>5
<1>13. ASSUME NEW w \in TurnSweeps, Turn!Settle(w), ~Turn!Authorize(c),
              ~Turn!Relay(c)
       PROVE  Cardinality(Missed(c)') <= failures'
  <2>1. /\ querying[w] # Turn!Idle /\ UNCHANGED <<started, failures>>
        /\ Turn!Asks(w, querying[w].todo, None, 0) /\ querying[w].doing # None
    BY <1>13 DEF Turn!Settle
  <2>2. /\ \A v \in TurnSweeps : v # w => querying'[v] = querying[v]
        /\ querying'[w]
               = [at |-> querying[w].at, todo |-> querying[w].todo,
                   doing |-> None,
                        answer |-> 0]
        /\ querying'[w] # Turn!Idle
    <3>1. querying[w].at # None
      BY <1>0, <2>1 DEF Asking
    <3> QED BY <1>0, <2>1, <3>1 DEF Turn!Asks, Turn!Idle
  <2>3. querying[w].doing = c => ~InWindow(c, querying[w].at)
    <3>1. SUFFICES ASSUME querying[w].doing = c, InWindow(c, querying[w].at)
                   PROVE  FALSE
      OBVIOUS
    <3>2. /\ querying[w].at \in Nat /\ issuance[c].expires \in Nat
          /\ querying[w].answer \in Nat /\ issuance[c].observed \in Nat
          /\ Final(c) \in Nat
      BY <1>0, <1>1, <1>3, <1>8, <1>13, <2>1, CountedBounds DEF Asking
    <3>3. querying[w].answer = Final(c)
      <4>1. issuance[c].expires <= querying[w].at - TurnDelay
        BY <3>1, <3>2 DEF InWindow
      <4> QED BY <1>0, <2>1, <3>1, <4>1 DEF SweepsKnow, Knows
    <3>4. issuance[c].observed <= Final(c) /\ issuance[c].observed # Final(c)
      BY <1>1, <1>3, <1>8, <1>13 DEF Fits, Owing
    <3>5. Turn!Delta(c, querying[w].answer) # 0
      <4>1. querying[w].answer > issuance[c].observed
        <5> DEFINE n == querying[w].answer
                   o == issuance[c].observed
        <5>1. n \in Nat /\ o \in Nat /\ o <= n /\ o # n
          BY <3>2, <3>3, <3>4
        <5> HIDE DEF n, o
        <5>2. n > o
          BY <5>1
        <5> QED BY <5>2 DEF n, o
      <4> QED BY <3>2, <4>1 DEF Turn!Delta
    <3>6. issuance' = [issuance EXCEPT ![c] =
                          [issuance[c] EXCEPT !.observed = querying[w].answer]]
      BY <1>8, <1>13, <3>1, <3>5 DEF Turn!Settle
    <3>7. issuance'[c].observed = querying[w].answer
      BY <1>0, <1>8, <1>13, <3>6 DEF Turn!Issuance
    <3> QED BY <1>2, <1>8, <1>13, <3>3, <3>7 DEF Owing
  <2>4. \A v \in TurnSweeps : querying[v] # Turn!Idle /\ Has(v, c)
            /\ InWindow(c, querying[v].at)
           => querying'[v] # Turn!Idle /\ Has(v, c)'
               /\ querying'[v].at = querying[v].at
    BY <2>2, <2>3 DEF Has
  <2>5. Missed(c)' \subseteq Missed(c)
    BY <1>8, <1>13, <2>1, <2>4, NoMoreMissed
  <2> QED BY <1>9, <1>13, <2>1, <2>5
<1>14. ASSUME NEW w \in TurnSweeps, Turn!Prune(w), ~Turn!Authorize(c),
              ~Turn!Relay(c)
       PROVE  Cardinality(Missed(c)') <= failures'
  <2>1. /\ querying[w].doing = None /\ querying[w].todo = {}
        /\ querying' = [querying EXCEPT ![w] = Turn!Idle]
        /\ UNCHANGED <<started, failures>>
    BY <1>14 DEF Turn!Prune
  <2>2. \A v \in TurnSweeps : Has(v, c) => v # w /\ querying'[v] = querying[v]
    BY <1>0, <2>1 DEF Has
  <2>3. \A v \in TurnSweeps : querying[v] # Turn!Idle /\ Has(v, c)
           => querying'[v] # Turn!Idle /\ Has(v, c)'
               /\ querying'[v].at = querying[v].at
    BY <2>2 DEF Has
  <2>4. Missed(c)' \subseteq Missed(c)
    BY <1>8, <1>14, <2>1, <2>3, NoMoreMissed
  <2> QED BY <1>9, <1>14, <2>1, <2>4
<1>15. ASSUME UNCHANGED <<querying, started, failures>>, ~Turn!Authorize(c),
              ~Turn!Relay(c)
       PROVE  Cardinality(Missed(c)') <= failures'
  <2>1. Missed(c)' \subseteq Missed(c)
    BY <1>8, <1>15, NoMoreMissed DEF Has
  <2> QED BY <1>9, <1>15, <2>1
<1>16. \/ UNCHANGED <<querying, started, failures>>
       \/ \E w \in TurnSweeps : Turn!Start(w) \/ Turn!Fail(w) \/ Turn!Settle(w)
              \/ Turn!Prune(w)
                           \/ \E d \in Pair : Turn!Query(w, d)
  BY DEF Turn!Next, Turn!Authorize, Turn!HandOut, Turn!Release, Turn!Lose,
     Turn!Relay, Turn!Tick
<1> QED BY <1>6, <1>7, <1>10, <1>11, <1>12, <1>13, <1>14, <1>15, <1>16

LEMMA PrunedKept ==
    ASSUME Turn!TurnAssumption, TurnKept, Turn!Next, RelayedFits'
    PROVE  Turn!PrunedIsCharged'
<1> USE TurnNumbers
<1>0. /\ Turn!TypeOK /\ RelayedFits /\ SweepsStarted /\ SweepsKnow /\ FewMissed
      /\ Turn!PrunedIsCharged
      /\ issuance \in [Pair -> Turn!Issuance \cup {Turn!NotIssued}]
      /\ querying \in [TurnSweeps -> Asking \cup {Turn!Idle}]
      /\ relayed \in [Pair -> [Turn!Minutes -> Turn!Bytes]]
      /\ minute \in Nat /\ minute \in Turn!Times
      /\ failures \in 0 .. TurnFailures
      /\ started \in Turn!Times \cup {None}
  BY DEF TurnKept, Turn!TypeOK, Asking
<1>1. \A i \in Turn!Issuance : /\ i.issued \in Nat /\ i.expires \in Nat
          /\ i.observed \in Nat
                          /\ i # Turn!NotIssued
  BY DEF Turn!Issuance, Turn!Times, Turn!NotIssued
<1>2. SUFFICES ASSUME NEW c \in Pair, issuance'[c].state = "pruned"
               PROVE  issuance'[c].observed = Final(c)'
  BY DEF Turn!PrunedIsCharged, Final
<1>3. Fits(c)
  BY <1>0 DEF RelayedFits
<1>4. CASE issuance[c].state = "pruned"
  <2>1. issuance[c] # Turn!NotIssued /\ issuance[c] \in Turn!Issuance
    BY <1>0, <1>4 DEF Turn!NotIssued
  <2>2. issuance'[c] = issuance[c]
    BY <1>4, <2>1, TermsKept
  <2>3. issuance[c].expires <= minute
    <3>1. issuance[c].expires + TurnWindow <= minute
              /\ issuance[c].expires \in Nat
      BY <1>1, <1>3, <1>4, <2>1 DEF Fits
    <3> QED BY <1>0, <3>1
  <2>4. Final(c)' = Final(c)
    <3>1. CASE Turn!Relay(c)
      BY <1>0, <1>3, <2>1, <2>3, <3>1, RelayCounts
    <3>2. CASE ~Turn!Relay(c)
      <4>1. relayed'[c] = relayed[c]
        BY <1>0, <3>2
           DEF Turn!Next, Turn!Authorize, Turn!HandOut, Turn!Release, Turn!Lose,
               Turn!Relay, Turn!Query, Turn!Start,
                          Turn!Fail, Turn!Settle, Turn!Prune, Turn!Tick
      <4> QED BY <2>2, <4>1 DEF Final, Turn!Counted
    <3> QED BY <3>1, <3>2
  <2>5. issuance[c].observed = Final(c)
    BY <1>0, <1>4 DEF Turn!PrunedIsCharged, Final
  <2> QED BY <2>2, <2>4, <2>5
<1>5. CASE issuance[c].state # "pruned"
  <2>1. \E w \in TurnSweeps : Turn!Prune(w)
    <3>1. ASSUME NEW d \in Pair, Turn!Authorize(d) PROVE FALSE
      <4>1. d # c
        BY <1>0, <1>2, <3>1 DEF Turn!Authorize
      <4> QED BY <1>0, <1>2, <1>5, <3>1, <4>1 DEF Turn!Authorize
    <3>2. ASSUME NEW d \in Pair, Turn!Release(d) PROVE FALSE
      <4>1. \/ issuance'[c] = issuance[c]
            \/ Turn!Live(c)
                   /\ issuance'[c] = [issuance[c] EXCEPT !.state = "released"]
        BY <1>0, <3>2 DEF Turn!Release
      <4>2. Turn!Live(c) => issuance[c] \in Turn!Issuance
        BY <1>0 DEF Turn!Live, Turn!NotIssued
      <4> QED BY <1>2, <1>5, <4>1, <4>2 DEF Turn!Issuance
    <3>3. ASSUME NEW w \in TurnSweeps, Turn!Settle(w) PROVE FALSE
      <4>1. \/ issuance'[c] = issuance[c]
            \/ Turn!Live(c)
                   /\ issuance'[c]
                          = [issuance[c] EXCEPT !.observed = querying[w].answer]
        BY <1>0, <3>3 DEF Turn!Settle
      <4>2. Turn!Live(c) => issuance[c] \in Turn!Issuance
        BY <1>0 DEF Turn!Live, Turn!NotIssued
      <4> QED BY <1>2, <1>5, <4>1, <4>2 DEF Turn!Issuance
    <3> QED BY <1>2, <1>5, <3>1, <3>2, <3>3
            DEF Turn!Next, Turn!HandOut, Turn!Lose, Turn!Relay, Turn!Query,
                Turn!Start, Turn!Fail, Turn!Tick
  <2>2. PICK w \in TurnSweeps : Turn!Prune(w)
    BY <2>1
  <2>3. /\ Turn!Live(c) /\ querying[w] # Turn!Idle
        /\ issuance[c].expires + TurnWindow <= querying[w].at
        /\ issuance'[c] = [issuance[c] EXCEPT !.state = "pruned"]
        /\ relayed' = relayed
    BY <1>0, <1>2, <1>5, <2>2 DEF Turn!Prune
  <2>4. issuance[c] \in Turn!Issuance
    BY <1>0, <2>3 DEF Turn!Live, Turn!NotIssued
  <2>5. ~Owing(c)
    <3>1. SUFFICES ASSUME Owing(c) PROVE FALSE
      OBVIOUS
    <3> DEFINE E == issuance[c].expires
               from == E + TurnDelay
               to == E + TurnWindow - TurnRun - 1
    <3>2. E \in Nat /\ querying[w].at \in Nat /\ querying[w].at \in Turn!Times
              /\ started \in Nat
          /\ querying[w].at <= started /\ started <= minute /\ started # None
      <4>1. started # None /\ querying[w].at <= started /\ started <= minute
        BY <1>0, <2>3 DEF SweepsStarted
      <4> QED BY <1>0, <1>1, <2>3, <2>4, <4>1 DEF Asking
    <3>3. ASSUME NEW a \in from .. to PROVE a \in Missed(c)
      <4>1. a \in Nat /\ a <= querying[w].at /\ a + TurnRun < minute
        <5> DEFINE p == querying[w].at
        <5>1. E + TurnWindow <= p /\ p <= minute
          BY <1>0, <2>3, <3>2
        <5>2. E \in Nat /\ p \in Nat
          BY <3>2
        <5> HIDE DEF E, p
        <5>3. a \in Nat /\ a <= p /\ a + TurnRun < minute
          BY <1>0, <5>1, <5>2
        <5> QED BY <5>3 DEF p
      <4>2. a \in Turn!Times
        BY <3>2, <4>1 DEF Turn!Times
      <4>3. InWindow(c, a)
        BY <3>2, <4>1 DEF InWindow
      <4>4. ~\E v \in TurnSweeps : querying[v] # Turn!Idle /\ querying[v].at = a
                /\ Has(v, c)
        <5>1. ASSUME NEW v \in TurnSweeps, querying[v] # Turn!Idle,
                     querying[v].at = a
              PROVE  FALSE
          <6>1. minute - a <= TurnRun
            BY <1>0, <5>1 DEF SweepsStarted
          <6> QED BY <1>0, <4>1, <6>1
        <5> QED BY <5>1
      <4>5. a <= started
        BY <3>2, <4>1
      <4> QED BY <3>2, <4>2, <4>3, <4>4, <4>5 DEF Missed
    <3>4. from \in Int /\ to \in Int /\ from <= to
      BY <3>2
    <3>5. /\ IsFiniteSet(from .. to) /\ Cardinality(from .. to) = to - from + 1
      <4> HIDE DEF from, to
      <4>1. /\ IsFiniteSet(from .. to)
            /\ Cardinality(from .. to) = IF from > to THEN 0 ELSE to - from + 1
        BY <3>4, FS_Interval, Zenon
      <4> QED BY <3>4, <4>1
    <3>6. Missed(c) \subseteq Turn!Times
      BY DEF Missed
    <3>7. IsFiniteSet(Missed(c)) /\ Cardinality(Missed(c)) \in Nat
      BY <3>6, MissedIsFinite
    <3>8. Cardinality(from .. to) <= Cardinality(Missed(c))
      <4> HIDE DEF from, to
      <4>1. (from .. to) \subseteq Missed(c)
        BY <3>3
      <4> QED BY <3>7, <4>1, FS_Subset
    <3>9. Cardinality(Missed(c)) <= failures
      BY <1>0, <2>3, <3>1 DEF FewMissed
    <3>10. to - from + 1 > TurnFailures
      BY <3>2
    <3> HIDE DEF from, to
    <3> QED BY <1>0, <3>4, <3>5, <3>7, <3>8, <3>9, <3>10
  <2>6. /\ issuance'[c].observed = issuance[c].observed
        /\ issuance'[c].issued = issuance[c].issued
        /\ issuance'[c].expires = issuance[c].expires
    BY <2>3, <2>4 DEF Turn!Issuance
  <2> QED BY <2>3, <2>5, <2>6 DEF Owing, Final, Turn!Counted
<1> QED BY <1>4, <1>5

(* The total of amounts in the meter is their total here.                  *)
LEMMA BytesTotal == \A f : Turn!Total(f) = Cardinality(Turn!Units(f))
  BY DEF Turn!Total, Turn!Cardinality, Cardinality

(* When one amount changes, the total changes with it, and no amount is    *)
(* larger than the total.                                                  *)
LEMMA TotalUpdate ==
    ASSUME NEW S, NEW f \in [S -> Nat], NEW g \in [S -> Nat], NEW x \in S,
           \A y \in S : y # x => g[y] = f[y],
           IsFiniteSet(Turn!Units(f))
    PROVE  /\ IsFiniteSet(Turn!Units(g))
           /\ Turn!Total(f) \in Nat /\ Turn!Total(g) \in Nat
           /\ f[x] <= Turn!Total(f)
           /\ Turn!Total(g) = Turn!Total(f) - f[x] + g[x]
  <1>. DEFINE Rest == UNION {{y} \X (1..f[y]) : y \in S \ {x}}
              Of(n) == {x} \X (1..n)
  <1>1. Turn!Units(f) = Rest \cup Of(f[x])
    BY DEF Turn!Units
  <1>2. Turn!Units(g) = Rest \cup Of(g[x])
    <2>1. Rest = UNION {{y} \X (1..g[y]) : y \in S \ {x}}
      OBVIOUS
    <2>. QED BY <2>1 DEF Turn!Units
  <1>3. \A n \in Nat : Rest \cap Of(n) = {}
    OBVIOUS
  <1>4. ASSUME NEW n \in Nat
        PROVE  IsFiniteSet(Of(n)) /\ Cardinality(Of(n)) = n
    <2>0. 1 \in Int /\ n \in Int
      OBVIOUS
    <2>a. /\ IsFiniteSet(1..n)
          /\ Cardinality(1..n) = IF 1 > n THEN 0 ELSE n - 1 + 1
      BY <2>0, FS_Interval, Zenon
    <2>1. IsFiniteSet(1..n) /\ Cardinality(1..n) = n
      BY <2>a
    <2>2. IsFiniteSet({x}) /\ Cardinality({x}) = 1
      BY FS_Singleton
    <2>3. IsFiniteSet(Of(n)) /\ Cardinality(Of(n)) = 1 * n
      BY <2>1, <2>2, FS_Product
    <2>. QED BY <2>3
  <1>5. IsFiniteSet(Rest) /\ Cardinality(Rest) \in Nat
    BY <1>1, FS_Subset, FS_CardinalityType
  <1>. HIDE DEF Rest, Of
  <1>6. ASSUME NEW n \in Nat
        PROVE  /\ IsFiniteSet(Rest \cup Of(n))
               /\ Cardinality(Rest \cup Of(n)) = Cardinality(Rest) + n
    <2>1. Cardinality(Rest \cap Of(n)) = 0
      BY <1>3, FS_EmptySet
    <2>2. /\ IsFiniteSet(Rest \cup Of(n))
          /\ Cardinality(Rest \cup Of(n)) =
               Cardinality(Rest) + Cardinality(Of(n)) - Cardinality(Rest \cap Of(n))
      BY <1>4, <1>5, FS_Union
    <2>. QED BY <2>1, <2>2, <1>4, <1>5
  <1>7. f[x] \in Nat /\ g[x] \in Nat
    OBVIOUS
  <1>8. /\ Turn!Total(f) = Cardinality(Rest) + f[x]
        /\ Turn!Total(g) = Cardinality(Rest) + g[x]
        /\ IsFiniteSet(Turn!Units(g))
    BY <1>1, <1>2, <1>6, <1>7, BytesTotal
  <1>. QED BY <1>5, <1>7, <1>8

(* The total of nothing.                                                   *)
LEMMA TotalZero ==
    ASSUME NEW S, NEW f \in [S -> Nat], \A y \in S : f[y] = 0
    PROVE  IsFiniteSet(Turn!Units(f)) /\ Turn!Total(f) = 0
  <1>1. Turn!Units(f) = {}
    <2>1. \A y \in S : {y} \X (1..f[y]) = {}
      OBVIOUS
    <2>. QED BY <2>1 DEF Turn!Units
  <1>. QED BY <1>1, FS_EmptySet, BytesTotal

LEMMA TurnInit == ASSUME Turn!TurnAssumption, Turn!Init PROVE TurnKept
<1> USE TurnNumbers
<1>1. /\ \A c \in Pair : issuance[c] = Turn!NotIssued /\ route[c] = "new"
      /\ \A c \in Pair, t \in Turn!Minutes : relayed[c][t] = 0
      /\ \A w \in TurnSweeps : querying[w] = Turn!Idle
      /\ started = None /\ failures = 0 /\ minute = 0
  BY DEF Turn!Init
<1>2. Turn!TypeOK
  <2>1. 0 \in Turn!Minutes /\ 0 \in Turn!Bytes
    BY DEF Turn!Minutes, Turn!Bytes
  <2> QED BY <2>1 DEF Turn!Init, Turn!TypeOK, Turn!Times, Turn!Sources
<1>3. SweepsStarted /\ SweepsKnow
  BY <1>1 DEF SweepsStarted, SweepsKnow
<1>4. ASSUME NEW c \in Pair PROVE Fits(c)
  BY <1>1 DEF Fits, Turn!NotIssued
<1>5. \A c \in Pair : ~Turn!Live(c) /\ issuance[c].state # "pruned"
  BY <1>1 DEF Turn!Live, Turn!NotIssued
<1> QED BY <1>2, <1>3, <1>4, <1>5
           DEF TurnKept, RelayedFits, FewMissed, Turn!PrunedIsCharged

LEMMA TurnSame == ASSUME TurnKept, UNCHANGED Turn!vars PROVE TurnKept'
  BY DEF Turn!vars, TurnKept, Turn!TypeOK, SweepsStarted, SweepsKnow, Knows,
     Has, RelayedFits, Fits,
         Final, Turn!Counted, FewMissed, Turn!Live, Owing, Missed, InWindow,
             Turn!PrunedIsCharged

LEMMA TurnNext ==
    ASSUME Turn!TurnAssumption, TurnKept, [Turn!Next]_(Turn!vars)
    PROVE  TurnKept'
<1>1. CASE Turn!Next
  <2>1. RelayedFits'
    BY <1>1, FitsKept
  <2> QED BY <1>1, <2>1, TurnTypes, StartedKept, KnowKept, MissedKept,
             PrunedKept
          DEF TurnKept
<1>2. CASE UNCHANGED Turn!vars
  BY <1>2, TurnSame
<1> QED BY <1>1, <1>2
-----------------------------------------------------------------------------
(* What is charged to a period, of finitely many bytes.                    *)
Charged(s) == IsFiniteSet(Turn!Units(Turn!Observed(s)))
    /\ usage[s] = Turn!Total(Turn!Observed(s))

Charges == \A s \in Turn!Sources : Charged(s)

LEMMA ObservedTypes ==
    ASSUME Turn!TurnAssumption, Turn!TypeOK, NEW s \in Turn!Sources
    PROVE  Turn!Observed(s) \in [Pair -> Nat]
<1>1. \A i \in Turn!Issuance : i.observed \in Nat
  BY TurnNumbers DEF Turn!Issuance
<1>2. \A c \in Pair : issuance[c] # Turn!NotIssued
          => issuance[c].observed \in Nat
  BY <1>1 DEF Turn!TypeOK
<1> QED BY <1>2 DEF Turn!Observed

LEMMA ChargesInit == ASSUME Turn!TurnAssumption, Turn!Init PROVE Charges
<1>1. Turn!TypeOK
  BY TurnInit DEF TurnKept
<1>2. ASSUME NEW s \in Turn!Sources PROVE Charged(s)
  <2>1. \A c \in Pair : Turn!Observed(s)[c] = 0
    BY DEF Turn!Init, Turn!Observed
  <2>2. Turn!Observed(s) \in [Pair -> Nat]
    BY <1>1, ObservedTypes
  <2>3. IsFiniteSet(Turn!Units(Turn!Observed(s)))
            /\ Turn!Total(Turn!Observed(s)) = 0
    BY <2>1, <2>2, TotalZero
  <2> QED BY <2>3 DEF Charged, Turn!Init
<1> QED BY <1>2 DEF Charges

(* Credentials that keep what they are issued for and what was observed.   *)
LEMMA ObservedSame ==
    ASSUME Turn!TurnAssumption, Charges, usage' = usage,
           \A c \in Pair, s \in Turn!Sources :
               Turn!Observed(s)'[c] = Turn!Observed(s)[c]
    PROVE  Charges'
<1>1. ASSUME NEW s \in Turn!Sources PROVE Turn!Observed(s)' = Turn!Observed(s)
  BY DEF Turn!Observed
<1>2. ASSUME NEW s \in Turn!Sources PROVE Charged(s)'
  BY <1>1 DEF Charges, Charged
<1> QED BY <1>2 DEF Charges

LEMMA ChargesKept ==
    ASSUME Turn!TurnAssumption, TurnKept, Charges, Turn!Next PROVE Charges'
<1>0. /\ Turn!TypeOK /\ Turn!TypeOK'
      /\ issuance \in [Pair -> Turn!Issuance \cup {Turn!NotIssued}]
      /\ usage \in [Turn!Sources -> Nat]
  BY TurnTypes DEF TurnKept, Turn!TypeOK
<1>1. \A i \in Turn!Issuance : i.observed \in Nat /\ i.source \in Turn!Sources
          /\ i # Turn!NotIssued
  BY TurnNumbers DEF Turn!Issuance, Turn!NotIssued
<1>2. ASSUME NEW c \in Pair, NEW s \in Turn!Sources, issuance'[c] = issuance[c]
      PROVE  Turn!Observed(s)'[c] = Turn!Observed(s)[c]
  BY <1>2 DEF Turn!Observed
<1>3. CASE UNCHANGED <<issuance, usage>>
  <2>1. \A c \in Pair, s \in Turn!Sources :
            Turn!Observed(s)'[c] = Turn!Observed(s)[c]
    BY <1>2, <1>3
  <2> QED BY <1>3, <2>1, ObservedSame
<1>4. ASSUME NEW c \in Pair, Turn!Authorize(c) PROVE Charges'
  <2>1. issuance[c] = Turn!NotIssued
    BY <1>4 DEF Turn!Authorize, TurnKept, RelayedFits, Fits
  <2>2. PICK p \in Turn!Sources : issuance' = [issuance EXCEPT ![c] =
                 [state |-> "live", source |-> p, issued |-> minute,
                  expires |-> minute + TurnTtl, observed |-> 0]]
    BY <1>4 DEF Turn!Authorize
  <2>3. issuance'[c].observed = 0 /\ \A d \in Pair : d # c
            => issuance'[d] = issuance[d]
    BY <1>0, <2>2
  <2>4. \A s \in Turn!Sources : Turn!Observed(s)'[c] = 0
            /\ Turn!Observed(s)[c] = 0
    BY <2>1, <2>3 DEF Turn!Observed
  <2>5. \A d \in Pair, s \in Turn!Sources :
            Turn!Observed(s)'[d] = Turn!Observed(s)[d]
    BY <1>2, <2>3, <2>4
  <2>6. usage' = usage
    BY <1>4 DEF Turn!Authorize
  <2> QED BY <2>5, <2>6, ObservedSame
<1>5. ASSUME (\E c \in Pair : Turn!Release(c))
                 \/ (\E w \in TurnSweeps : Turn!Prune(w))
      PROVE  Charges'
  <2>1. \A c \in Pair :
           \/ issuance'[c] = issuance[c]
           \/ Turn!Live(c)
                  /\ \E x : issuance'[c] = [issuance[c] EXCEPT !.state = x]
    <3>1. ASSUME NEW c \in Pair, NEW d \in Pair, Turn!Release(d)
          PROVE  \/ issuance'[c] = issuance[c]
                 \/ Turn!Live(c)
                        /\ issuance'[c]
                               = [issuance[c] EXCEPT !.state = "released"]
      BY <1>0, <3>1 DEF Turn!Release
    <3>2. ASSUME NEW c \in Pair, NEW w \in TurnSweeps, Turn!Prune(w)
          PROVE  \/ issuance'[c] = issuance[c]
                 \/ Turn!Live(c)
                        /\ issuance'[c]
                               = [issuance[c] EXCEPT !.state = "pruned"]
      BY <1>0, <3>2 DEF Turn!Prune
    <3> QED BY <1>5, <3>1, <3>2
  <2>2. ASSUME NEW c \in Pair, NEW s \in Turn!Sources
        PROVE  Turn!Observed(s)'[c] = Turn!Observed(s)[c]
    <3>1. CASE issuance'[c] = issuance[c]
      BY <1>2, <3>1
    <3>2. CASE issuance'[c] # issuance[c]
      <4>1. PICK x : issuance'[c] = [issuance[c] EXCEPT !.state = x]
        BY <2>1, <3>2
      <4>2. issuance[c] \in Turn!Issuance
        BY <1>0, <2>1, <3>2 DEF Turn!Live, Turn!NotIssued
      <4>3. /\ issuance'[c] # Turn!NotIssued
            /\ issuance'[c].source = issuance[c].source
            /\ issuance'[c].observed = issuance[c].observed
        BY <4>1, <4>2 DEF Turn!Issuance, Turn!NotIssued
      <4> QED BY <1>1, <4>2, <4>3 DEF Turn!Observed
    <3> QED BY <3>1, <3>2
  <2>3. usage' = usage
    BY <1>5 DEF Turn!Release, Turn!Prune
  <2> QED BY <2>2, <2>3, ObservedSame
<1>6. ASSUME NEW w \in TurnSweeps, Turn!Settle(w) PROVE Charges'
  <2> DEFINE c == querying[w].doing
             n == querying[w].answer
  <2>1. CASE ~(Turn!Live(c) /\ Turn!Delta(c, n) # 0)
    BY <1>3, <1>6, <2>1 DEF Turn!Settle
  <2>2. CASE Turn!Live(c) /\ Turn!Delta(c, n) # 0
    <3>1. querying[w] \in Asking /\ c # None
      BY <1>0, <1>6 DEF Turn!Settle, Turn!TypeOK, Asking
    <3>2. c \in Pair /\ n \in Nat
      BY <3>1, TurnNumbers DEF Asking
    <3>3. issuance[c] \in Turn!Issuance
      BY <1>0, <2>2, <3>2 DEF Turn!Live, Turn!NotIssued
    <3>4. issuance[c].observed \in Nat /\ issuance[c] # Turn!NotIssued
      BY <1>1, <3>3
    <3>p. PICK p \in Turn!Sources : p = issuance[c].source
      BY <1>1, <3>3
    <3> DEFINE more == usage[p] + Turn!Delta(c, n)
    <3>5. /\ usage' = [usage EXCEPT ![p] = more]
          /\ issuance'
                 = [issuance EXCEPT ![c] = [issuance[c] EXCEPT !.observed = n]]
      BY <1>6, <2>2, <3>p DEF Turn!Settle
    <3>6. Turn!Delta(c, n) = n - issuance[c].observed
      BY <2>2 DEF Turn!Delta
    <3> HIDE DEF c, n, more
    <3>7. issuance'[c].observed = n /\ issuance'[c].source = p
              /\ issuance'[c] # Turn!NotIssued
      <4>1. issuance'[c] = [issuance[c] EXCEPT !.observed = n]
        BY <1>0, <3>2, <3>5
      <4> QED BY <3>3, <3>p, <4>1 DEF Turn!Issuance, Turn!NotIssued
    <3>8. \A d \in Pair : d # c => issuance'[d] = issuance[d]
      BY <1>0, <3>5
    <3>9. usage'[p] = more /\ \A s \in Turn!Sources : s # p
              => usage'[s] = usage[s]
      BY <1>0, <3>4, <3>5
    <3>10. ASSUME NEW s \in Turn!Sources, s # p PROVE Charged(s)'
      <4>1. Turn!Observed(s)'[c] = 0 /\ Turn!Observed(s)[c] = 0
        BY <3>2, <3>7, <3>10, <3>p DEF Turn!Observed
      <4>2. \A d \in Pair : Turn!Observed(s)'[d] = Turn!Observed(s)[d]
        BY <1>2, <3>8, <4>1
      <4>3. Turn!Observed(s)' = Turn!Observed(s)
        BY <4>2 DEF Turn!Observed
      <4> QED BY <3>9, <3>10, <4>3 DEF Charges, Charged
    <3>11. Charged(p)'
      <4>1. Turn!Observed(p) \in [Pair -> Nat]
                /\ Turn!Observed(p)' \in [Pair -> Nat]
        <5>1. ASSUME Turn!TypeOK', NEW s \in Turn!Sources
              PROVE  Turn!Observed(s)' \in [Pair -> Nat]
          <6>1. \A d \in Pair : issuance'[d] # Turn!NotIssued
                    => issuance'[d].observed \in Nat
            BY <1>1, <5>1 DEF Turn!TypeOK
          <6> QED BY <6>1 DEF Turn!Observed
        <5> QED BY <1>0, <3>4, <5>1, ObservedTypes
      <4>2. \A d \in Pair : d # c => Turn!Observed(p)'[d] = Turn!Observed(p)[d]
        BY <1>2, <3>4, <3>8
      <4>3. /\ IsFiniteSet(Turn!Units(Turn!Observed(p)))
            /\ usage[p] = Turn!Total(Turn!Observed(p))
        BY <3>4 DEF Charges, Charged
      <4>4. /\ IsFiniteSet(Turn!Units(Turn!Observed(p)'))
            /\ Turn!Total(Turn!Observed(p)) \in Nat
            /\ Turn!Total(Turn!Observed(p)')
                   = Turn!Total(Turn!Observed(p)) - Turn!Observed(p)[c] + Turn!Observed(p)'[c]
        BY <3>2, <4>1, <4>2, <4>3, TotalUpdate
      <4>5. Turn!Observed(p)[c] = issuance[c].observed
                /\ Turn!Observed(p)'[c] = n
        <5>1. issuance[c].source = p
          BY <3>p
        <5>2. Turn!Observed(p)[c] = issuance[c].observed
          BY <3>2, <3>4, <5>1 DEF Turn!Observed
        <5>3. Turn!Observed(p)'[c] = issuance'[c].observed
          BY <3>2, <3>7 DEF Turn!Observed
        <5> QED BY <3>7, <5>2, <5>3
      <4>6. more = usage[p] + (n - issuance[c].observed)
        BY <3>6 DEF more
      <4>7. usage'[p] = Turn!Total(Turn!Observed(p)')
        BY <3>2, <3>4, <3>9, <4>3, <4>4, <4>5, <4>6
      <4> QED BY <4>4, <4>7 DEF Charged
    <3> QED BY <3>10, <3>11 DEF Charges
  <2> QED BY <2>1, <2>2
<1>7. CASE \/ Turn!Tick
           \/ \E c \in Pair : \/ Turn!HandOut(c) \/ Turn!Lose(c)
                  \/ Turn!Relay(c)
                                     \/ \E w \in TurnSweeps : Turn!Query(w, c)
           \/ \E w \in TurnSweeps : Turn!Start(w) \/ Turn!Fail(w)
  BY <1>3, <1>7
     DEF Turn!Tick, Turn!HandOut, Turn!Lose, Turn!Relay, Turn!Query, Turn!Start,
         Turn!Fail
<1> QED BY <1>4, <1>5, <1>6, <1>7 DEF Turn!Next

LEMMA ChargesNext ==
    ASSUME Turn!TurnAssumption, TurnKept, Charges, [Turn!Next]_(Turn!vars)
    PROVE  Charges'
<1>1. CASE UNCHANGED Turn!vars
  BY <1>1, ObservedSame DEF Turn!vars, Turn!Observed
<1> QED BY <1>1, ChargesKept
-----------------------------------------------------------------------------
(* A byte that `TurnCredentialMeter` settles is charged once, to the       *)
(* period of the credential, however the sweeps of `runTurnMeteringSweep`  *)
(* overlap, and when `pruneFinalized` forgets a credential, every byte     *)
(* relayed with it after the minute of its issue and before its issuance   *)
(* expired has been charged: for every number of credentials, sweeps,      *)
(* periods and failures that the window outlasts.                          *)
THEOREM BytesAreChargedOnce == MCSpec => []TurnInv
<1>. DEFINE IInv == part = "turn" => TurnKept /\ Charges
<1>1. MCInit => IInv
  BY TurnHolds, TurnInit, ChargesInit DEF MCInit
<1>2. IInv /\ [MCNext]_<<part, vars, meterVars>> => IInv'
  <2>. SUFFICES ASSUME IInv, [MCNext]_<<part, vars, meterVars>>, part' = "turn"
                PROVE  (TurnKept /\ Charges)'
    OBVIOUS
  <2>1. TurnKept /\ Charges
    BY DEF MCNext
  <2>2. [Turn!Next]_(Turn!vars)
    BY DEF MCNext, meterVars, turnVars, Turn!vars
  <2>. QED BY <2>1, <2>2, TurnHolds, TurnNext, ChargesNext
<1>3. IInv => TurnInv
  <2>1. Charges => Turn!ChargedOnce
    BY DEF Charges, Charged, Turn!ChargedOnce
  <2>. QED BY <2>1 DEF TurnInv, TurnKept
<1>. QED BY <1>1, <1>2, <1>3, PTL DEF MCSpec
=============================================================================
