--------------------- MODULE SharedHostingSchedulerProofs ---------------------
(***************************************************************************)
(* Nothing is oversubscribed and no world is forked, for any number of     *)
(* nodes and services, with commands that are lost, nodes that fall silent *)
(* and payments that fail, as long as the calls for one service do not     *)
(* overtake each other at the dispatch; no hour of an assignment is        *)
(* charged again but by a settlement that a later one overtook; and the    *)
(* commands of a node are leased one at a time, in order, to an agent that *)
(* makes one call at a time.                                               *)
(***************************************************************************)
EXTENDS MCSharedHosting, FiniteSetTheorems, TLAPS

(* c is of the assignment that service has on node n.                      *)
Placed(c, n) ==
    /\ service[c.service].node = n
    /\ service[c.service].assignment = c.assignment
    /\ service[c.service].revision = c.revision

(* A stop is of an assignment that is over, or is being stopped.           *)
StopIsKnown(c) ==
    LET s == service[c.service] IN
    /\ c.assignment <= s.assignment
    /\ c.assignment = s.assignment =>
         \/ s.status = "stopping" /\ s.node = c.node /\ s.revision = c.revision
         \/ s.status \in Startable /\ s.revision = c.revision + 1

Valid(c) == /\ c.kind = "restore_and_start" => Placed(c, c.node)
            /\ c.kind = "stop_and_sync" => StopIsKnown(c)

(* Without overtaking.                                                     *)
OnePending == \A c, d \in undispatched : c.service = d.service => c = d

PendingValid == \A c \in undispatched : Valid(c)

InboxValid ==
    \A n \in Nodes : \A i \in 1..Len(inbox[n]) :
        inbox[n][i].node = n /\ Valid(inbox[n][i])

(* c stops an assignment before the one that d restores.                   *)
StopsBefore(c, d) ==
    /\ c.kind = "stop_and_sync" /\ d.kind = "restore_and_start"
    /\ c.service = d.service
    => c.assignment < d.assignment

(* A node does not restore what it was told to stop before.                *)
Ordered ==
    \A n \in Nodes : \A i \in 1..Len(inbox[n]) :
        /\ \A d \in undispatched : StopsBefore(inbox[n][i], d)
        /\ \A j \in 1..Len(inbox[n]) :
              i < j => StopsBefore(inbox[n][i], inbox[n][j])

ContainerPlaced == \A n \in Nodes : \A c \in container[n] : Placed(c, n)

(* The revision of a service is ahead of all that ran but what may run.    *)
PlayedIsOld ==
    \A p \in played :
        LET s == service[p.service] IN
        /\ p.assignment <= s.assignment /\ p.revision <= s.revision
        /\ p.revision = s.revision
             => p.assignment = s.assignment /\ s.status \in Active

Agreement ==
    /\ OnePending /\ PendingValid /\ InboxValid /\ Ordered
    /\ ContainerPlaced /\ PlayedIsOld /\ NoWorldForked

Inv == TypeOK /\ SlotsFit /\ Agreement
-----------------------------------------------------------------------------

(* What a transaction may do to a service, and to no other at once: place  *)
(* it, have it wait, take its start, or tell it to stop.                   *)
Keeps(s) ==
    /\ service'[s].node = service[s].node
    /\ service'[s].assignment = service[s].assignment
    /\ service'[s].revision = service[s].revision
    /\ \/ service'[s].status = service[s].status
       \/ service[s].status \in Startable /\ service'[s].status \in Startable
       \/ service[s].status = "starting" /\ service'[s].status = "running"
       \/ /\ service[s].status \in {"starting", "running"}
          /\ service'[s].status = "stopping"

Places(s) ==
    /\ service[s].status \in Startable /\ service'[s].status = "starting"
    /\ service'[s].assignment = service[s].assignment + 1
    /\ service'[s].revision = service[s].revision

(* A new command: no other one of its service is pending.                  *)
Sends(c) ==
    /\ \A d \in undispatched' : c.service = d.service => c = d
    /\ \/ c.kind = "restore_and_start" /\ Places(c.service)
              /\ Placed(c, c.node)'
       \/ /\ c.kind = "stop_and_sync" /\ Placed(c, c.node)'
          /\ service[c.service].status \in {"starting", "running"}
          /\ Keeps(c.service) /\ service'[c.service].status = "stopping"

Transaction ==
    /\ \A s \in Services : Keeps(s) \/ Places(s)
    /\ undispatched \subseteq undispatched'
    /\ \A c \in undispatched' : c \in undispatched \/ Sends(c)
    /\ UNCHANGED agents

(* A transaction leaves what was in flight, and what runs, as valid.       *)
LEMMA StaysValid ==
    ASSUME TypeOK, TypeOK', NEW s \in Services, Keeps(s) \/ Places(s),
           NEW c, c.service = s, c.assignment \in Nat, c.revision \in Nat
    PROVE  /\ \A n \in Nodes : Placed(c, n) => Placed(c, n)' /\ Keeps(s)
           /\ StopIsKnown(c) => StopIsKnown(c)'
<1>0. /\ service[s] \in Service /\ service'[s] \in Service
      /\ service[s].status \in Active <=> service[s].node # None
      /\ service'[s].status \in Active <=> service'[s].node # None
  BY DEF TypeOK
<1>1. ASSUME NEW n \in Nodes, Placed(c, n)
      PROVE  Placed(c, n)' /\ Keeps(s)
  BY <1>0, <1>1, SchedulerAssumption
     DEF Placed, Keeps, Places, Active, Startable
<1>2. ASSUME StopIsKnown(c)
      PROVE  StopIsKnown(c)'
  BY <1>0, <1>2 DEF StopIsKnown, Keeps, Places, Active, Startable, Service
<1> QED
  BY <1>1, <1>2

LEMMA TransactionAgrees ==
    ASSUME TypeOK, TypeOK', Agreement, Transaction
    PROVE  Agreement'
<1> USE DEF Agreement
<1>a. /\ undispatched \subseteq Command /\ undispatched' \subseteq Command
      /\ \A n \in Nodes : /\ inbox[n] \in Seq(Command)
                          /\ container[n] \subseteq played
      /\ played \subseteq Played
      /\ \A s \in Services : service[s] \in Service /\ service'[s] \in Service
      /\ inbox' = inbox /\ container' = container /\ played' = played
  BY DEF TypeOK, Transaction, agents
<1>b. \A n \in Nodes : \A i \in 1..Len(inbox[n]) : inbox[n][i] \in Command
  BY <1>a
<1>c. \A c \in Command : /\ c.service \in Services /\ c.node \in Nodes
                         /\ c.assignment \in Nat /\ c.revision \in Nat
  BY DEF Command
<1>d. \A p \in Played : p.service \in Services /\ p.assignment \in Nat
                        /\ p.revision \in Nat
  BY DEF Played
<1>0. /\ \A c \in undispatched \cup undispatched' :
            /\ c.service \in Services /\ c.node \in Nodes
            /\ c.assignment \in Nat /\ c.revision \in Nat
      /\ \A n \in Nodes : \A i \in 1..Len(inbox[n]) :
            LET c == inbox[n][i] IN
            /\ c.service \in Services /\ c.node \in Nodes
            /\ c.assignment \in Nat /\ c.revision \in Nat
      /\ \A p \in played : /\ p.service \in Services
                           /\ p.assignment \in Nat /\ p.revision \in Nat
      /\ \A n \in Nodes : container[n] \subseteq played
      /\ \A s \in Services : service[s] \in Service /\ service'[s] \in Service
      /\ inbox' = inbox /\ container' = container /\ played' = played
  BY <1>a, <1>b, <1>c, <1>d
<1>1. OnePending'
  BY DEF OnePending, Transaction, Sends
<1>2. PendingValid'
  <2> SUFFICES ASSUME NEW c \in undispatched' PROVE Valid(c)'
    BY DEF PendingValid
  <2>1. CASE c \in undispatched
    BY <1>0, <2>1, StaysValid DEF PendingValid, Valid, Transaction
  <2>2. CASE Sends(c)
    BY <1>0, <2>2 DEF Sends, Valid, StopIsKnown, Placed, Service
  <2> QED
    BY <2>1, <2>2 DEF Transaction
<1>3. InboxValid'
  BY <1>0, StaysValid DEF InboxValid, Valid, Transaction
<1>4. Ordered'
  <2> SUFFICES ASSUME NEW n \in Nodes, NEW i \in 1..Len(inbox[n]),
                      NEW d \in undispatched'
               PROVE  StopsBefore(inbox[n][i], d)
    BY <1>0 DEF Ordered, StopsBefore
  <2>1. CASE d \in undispatched
    BY <2>1 DEF Ordered
  <2>2. CASE Sends(d)
    BY <1>0, <2>2
       DEF Sends, StopsBefore, InboxValid, Valid, StopIsKnown, Places,
                      Placed, Service
  <2> QED
    BY <2>1, <2>2 DEF Transaction
<1>5. ContainerPlaced'
  <2> SUFFICES ASSUME NEW n \in Nodes, NEW c \in container[n]
               PROVE  Placed(c, n)'
    BY <1>0 DEF ContainerPlaced
  <2> QED
    BY <1>0, StaysValid DEF ContainerPlaced, Transaction
<1>6. PlayedIsOld'
  <2> SUFFICES ASSUME NEW p \in played
               PROVE  LET s == service'[p.service] IN
                      /\ p.assignment <= s.assignment
                      /\ p.revision <= s.revision
                      /\ p.revision = s.revision
                           => p.assignment = s.assignment /\ s.status \in Active
    BY <1>0 DEF PlayedIsOld
  <2>1. Keeps(p.service) \/ Places(p.service)
    BY <1>0 DEF Transaction
  <2> QED
    BY <1>0, <2>1 DEF PlayedIsOld, Keeps, Places, Service, Active, Startable
<1>7. NoWorldForked'
  BY <1>0 DEF NoWorldForked
<1> QED
  BY <1>1, <1>2, <1>3, <1>4, <1>5, <1>6, <1>7
-----------------------------------------------------------------------------

NodesOK ==
    node \in [Nodes -> [status : {"absent", "ready", "draining", "offline"},
                               fresh : BOOLEAN]]

CallsOK == /\ paid \subseteq Services /\ starting \subseteq Services
           /\ rescan \in BOOLEAN /\ scheduling \subseteq Services

AgentsOK == /\ inbox \in [Nodes -> Seq(Command)] /\ played \subseteq Played
            /\ container \in [Nodes -> SUBSET played]

ServicesOK ==
    /\ service \in [Services -> Service]
    /\ \A s \in Services :
          service[s].status \in Active <=> service[s].node # None
    /\ undispatched \subseteq Command

LEMMA CommandOK ==
    ASSUME NEW record \in Service, record.node # None, NEW s \in Services,
           NEW kind \in {"restore_and_start", "stop_and_sync"}
    PROVE  LET c == CommandFor(record, s, kind) IN
           /\ c \in Command /\ c.kind = kind /\ c.service = s
           /\ c.node = record.node /\ c.assignment = record.assignment
           /\ c.revision = record.revision
  BY DEF CommandFor, Command, Service

(* The transactions of the scheduler are transactions in this sense.       *)
LEMMA Assigns ==
    ASSUME TypeOK, NEW s \in Services,
           service[s].status \in Startable, AssignOrQueue(s), UNCHANGED agents
    PROVE  ServicesOK' /\ (~Overtaking => Transaction)
<1>0. /\ service \in [Services -> Service] /\ undispatched \subseteq Command
      /\ \A t \in Services :
            service[t].status \in Active <=> service[t].node # None
  BY DEF TypeOK
<1>1. CASE /\ service' = [service EXCEPT ![s].status = "queued",
                                        ![s].hasStarted = TRUE]
           /\ UNCHANGED undispatched
  <2>1. /\ service' \in [Services -> Service]
        /\ \A t \in Services \ {s} : service'[t] = service[t]
        /\ service'[s].status = "queued" /\ service'[s].node = service[s].node
        /\ service'[s].assignment = service[s].assignment
        /\ service'[s].revision = service[s].revision
    BY <1>0, <1>1 DEF Service
  <2> QED
    BY <1>0, <1>1, <2>1
       DEF ServicesOK, Transaction, Keeps, Startable, Active
<1>2. ASSUME NEW n \in SelectNode(s),
             service' = [service EXCEPT ![s].status = "starting",
                                        ![s].node = n,
                                        ![s].assignment = @ + 1,
                                        ![s].hasStarted = TRUE],
             Send({CommandFor(service'[s], s, "restore_and_start")})
      PROVE  ServicesOK' /\ (~Overtaking => Transaction)
  <2>c. PICK c : c = CommandFor(service'[s], s, "restore_and_start")
    OBVIOUS
  <2>0. n \in Nodes /\ n # None
    BY SchedulerAssumption DEF SelectNode, Fitting
  <2>1. /\ service' \in [Services -> Service]
        /\ \A t \in Services \ {s} : service'[t] = service[t]
        /\ service'[s].status = "starting" /\ service'[s].node = n
        /\ service'[s].assignment = service[s].assignment + 1
        /\ service'[s].revision = service[s].revision
    BY <1>0, <1>2, <2>0 DEF Service, Active
  <2>2. /\ c \in Command /\ c.kind = "restore_and_start" /\ c.service = s
        /\ Placed(c, c.node)'
    BY <2>c, <2>0, <2>1, CommandOK DEF Placed
  <2>3. /\ undispatched' = undispatched \cup {c}
        /\ ~Overtaking => \A d \in undispatched : d.service # s
    BY <2>c, <1>2, <2>2 DEF Send
  <2>4. ~Overtaking => Sends(c)
    BY <2>1, <2>2, <2>3 DEF Sends, Places
  <2>5. \A t \in Services : Keeps(t) \/ Places(t)
    BY <2>1 DEF Keeps, Places
  <2> QED
    BY <1>0, <2>0, <2>1, <2>2, <2>3, <2>4, <2>5
       DEF ServicesOK, Transaction, Active
<1> QED
  BY <1>1, <1>2 DEF AssignOrQueue

LEMMA Stops ==
    ASSUME TypeOK, NEW S \in SUBSET Services, StopAll(S),
           UNCHANGED agents
    PROVE  ServicesOK' /\ (~Overtaking => Transaction)
<1> DEFINE stopped == {s \in S : service[s].status \in {"starting", "running"}}
           sent == {CommandFor(service'[s], s, "stop_and_sync") : s \in stopped}
<1>0. /\ service \in [Services -> Service] /\ undispatched \subseteq Command
      /\ \A t \in Services :
            service[t].status \in Active <=> service[t].node # None
  BY DEF TypeOK
<1>1. /\ service' \in [Services -> Service]
      /\ \A t \in Services \ stopped : service'[t] = service[t]
      /\ \A t \in stopped :
            /\ t \in Services
            /\ service[t].status \in {"starting", "running"}
            /\ service'[t].status = "stopping"
            /\ service'[t].node = service[t].node /\ service'[t].node # None
            /\ service'[t].assignment = service[t].assignment
            /\ service'[t].revision = service[t].revision
  BY <1>0 DEF StopAll, Service, Active
<1>2. \A c \in sent :
        /\ c \in Command /\ c.kind = "stop_and_sync" /\ c.service \in stopped
        /\ c = CommandFor(service'[c.service], c.service, "stop_and_sync")
        /\ Placed(c, c.node)'
  <2> SUFFICES ASSUME NEW s \in stopped, NEW c,
                      c = CommandFor(service'[s], s, "stop_and_sync")
               PROVE  /\ c \in Command /\ c.kind = "stop_and_sync"
                      /\ c.service = s /\ Placed(c, c.node)'
    OBVIOUS
  <2> QED
    BY <1>1, CommandOK DEF Placed
<1>3. /\ undispatched' = undispatched \cup sent
      /\ ~Overtaking =>
           \A c \in sent : \A d \in undispatched : d.service # c.service
  BY <1>2 DEF StopAll, Send
<1>4. \A s \in Services : Keeps(s)
  BY <1>1 DEF Keeps
<1> HIDE DEF stopped, sent
<1>5. ~Overtaking => \A c \in sent : Sends(c)
  BY <1>1, <1>2, <1>3, <1>4 DEF Sends
<1>6. ServicesOK'
  BY <1>0, <1>1, <1>2, <1>3 DEF ServicesOK, Active
<1> QED
  BY <1>3, <1>4, <1>5, <1>6 DEF Transaction

LEMMA Starts ==
    ASSUME TypeOK, NEW n \in Nodes, ReportStarted(n)
    PROVE  ServicesOK' /\ (~Overtaking => Transaction)
<1>0. /\ service \in [Services -> Service] /\ undispatched \subseteq Command
      /\ \A t \in Services :
            service[t].status \in Active <=> service[t].node # None
      /\ \A c \in container[n] : c.service \in Services
  BY DEF TypeOK, Played
<1>1. PICK d \in container[n] :
        LET s == d.service IN
        /\ Assigned(n, d, "starting")
        /\ service' = [service EXCEPT
             ![s].status = IF s \in paid THEN "running" ELSE "stopping",
             ![s].seed = IF @ = "selected" THEN "sent" ELSE @]
        /\ Send(IF s \in paid THEN {}
                ELSE {CommandFor(service'[s], s, "stop_and_sync")})
        /\ UNCHANGED agents
  BY DEF ReportStarted
<1> DEFINE s == d.service
<1>c. PICK c : c = CommandFor(service'[s], s, "stop_and_sync")
  OBVIOUS
<1>2. /\ s \in Services /\ service' \in [Services -> Service]
      /\ \A t \in Services \ {s} : service'[t] = service[t]
      /\ service[s].status = "starting"
      /\ service'[s].status = IF s \in paid THEN "running" ELSE "stopping"
      /\ service'[s].node = service[s].node /\ service'[s].node # None
      /\ service'[s].assignment = service[s].assignment
      /\ service'[s].revision = service[s].revision
  BY <1>0, <1>1 DEF Assigned, Service, Active
<1>3. /\ c \in Command /\ c.kind = "stop_and_sync" /\ c.service = s
      /\ Placed(c, c.node)'
  BY <1>2, <1>c, CommandOK DEF Placed
<1>4. Send(IF s \in paid THEN {} ELSE {c}) /\ UNCHANGED agents
  BY <1>1, <1>c
<1>5. \A t \in Services : Keeps(t)
  BY <1>2 DEF Keeps
<1> HIDE DEF s
<1>6. CASE s \in paid
  BY <1>0, <1>2, <1>4, <1>5, <1>6 DEF Send, ServicesOK, Transaction, Active
<1>7. CASE s \notin paid
  <2>1. /\ undispatched' = undispatched \cup {c}
        /\ ~Overtaking => \A e \in undispatched : e.service # s
    BY <1>3, <1>4, <1>7 DEF Send
  <2>2. ~Overtaking => Sends(c)
    BY <1>2, <1>3, <1>5, <1>7, <2>1 DEF Sends
  <2> QED
    BY <1>0, <1>2, <1>3, <1>4, <1>5, <1>7, <2>1, <2>2
       DEF ServicesOK, Transaction, Active
<1> QED
  BY <1>6, <1>7
-----------------------------------------------------------------------------

(* The inboxes of the nodes, but perhaps for what was at their heads.      *)
Shortened ==
    \A n \in Nodes : \E o \in {0, 1} :
        /\ inbox'[n] \in Seq(Command)
        /\ \A i \in 1..Len(inbox'[n]) : i + o \in 1..Len(inbox[n])
                                       /\ inbox'[n][i] = inbox[n][i + o]

LEMMA TakesHead ==
    ASSUME TypeOK, NEW n \in Nodes, inbox[n] # <<>>,
           inbox' = [inbox EXCEPT ![n] = Tail(@)]
    PROVE  /\ inbox' \in [Nodes -> Seq(Command)] /\ Shortened
           /\ 1 \in 1..Len(inbox[n]) /\ Head(inbox[n]) = inbox[n][1]
           /\ Head(inbox[n]) \in Command
           /\ \A i \in 1..Len(inbox'[n]) : i + 1 \in 1..Len(inbox[n])
                                          /\ inbox'[n][i] = inbox[n][i + 1]
           /\ \A m \in Nodes \ {n} : inbox'[m] = inbox[m]
<1>1. inbox \in [Nodes -> Seq(Command)]
  BY DEF TypeOK
<1>2. /\ Tail(inbox[n]) \in Seq(Command) /\ Head(inbox[n]) \in Command
      /\ Head(inbox[n]) = inbox[n][1] /\ 1 \in 1..Len(inbox[n])
      /\ Len(Tail(inbox[n])) = Len(inbox[n]) - 1 /\ Len(inbox[n]) \in Nat
      /\ \A i \in 1..Len(Tail(inbox[n])) : Tail(inbox[n])[i] = inbox[n][i + 1]
  BY <1>1
<1>3. /\ inbox' \in [Nodes -> Seq(Command)] /\ inbox'[n] = Tail(inbox[n])
      /\ \A m \in Nodes \ {n} : inbox'[m] = inbox[m]
  BY <1>1, <1>2
<1>4. \A i \in 1..Len(inbox'[n]) : i + 1 \in 1..Len(inbox[n])
                                  /\ inbox'[n][i] = inbox[n][i + 1]
  BY <1>2, <1>3
<1>5. \A m \in Nodes \ {n} : \A i \in 1..Len(inbox'[m]) :
        i + 0 \in 1..Len(inbox[m]) /\ inbox'[m][i] = inbox[m][i + 0]
  BY <1>3
<1> QED
  BY <1>2, <1>3, <1>4, <1>5 DEF Shortened

LEMMA SameIsShortened ==
    ASSUME inbox \in [Nodes -> Seq(Command)], inbox' = inbox
    PROVE  Shortened
<1> SUFFICES ASSUME NEW n \in Nodes
             PROVE  /\ inbox'[n] \in Seq(Command)
                    /\ \A i \in 1..Len(inbox'[n]) :
                          i + 0 \in 1..Len(inbox[n])
                          /\ inbox'[n][i] = inbox[n][i + 0]
  BY DEF Shortened
<1> QED
  OBVIOUS

LEMMA ShortenedIsOrdered ==
    ASSUME Ordered, Shortened, undispatched' \subseteq undispatched
    PROVE  Ordered'
<1> SUFFICES ASSUME NEW n \in Nodes, NEW i \in 1..Len(inbox'[n])
             PROVE  /\ \A d \in undispatched' : StopsBefore(inbox'[n][i], d)
                    /\ \A j \in 1..Len(inbox'[n]) :
                          i < j => StopsBefore(inbox'[n][i], inbox'[n][j])
  BY DEF Ordered, StopsBefore
<1>1. PICK o \in {0, 1} :
        \A j \in 1..Len(inbox'[n]) : j + o \in 1..Len(inbox[n])
                                    /\ inbox'[n][j] = inbox[n][j + o]
  BY DEF Shortened
<1>2. \A k, j \in 1..Len(inbox'[n]) : k < j => k + o < j + o
  BY <1>1
<1> QED
  BY <1>1, <1>2 DEF Ordered

LEMMA ShortenedAgrees ==
    ASSUME TypeOK, Agreement, Shortened, undispatched' \subseteq undispatched,
           UNCHANGED service
    PROVE  OnePending' /\ PendingValid' /\ InboxValid' /\ Ordered'
<1>1. OnePending' /\ PendingValid'
  BY DEF Agreement, OnePending, PendingValid, Valid, Placed, StopIsKnown
<1>2. InboxValid'
  <2> SUFFICES ASSUME NEW n \in Nodes, NEW i \in 1..Len(inbox'[n])
               PROVE  inbox'[n][i].node = n /\ Valid(inbox'[n][i])
    BY DEF InboxValid, Valid, Placed, StopIsKnown
  <2>1. PICK j \in 1..Len(inbox[n]) : inbox'[n][i] = inbox[n][j]
    BY DEF Shortened
  <2> QED
    BY <2>1 DEF Agreement, InboxValid
<1> QED
  BY <1>1, <1>2, ShortenedIsOrdered DEF Agreement

LEMMA DispatchAgrees ==
    ASSUME TypeOK, Agreement, NEW c \in undispatched, Dispatch(c)
    PROVE  Agreement'
<1>1. /\ inbox \in [Nodes -> Seq(Command)] /\ c \in Command /\ c.node \in Nodes
      /\ inbox' = [inbox EXCEPT ![c.node] = Append(@, c)]
      /\ undispatched' = undispatched \ {c}
      /\ UNCHANGED <<node, service, paid, calls, container, played>>
  BY DEF TypeOK, Command, Dispatch
<1> DEFINE q == inbox[c.node]
<1>2. /\ inbox' \in [Nodes -> Seq(Command)]
      /\ Len(q) \in Nat /\ Len(inbox'[c.node]) = Len(q) + 1
      /\ inbox'[c.node][Len(q) + 1] = c
      /\ \A i \in 1..Len(q) : inbox'[c.node][i] = q[i]
      /\ \A n \in Nodes \ {c.node} : inbox'[n] = inbox[n]
  BY <1>1
<1>4. OnePending' /\ PendingValid'
  BY <1>1 DEF Agreement, OnePending, PendingValid, Valid, Placed, StopIsKnown
<1>5. Valid(c) /\ \A d \in undispatched' : d.service # c.service
  BY <1>1 DEF Agreement, OnePending, PendingValid
<1>6. InboxValid'
  <2> SUFFICES ASSUME NEW n \in Nodes, NEW i \in 1..Len(inbox'[n])
               PROVE  inbox'[n][i].node = n /\ Valid(inbox'[n][i])
    <3>1. service' = service
      BY <1>1
    <3> QED
      BY <3>1 DEF InboxValid, Valid, Placed, StopIsKnown
  <2>1. CASE n = c.node /\ i = Len(q) + 1
    BY <1>2, <1>5, <2>1
  <2>2. CASE i \in 1..Len(inbox[n]) /\ inbox'[n][i] = inbox[n][i]
    BY <2>2 DEF Agreement, InboxValid
  <2> QED
    BY <1>2, <2>1, <2>2
<1>7. Ordered'
  <2> SUFFICES ASSUME NEW n \in Nodes, NEW i \in 1..Len(inbox'[n])
               PROVE  /\ \A d \in undispatched' : StopsBefore(inbox'[n][i], d)
                      /\ \A j \in 1..Len(inbox'[n]) :
                            i < j => StopsBefore(inbox'[n][i], inbox'[n][j])
    BY DEF Ordered, StopsBefore
  <2>1. CASE n = c.node /\ i = Len(q) + 1
    BY <1>2, <1>5, <2>1 DEF StopsBefore
  <2>2. CASE i \in 1..Len(inbox[n]) /\ inbox'[n][i] = inbox[n][i]
    <3>1. \A d \in undispatched : StopsBefore(inbox[n][i], d)
      BY <2>2 DEF Agreement, Ordered
    <3>2. ASSUME NEW j \in 1..Len(inbox'[n]), i < j
          PROVE  StopsBefore(inbox'[n][i], inbox'[n][j])
      <4>1. CASE n = c.node /\ j = Len(q) + 1
        BY <1>2, <2>2, <3>1, <4>1
      <4>2. CASE j \in 1..Len(inbox[n]) /\ inbox'[n][j] = inbox[n][j]
        BY <2>2, <3>2, <4>2 DEF Agreement, Ordered
      <4> QED
        BY <1>2, <4>1, <4>2
    <3> QED
      BY <1>1, <2>2, <3>1, <3>2
  <2> QED
    BY <1>2, <2>1, <2>2
<1>8. ContainerPlaced' /\ PlayedIsOld' /\ NoWorldForked'
  BY <1>1 DEF Agreement, ContainerPlaced, PlayedIsOld, NoWorldForked, Placed
<1> QED
  BY <1>4, <1>6, <1>7, <1>8 DEF Agreement
LEMMA RestoreAgrees ==
    ASSUME TypeOK, Agreement, NEW n \in Nodes, AgentRestore(n)
    PROVE  Agreement'
<1> DEFINE c == inbox[n][1]
           new == [service |-> c.service, assignment |-> c.assignment,
                   revision |-> c.revision]
<1>0. /\ inbox[n] # <<>> /\ inbox' = [inbox EXCEPT ![n] = Tail(@)]
      /\ UNCHANGED <<node, service, paid, calls, undispatched>>
  BY DEF AgentRestore
<1>1. /\ inbox' \in [Nodes -> Seq(Command)] /\ Shortened
      /\ 1 \in 1..Len(inbox[n]) /\ Head(inbox[n]) = c /\ c \in Command
  BY <1>0, TakesHead
<1>2. /\ c.kind = "restore_and_start" /\ played' = played \cup {new}
      /\ container' = [container EXCEPT ![n] = @ \cup {new}]
  BY <1>1 DEF AgentRestore
<1>3. Placed(c, n)
  BY <1>1, <1>2 DEF Agreement, InboxValid, Valid
<1>4. /\ new \in Played /\ new.service = c.service
      /\ new.assignment = c.assignment /\ new.revision = c.revision
  BY <1>1 DEF Command, Played
<1>5. service[c.service] \in Service /\ service[c.service].status \in Active
  BY <1>1, <1>3, SchedulerAssumption DEF TypeOK, Command, Placed
<1> HIDE DEF new
<1>7. OnePending' /\ PendingValid' /\ InboxValid' /\ Ordered'
  BY <1>0, <1>1, ShortenedAgrees
<1>8. ContainerPlaced'
  BY <1>0, <1>2, <1>3, <1>4 DEF TypeOK, Agreement, ContainerPlaced, Placed
<1>9. PlayedIsOld'
  BY <1>0, <1>2, <1>3, <1>4, <1>5
     DEF Agreement, PlayedIsOld, Placed, Service, Played
<1>10. NoWorldForked'
  <2>1. ASSUME NEW p \in played, p.service = new.service
        PROVE  /\ ~(new.assignment < p.assignment)
               /\ p.assignment < new.assignment => p.revision < new.revision
    <3>1. p \in Played
      BY DEF TypeOK
    <3> QED
      BY <2>1, <3>1, <1>3, <1>4, <1>5
         DEF Agreement, PlayedIsOld, Placed, Service, Played
  <2>2. ~(new.assignment < new.assignment)
    BY <1>4 DEF Played
  <2> QED
    BY <1>2, <2>1, <2>2 DEF Agreement, NoWorldForked
<1> QED
  BY <1>7, <1>8, <1>9, <1>10 DEF Agreement

LEMMA AgentStopAgrees ==
    ASSUME TypeOK, Agreement, NEW n \in Nodes, AgentStop(n)
    PROVE  Agreement'
<1>1. /\ UNCHANGED <<node, service, paid, calls, undispatched, inbox, played>>
      /\ container' \in [Nodes -> SUBSET played]
      /\ \A m \in Nodes : container'[m] \subseteq container[m]
  BY DEF AgentStop, TypeOK
<1>3. Shortened
  BY <1>1, SameIsShortened DEF TypeOK
<1>4. OnePending' /\ PendingValid' /\ InboxValid' /\ Ordered'
  BY <1>1, <1>3, ShortenedAgrees
<1>5. ContainerPlaced' /\ PlayedIsOld' /\ NoWorldForked'
  BY <1>1 DEF Agreement, ContainerPlaced, PlayedIsOld, NoWorldForked, Placed
<1> QED
  BY <1>4, <1>5 DEF Agreement

LEMMA GivesUpAgrees ==
    ASSUME TypeOK, Agreement, NEW n \in Nodes, AgentGivesUp(n)
    PROVE  Agreement'
<1>1. /\ inbox[n] # <<>> /\ inbox' = [inbox EXCEPT ![n] = Tail(@)]
      /\ UNCHANGED <<node, service, paid, calls, undispatched, container,
             played>>
  BY DEF AgentGivesUp, Synced
<1>2. inbox' \in [Nodes -> Seq(Command)] /\ Shortened
  BY <1>1, TakesHead
<1>4. OnePending' /\ PendingValid' /\ InboxValid' /\ Ordered'
  BY <1>1, <1>2, ShortenedAgrees
<1>5. ContainerPlaced' /\ PlayedIsOld' /\ NoWorldForked'
  BY <1>1 DEF Agreement, ContainerPlaced, PlayedIsOld, NoWorldForked, Placed
<1> QED
  BY <1>4, <1>5 DEF Agreement

LEMMA LoseAgrees ==
    ASSUME TypeOK, Agreement, NEW c \in undispatched, Lose(c)
    PROVE  Agreement'
<1>1. /\ undispatched' \subseteq undispatched
      /\ UNCHANGED <<node, service, paid, calls, inbox, container, played>>
  BY DEF Lose, agents
<1> QED
  BY <1>1 DEF Agreement, OnePending, PendingValid, InboxValid, Ordered,
              StopsBefore, Valid, StopIsKnown, ContainerPlaced, PlayedIsOld,
              NoWorldForked, Placed

(* The one step that moves a revision: what it is about runs nowhere, and  *)
(* no restore of it is on its way.                                         *)
LEMMA ReportStoppedAgrees ==
    ASSUME TypeOK, Agreement, NEW n \in Nodes, ReportStopped(n)
    PROVE  Agreement'
<1> DEFINE c == inbox[n][1]
           s == c.service
<1>0. /\ inbox[n] # <<>> /\ inbox' \in {inbox, [inbox EXCEPT ![n] = Tail(@)]}
      /\ inbox \in [Nodes -> Seq(Command)]
      /\ UNCHANGED <<node, paid, starting, scheduling, undispatched, container,
                     played>>
      /\ rescan' = TRUE
  BY DEF ReportStopped, Synced, TypeOK
<1>1. /\ 1 \in 1..Len(inbox[n]) /\ Head(inbox[n]) = c /\ c \in Command
      /\ inbox' \in [Nodes -> Seq(Command)] /\ Shortened
  <2>1. /\ Len(inbox[n]) \in Nat /\ Len(inbox[n]) >= 1 /\ Head(inbox[n]) = c
        /\ inbox[n][1] \in Command
    BY <1>0
  <2> QED
    BY <1>0, <2>1, TakesHead, SameIsShortened
<1>2. /\ c.kind = "stop_and_sync" /\ service[s].node = n
      /\ service[s].assignment = c.assignment /\ service[s].status = "stopping"
      /\ \A d \in container[n] : d.assignment = c.assignment => d.service # s
      /\ service' = [service EXCEPT ![s].status = "ready", ![s].node = None,
                                    ![s].revision = c.revision + 1]
  BY <1>1 DEF ReportStopped, Synced, Assigned
<1>3. /\ s \in Services /\ c.assignment \in Nat /\ c.revision \in Nat
      /\ service \in [Services -> Service]
  BY <1>1 DEF Command, TypeOK
<1>4. service[s].revision = c.revision /\ c.node = n
  <2>1. StopIsKnown(c) /\ c.node = n
    BY <1>1, <1>2 DEF Agreement, InboxValid, Valid
  <2> QED
    BY <1>2, <2>1 DEF StopIsKnown, Startable
<1>5. /\ service' \in [Services -> Service]
      /\ \A t \in Services \ {s} : service'[t] = service[t]
      /\ service'[s].status = "ready" /\ service'[s].node = None
      /\ service'[s].assignment = service[s].assignment
      /\ service'[s].revision = service[s].revision + 1
  <2> HIDE DEF c, s
  <2> QED
    BY <1>2, <1>3, <1>4 DEF Service
<1> HIDE DEF c, s
<1>7. \A m \in Nodes : \A d \in container[m] : d.service # s
  BY <1>2 DEF Agreement, ContainerPlaced, Placed
<1>8. \A m \in Nodes : \A i \in 1..Len(inbox[m]) :
        inbox[m][i].kind = "restore_and_start" => inbox[m][i].service # s
  <2> SUFFICES ASSUME NEW m \in Nodes, NEW i \in 1..Len(inbox[m]),
                      inbox[m][i].kind = "restore_and_start",
                      inbox[m][i].service = s
               PROVE  FALSE
    OBVIOUS
  <2>1. m = n /\ inbox[m][i].assignment = c.assignment
    BY <1>2 DEF Agreement, InboxValid, Valid, Placed
  <2>2. i \in Nat /\ i # 1 /\ 1 < i
    BY <1>0, <1>2, <2>1 DEF c
  <2>3. StopsBefore(c, inbox[n][i])
    BY <1>1, <2>1, <2>2 DEF Agreement, Ordered, c
  <2> QED
    BY <1>2, <1>3, <2>1, <2>3 DEF StopsBefore, s
<1>9. \A d \in undispatched : d.kind = "restore_and_start" => d.service # s
  <2> SUFFICES ASSUME NEW d \in undispatched, d.kind = "restore_and_start",
                      d.service = s
               PROVE  FALSE
    OBVIOUS
  <2>1. d.assignment = c.assignment
    BY <1>2 DEF Agreement, PendingValid, Valid, Placed
  <2>2. StopsBefore(c, d)
    BY <1>1 DEF Agreement, Ordered, c
  <2> QED
    BY <1>2, <1>3, <2>1, <2>2 DEF StopsBefore, s
<1>10. ASSUME NEW d \in Command, Valid(d), d.kind = "restore_and_start"
                  => d.service # s
       PROVE  Valid(d)'
  <2>1. d.service \in Services /\ d.assignment \in Nat /\ d.revision \in Nat
    BY DEF Command
  <2>2. CASE d.service # s
    BY <1>5, <1>10, <2>1, <2>2 DEF Valid, Placed, StopIsKnown
  <2>3. CASE d.service = s
    BY <1>2, <1>3, <1>5, <1>10, <2>1, <2>3
       DEF Valid, StopIsKnown, Startable
  <2> QED
    BY <2>2, <2>3
<1>11. OnePending' /\ PendingValid'
  BY <1>0, <1>9, <1>10 DEF Agreement, OnePending, PendingValid, TypeOK
<1>12. InboxValid'
  <2> SUFFICES ASSUME NEW m \in Nodes, NEW i \in 1..Len(inbox'[m]),
                      NEW d, d = inbox'[m][i]
               PROVE  d.node = m /\ Valid(d)'
    BY DEF InboxValid
  <2>1. PICK j \in 1..Len(inbox[m]) : d = inbox[m][j]
    BY <1>1 DEF Shortened
  <2> QED
    BY <1>0, <1>8, <1>10, <2>1 DEF Agreement, InboxValid
<1>13. Ordered'
  BY <1>0, <1>1, ShortenedIsOrdered DEF Agreement
<1>14. ContainerPlaced'
  BY <1>0, <1>5, <1>7 DEF Agreement, ContainerPlaced, Placed, TypeOK, Played
<1>15. PlayedIsOld'
  <2> SUFFICES ASSUME NEW p \in played
               PROVE  LET t == service'[p.service] IN
                      /\ p.assignment <= t.assignment
                      /\ p.revision <= t.revision
                      /\ p.revision = t.revision
                           => p.assignment = t.assignment /\ t.status \in Active
    BY <1>0 DEF PlayedIsOld
  <2>1. p \in Played
    BY DEF TypeOK
  <2> QED
    BY <1>3, <1>5, <2>1 DEF Agreement, PlayedIsOld, Played, Service
<1>16. NoWorldForked'
  BY <1>0 DEF Agreement, NoWorldForked
<1> QED
  BY <1>11, <1>12, <1>13, <1>14, <1>15, <1>16 DEF Agreement
-----------------------------------------------------------------------------

(* Units.                                                                  *)
LEMMA UnitsFinite ==
    ASSUME NEW S \in SUBSET Services
    PROVE  IsFiniteSet(Units(S)) /\ Cardinality(Units(S)) \in Nat
<1> DEFINE f == [s \in S |-> {s} \X (1..Size[s])]
           T == {{s} \X (1..Size[s]) : s \in S}
<1>1. IsFiniteSet(S)
  BY SchedulerAssumption, FS_Subset
<1>2. f \in Surjection(S, T)
  BY DEF Surjection
<1>3. IsFiniteSet(T)
  BY <1>1, <1>2, FS_Surjection
<1>4. ASSUME NEW s \in S
      PROVE  IsFiniteSet({s} \X (1..Size[s]))
  <2>1. 1 \in Int /\ Size[s] \in Int
    BY SchedulerAssumption
  <2>2. IsFiniteSet(1..Size[s])
    BY <2>1, FS_Interval, Zenon
  <2>3. IsFiniteSet({s})
    BY FS_Singleton
  <2> QED
    BY <2>2, <2>3, FS_Product
<1>5. IsFiniteSet(UNION T)
  BY <1>3, <1>4, FS_UNION
<1> QED
  BY <1>5, FS_CardinalityType DEF Units

LEMMA UnitsMonotone ==
    ASSUME NEW S \in SUBSET Services, NEW R \in SUBSET S
    PROVE  Cardinality(Units(R)) <= Cardinality(Units(S))
<1>1. Units(R) \subseteq Units(S)
  BY DEF Units
<1> QED
  BY <1>1, UnitsFinite, FS_Subset

LEMMA UnitsAdd ==
    ASSUME NEW S \in SUBSET Services, NEW s \in Services
    PROVE  Cardinality(Units(S \cup {s})) <= Cardinality(Units(S)) + Size[s]
<1> DEFINE new == {s} \X (1..Size[s])
<1>1. Size[s] \in Nat
  BY SchedulerAssumption
<1>2. /\ IsFiniteSet(1..Size[s]) /\ Cardinality(1..Size[s]) = Size[s]
      /\ IsFiniteSet({s}) /\ Cardinality({s}) = 1
  <2>1. 1 \in Int /\ Size[s] \in Int
    BY <1>1
  <2>2. /\ IsFiniteSet(1..Size[s])
        /\ Cardinality(1..Size[s]) = IF 1 > Size[s] THEN 0 ELSE Size[s] - 1 + 1
    BY <2>1, FS_Interval, Zenon
  <2>3. Cardinality(1..Size[s]) = Size[s]
    BY <1>1, <2>2
  <2> QED
    BY <2>2, <2>3, FS_Singleton
<1>3. IsFiniteSet(new) /\ Cardinality(new) = 1 * Size[s]
  BY <1>2, FS_Product
<1>4. Units(S \cup {s}) = Units(S) \cup new
  BY DEF Units
<1> HIDE DEF new
<1>5. IsFiniteSet(Units(S)) /\ Cardinality(Units(S)) \in Nat
  BY UnitsFinite
<1>6. /\ Cardinality(Units(S) \cup new) =
           Cardinality(Units(S)) + Cardinality(new) - Cardinality(Units(S) \cap new)
      /\ IsFiniteSet(Units(S) \cap new)
  BY <1>3, <1>5, FS_Union, FS_Intersection
<1>7. Cardinality(Units(S) \cap new) \in Nat
  BY <1>6, FS_CardinalityType
<1>8. Cardinality(Units(S) \cup new) <= Cardinality(Units(S)) + Size[s]
  BY <1>1, <1>3, <1>5, <1>6, <1>7
<1> QED
  BY <1>4, <1>8

(* Nothing is placed.                                                      *)
LEMMA SlotsStayFit ==
    ASSUME TypeOK, SlotsFit,
           \A s \in Services : service'[s].status \in Active =>
              service[s].status \in Active /\ service'[s].node = service[s].node
    PROVE  SlotsFit'
<1> SUFFICES ASSUME NEW n \in Nodes
             PROVE  Cardinality(Units(OnNode(n)')) <= Capacity[n]
  BY DEF SlotsFit, Usage
<1>1. OnNode(n)' \subseteq OnNode(n) /\ OnNode(n) \subseteq Services
  BY DEF OnNode
<1>2. /\ Cardinality(Units(OnNode(n)')) <= Cardinality(Units(OnNode(n)))
      /\ Cardinality(Units(OnNode(n)')) \in Nat
      /\ Cardinality(Units(OnNode(n))) \in Nat
  BY <1>1, UnitsMonotone, UnitsFinite
<1>3. Cardinality(Units(OnNode(n))) <= Capacity[n] /\ Capacity[n] \in Nat
  BY SchedulerAssumption DEF SlotsFit, Usage
<1> QED
  BY <1>2, <1>3

(* One service is placed where it fits.                                    *)
LEMMA AssignedFits ==
    ASSUME TypeOK, SlotsFit, NEW s \in Services, AssignOrQueue(s),
           service[s].status \in Startable
    PROVE  SlotsFit'
<1>0. service \in [Services -> Service]
  BY DEF TypeOK
<1>1. CASE service' = [service EXCEPT ![s].status = "queued",
                                      ![s].hasStarted = TRUE]
  <2>1. \A t \in Services : service'[t].status \in Active =>
          service[t].status \in Active /\ service'[t].node = service[t].node
    BY <1>0, <1>1 DEF Service, Active
  <2> QED
    BY <2>1, SlotsStayFit
<1>2. ASSUME NEW n \in SelectNode(s),
             service' = [service EXCEPT ![s].status = "starting",
                                        ![s].node = n,
                                        ![s].assignment = @ + 1,
                                        ![s].hasStarted = TRUE]
      PROVE  SlotsFit'
  <2>1. n \in Nodes /\ Capacity[n] - Usage(n) >= Size[s]
    BY DEF SelectNode, Fitting, Room
  <2>2. /\ service'[s].node = n
        /\ \A t \in Services \ {s} : service'[t] = service[t]
    BY <1>0, <1>2 DEF Service
  <2> SUFFICES ASSUME NEW m \in Nodes
               PROVE  Cardinality(Units(OnNode(m)')) <= Capacity[m]
    BY DEF SlotsFit, Usage
  <2>3. OnNode(m) \in SUBSET Services /\ OnNode(m)' \in SUBSET Services
    BY DEF OnNode
  <2>4. /\ Cardinality(Units(OnNode(m))) \in Nat
        /\ Cardinality(Units(OnNode(m)')) \in Nat
        /\ Cardinality(Units(OnNode(m))) <= Capacity[m]
        /\ Capacity[m] \in Nat /\ Size[s] \in Nat
    BY <2>3, UnitsFinite, SchedulerAssumption DEF SlotsFit, Usage
  <2>5. CASE m = n
    <3>1. OnNode(m)' \subseteq OnNode(m) \cup {s}
      BY <2>2 DEF OnNode
    <3>2. Cardinality(Units(OnNode(m)'))
              <= Cardinality(Units(OnNode(m) \cup {s}))
      BY <2>3, <3>1, UnitsMonotone
    <3>3. /\ Cardinality(Units(OnNode(m) \cup {s}))
               <= Cardinality(Units(OnNode(m))) + Size[s]
          /\ Cardinality(Units(OnNode(m) \cup {s})) \in Nat
      BY <2>3, UnitsAdd, UnitsFinite
    <3> QED
      BY <2>1, <2>4, <2>5, <3>2, <3>3 DEF Usage
  <2>6. CASE m # n
    <3>1. OnNode(m)' \subseteq OnNode(m)
      BY <2>2, <2>6 DEF OnNode
    <3>2. Cardinality(Units(OnNode(m)')) <= Cardinality(Units(OnNode(m)))
      BY <2>3, <3>1, UnitsMonotone
    <3> QED
      BY <2>4, <3>2
  <2> QED
    BY <2>5, <2>6
<1> QED
  BY <1>1, <1>2 DEF AssignOrQueue

(* What runs is among what the scheduler accounts for.                     *)
LEMMA ContainersAreAccounted ==
    ASSUME TypeOK, SlotsFit, ContainerPlaced
    PROVE  ContainersFit
<1> SUFFICES ASSUME NEW n \in Nodes
             PROVE  Cardinality(UNION {{c} \X (1..Size[c.service]) :
                                       c \in container[n]}) <= Capacity[n]
  BY DEF ContainersFit
<1> DEFINE U == UNION {{c} \X (1..Size[c.service]) : c \in container[n]}
           g == [u \in U |-> <<u[1].service, u[2]>>]
<1>1. \A c \in container[n] :
        /\ c \in Played /\ c.service \in Services /\ Placed(c, n)
        /\ c.service \in OnNode(n)
  BY SchedulerAssumption DEF TypeOK, Played, ContainerPlaced, Placed, OnNode
<1>2. \A c, d \in container[n] : c.service = d.service => c = d
  BY <1>1 DEF Placed, Played
<1>3. \A u \in U : /\ u[1] \in container[n] /\ u[2] \in 1..Size[u[1].service]
                    /\ u = <<u[1], u[2]>>
  OBVIOUS
<1>4. g \in [U -> Units(OnNode(n))]
  <2> SUFFICES ASSUME NEW u \in U
               PROVE  <<u[1].service, u[2]>> \in Units(OnNode(n))
    OBVIOUS
  <2>1. u[1].service \in OnNode(n) /\ u[2] \in 1..Size[u[1].service]
    BY <1>1, <1>3
  <2> QED
    BY <2>1 DEF Units
<1>5. \A u, v \in U : g[u] = g[v] => u = v
  BY <1>2, <1>3
<1>6. g \in Injection(U, Units(OnNode(n)))
  BY <1>4, <1>5 DEF Injection, IsInjective
<1>7. OnNode(n) \in SUBSET Services
  BY DEF OnNode
<1>8. IsFiniteSet(Units(OnNode(n))) /\ Cardinality(Units(OnNode(n))) \in Nat
  BY <1>7, UnitsFinite
<1>9. /\ IsFiniteSet(U)
      /\ Cardinality(U) <= Cardinality(Units(OnNode(n)))
  BY <1>6, <1>8, FS_Injection
<1>10. Cardinality(U) \in Nat
  BY <1>9, FS_CardinalityType
<1> QED
  BY <1>8, <1>9, <1>10, SchedulerAssumption DEF SlotsFit, Usage
-----------------------------------------------------------------------------

LEMMA InitInv == Init => Inv
<1> SUFFICES ASSUME Init PROVE Inv
  OBVIOUS
<1>1. TypeOK
  <2>1. inbox \in [Nodes -> Seq(Command)]
            /\ container \in [Nodes -> SUBSET played]
    BY DEF Init
  <2>2. service \in [Services -> Service]
    BY DEF Init, Service
  <2> QED
    BY <2>1, <2>2 DEF Init, TypeOK, Active
<1>2. SlotsFit
  <2> SUFFICES ASSUME NEW n \in Nodes PROVE Usage(n) <= Capacity[n]
    BY DEF SlotsFit
  <2>1. OnNode(n) = {}
    BY DEF Init, OnNode, Active
  <2>2. Units({}) = {} /\ Cardinality({}) = 0
    BY FS_EmptySet DEF Units
  <2>3. Capacity[n] \in Nat
    BY SchedulerAssumption
  <2> QED
    BY <2>1, <2>2, <2>3 DEF Usage
<1>3. Agreement
  BY DEF Init, Agreement, OnePending, PendingValid, InboxValid, Ordered,
         ContainerPlaced, PlayedIsOld, NoWorldForked
<1> QED
  BY <1>1, <1>2, <1>3 DEF Inv

(* The types and the slots need no agreement.                              *)
LEMMA NextTyped ==
    ASSUME TypeOK, SlotsFit, [Next]_vars
    PROVE  TypeOK' /\ SlotsFit'
<1> DEFINE Goal == TypeOK' /\ SlotsFit'
<1>0. NodesOK /\ CallsOK /\ ServicesOK /\ AgentsOK
  BY DEF TypeOK, NodesOK, CallsOK, ServicesOK, AgentsOK
<1>a. ASSUME NodesOK', CallsOK', ServicesOK', AgentsOK', SlotsFit'
      PROVE  Goal
  BY <1>a DEF TypeOK, NodesOK, CallsOK, ServicesOK, AgentsOK
<1>b. ASSUME UNCHANGED <<service, undispatched, agents>>, NodesOK', CallsOK'
      PROVE  Goal
  <2>1. ServicesOK' /\ AgentsOK'
    BY <1>0, <1>b DEF ServicesOK, AgentsOK, agents
  <2>2. SlotsFit'
    BY <1>b DEF SlotsFit, Usage, OnNode
  <2> QED
    BY <1>a, <1>b, <2>1, <2>2
<1>c. ASSUME NEW s \in Services, service[s].status \in Startable,
             AssignOrQueue(s), UNCHANGED agents, NodesOK', CallsOK'
      PROVE  Goal
  <2>1. AgentsOK'
    BY <1>0, <1>c DEF AgentsOK, agents
  <2> QED
    BY <1>a, <1>c, <2>1, Assigns, AssignedFits
<1>d. ASSUME NEW S \in SUBSET Services, StopAll(S), UNCHANGED agents,
             NodesOK', CallsOK'
      PROVE  Goal
  <2>1. AgentsOK'
    BY <1>0, <1>d DEF AgentsOK, agents
  <2>2. \A s \in Services : service'[s].status \in Active =>
          service[s].status \in Active /\ service'[s].node = service[s].node
    BY <1>0, <1>d DEF StopAll, ServicesOK, Service, Active
  <2> QED
    BY <1>a, <1>d, <2>1, <2>2, Stops, SlotsStayFit
<1>1. ASSUME NEW s \in Services, StartCheck(s) PROVE Goal
  BY <1>0, <1>1, <1>b DEF StartCheck, NodesOK, CallsOK
<1>2. ASSUME NEW s \in Services, Start(s) PROVE Goal
  <2>1. UNCHANGED agents /\ NodesOK' /\ CallsOK'
    BY <1>0, <1>2 DEF Start, NodesOK, CallsOK
  <2> QED
    BY <1>2, <1>b, <1>c, <2>1 DEF Start
<1>3. ASSUME NEW s \in Services, Stop(s) \/ EnforcePaymentDue(s) PROVE Goal
  BY <1>0, <1>3, <1>d DEF Stop, EnforcePaymentDue, calls, NodesOK, CallsOK
<1>4. ASSUME NEW s \in Services, PaymentFails(s) PROVE Goal
  BY <1>0, <1>4, <1>b DEF PaymentFails, calls, NodesOK, CallsOK
<1>5. ASSUME NEW s \in Services, SelectInitialWorld(s) PROVE Goal
  <2>1. /\ service' \in [Services -> Service]
        /\ \A t \in Services : /\ service'[t].node = service[t].node
                               /\ service'[t].status = service[t].status
    BY <1>0, <1>5 DEF SelectInitialWorld, ServicesOK, Service
  <2>2. NodesOK' /\ CallsOK' /\ ServicesOK' /\ AgentsOK'
    BY <1>0, <1>5, <2>1
       DEF SelectInitialWorld, calls, agents, NodesOK, CallsOK, ServicesOK,
           AgentsOK
  <2> QED
    BY <1>a, <2>1, <2>2, SlotsStayFit
<1>6. ASSUME NEW s \in Services, ScheduleQueued(s) PROVE Goal
  <2>1. UNCHANGED agents /\ NodesOK' /\ CallsOK'
    BY <1>0, <1>6 DEF ScheduleQueued, NodesOK, CallsOK
  <2> QED
    BY <1>6, <1>b, <1>c, <2>1 DEF ScheduleQueued, Startable
<1>7. ASSUME NEW n \in Nodes, ReportStarted(n) PROVE Goal
  <2>1. ServicesOK'
    BY <1>7, Starts
  <2>2. NodesOK' /\ CallsOK' /\ AgentsOK'
    BY <1>0, <1>7 DEF ReportStarted, calls, agents, NodesOK, CallsOK, AgentsOK
  <2>3. \A s \in Services : service'[s].status \in Active =>
          service[s].status \in Active /\ service'[s].node = service[s].node
    BY <1>0, <1>7 DEF ReportStarted, Assigned, ServicesOK, Service, Active
  <2> QED
    BY <1>a, <2>1, <2>2, <2>3, SlotsStayFit
<1>8. ASSUME NEW n \in Nodes, ReportStopped(n) PROVE Goal
  <2> DEFINE c == Head(inbox[n])
  <2>1. /\ inbox[n] # <<>> /\ inbox' \in {inbox, [inbox EXCEPT ![n] = Tail(@)]}
        /\ service' = [service EXCEPT ![c.service].status = "ready",
                                      ![c.service].node = None,
                                      ![c.service].revision = c.revision + 1]
    BY <1>8 DEF ReportStopped, Synced
  <2>2. inbox' \in [Nodes -> Seq(Command)] /\ c \in Command
    <3>1. inbox[n] \in Seq(Command)
      BY <1>0 DEF AgentsOK
    <3>2. Head(inbox[n]) \in Command
      BY <2>1, <3>1
    <3> QED
      BY <1>0, <2>1, <3>2, TakesHead DEF AgentsOK
  <2>3. c.service \in Services /\ c.revision + 1 \in Nat
    BY <2>2 DEF Command
  <2> HIDE DEF c
  <2>4. /\ service' \in [Services -> Service]
        /\ \A s \in Services \ {c.service} : service'[s] = service[s]
        /\ service'[c.service].status = "ready"
        /\ service'[c.service].node = None
    <3> DEFINE s == c.service
               r == c.revision + 1
    <3>1. s \in Services /\ r \in Nat /\ service \in [Services -> Service]
      BY <1>0, <2>3 DEF ServicesOK
    <3>2. service' = [service EXCEPT ![s].status = "ready", ![s].node = None,
                                     ![s].revision = r]
      BY <2>1
    <3> HIDE DEF s, r
    <3>3. /\ service' \in [Services -> Service]
          /\ \A t \in Services \ {s} : service'[t] = service[t]
          /\ service'[s].status = "ready" /\ service'[s].node = None
      BY <3>1, <3>2 DEF Service
    <3> QED
      BY <3>3 DEF s
  <2>5. NodesOK' /\ CallsOK' /\ ServicesOK' /\ AgentsOK'
    <3>1. /\ UNCHANGED <<node, paid, starting, scheduling, undispatched,
                 container,
                         played>>
          /\ rescan' = TRUE
      BY <1>8 DEF ReportStopped
    <3>2. ServicesOK'
      BY <1>0, <2>4, <3>1 DEF ServicesOK, Active
    <3> QED
      BY <1>0, <2>2, <3>1, <3>2 DEF NodesOK, CallsOK, AgentsOK
  <2> QED
    BY <1>a, <2>4, <2>5, SlotsStayFit DEF Active
<1>9. ASSUME NEW n \in Nodes, Register(n) PROVE Goal
  BY <1>0, <1>9, <1>b DEF Register, NodesOK, CallsOK
<1>10. ASSUME NEW n \in Nodes, Silence(n) PROVE Goal
  BY <1>0, <1>10, <1>b DEF Silence, calls, NodesOK, CallsOK
<1>11. ASSUME NEW n \in Nodes, DrainNode(n) PROVE Goal
  <2>1. UNCHANGED agents /\ NodesOK' /\ CallsOK'
    BY <1>0, <1>11 DEF DrainNode, Drained, calls, NodesOK, CallsOK
  <2>2. StopAll(OnNode(n)) /\ OnNode(n) \in SUBSET Services
    BY <1>11 DEF DrainNode, OnNode
  <2> QED
    BY <1>d, <2>1, <2>2
<1>12. ASSUME NEW n \in Nodes, RemoveNode(n) PROVE Goal
  BY <1>0, <1>12, <1>b DEF RemoveNode, calls, NodesOK, CallsOK
<1>13. ASSUME NEW n \in Nodes, NEW reported \in {"ready", "draining"},
              Heartbeat(n, reported)
       PROVE  Goal
  BY <1>0, <1>13, <1>b DEF Heartbeat, Drained, calls, NodesOK, CallsOK
<1>14. ASSUME UNCHANGED <<node, service, paid, calls>>,
              undispatched' \subseteq undispatched, AgentsOK'
       PROVE  Goal
  BY <1>0, <1>14, <1>a
     DEF calls, NodesOK, CallsOK, ServicesOK, SlotsFit, Usage, OnNode
<1>15. ASSUME NEW n \in Nodes, AgentRestore(n) PROVE Goal
  <2>1. inbox' \in [Nodes -> Seq(Command)] /\ Head(inbox[n]) \in Command
    BY <1>0, <1>15, TakesHead DEF AgentRestore
  <2> DEFINE new == [service |-> Head(inbox[n]).service,
                     assignment |-> Head(inbox[n]).assignment,
                     revision |-> Head(inbox[n]).revision]
  <2>2. new \in Played
    BY <2>1 DEF Command, Played
  <2>3. /\ container' = [container EXCEPT ![n] = @ \cup {new}]
        /\ played' = played \cup {new}
    BY <1>15 DEF AgentRestore
  <2> HIDE DEF new
  <2>4. AgentsOK'
    BY <1>0, <2>1, <2>2, <2>3 DEF AgentsOK
  <2> QED
    BY <1>14, <1>15, <2>4 DEF AgentRestore
<1>16. ASSUME NEW n \in Nodes, AgentStop(n) PROVE Goal
  BY <1>0, <1>14, <1>16 DEF AgentStop, AgentsOK
<1>17. ASSUME NEW n \in Nodes, AgentGivesUp(n) PROVE Goal
  BY <1>0, <1>14, <1>17, TakesHead DEF AgentGivesUp, Synced, AgentsOK
<1>18. CASE Rescan
  BY <1>0, <1>18, <1>b DEF Rescan, Queued, NodesOK, CallsOK
<1>19. CASE SweepStaleNodes
  BY <1>0, <1>19, <1>b DEF SweepStaleNodes, calls, NodesOK, CallsOK
<1>20. ASSUME NEW c \in undispatched, Dispatch(c) PROVE Goal
  <2>1. c \in Command /\ inbox' = [inbox EXCEPT ![c.node] = Append(@, c)]
    BY <1>0, <1>20 DEF Dispatch, ServicesOK
  <2>2. c.node \in Nodes
    BY <2>1 DEF Command
  <2> DEFINE q == inbox[c.node]
  <2>4. q \in Seq(Command)
    BY <1>0, <2>2 DEF AgentsOK
  <2>5. Append(q, c) \in Seq(Command)
    BY <2>1, <2>4
  <2>3. AgentsOK'
    BY <1>0, <1>20, <2>1, <2>2, <2>5 DEF Dispatch, AgentsOK
  <2> QED
    BY <1>14, <1>20, <2>3 DEF Dispatch
<1>21. ASSUME NEW c \in undispatched, Lose(c) PROVE Goal
  BY <1>0, <1>14, <1>21 DEF Lose, agents, AgentsOK
<1>22. CASE UNCHANGED vars
  BY <1>0, <1>22, <1>b DEF vars, agents, calls, NodesOK, CallsOK
<1> QED
  BY <1>1, <1>2, <1>3, <1>4, <1>5, <1>6, <1>7, <1>8, <1>9, <1>10, <1>11, <1>12,
     <1>13, <1>15, <1>16, <1>17, <1>18, <1>19, <1>20, <1>21, <1>22 DEF Next

LEMMA NextAgrees ==
    ASSUME Inv, TypeOK', ~Overtaking, [Next]_vars
    PROVE  Agreement'
<1>0. TypeOK /\ Agreement
  BY DEF Inv
<1>a. ASSUME Transaction PROVE Agreement'
  BY <1>0, <1>a, TransactionAgrees
<1>b. ASSUME UNCHANGED <<service, undispatched, agents>> PROVE Agreement'
  BY <1>a, <1>b DEF Transaction, Keeps
<1>1. ASSUME NEW s \in Services, StartCheck(s)
                 \/ PaymentFails(s) PROVE Agreement'
  BY <1>1, <1>b DEF StartCheck, PaymentFails
<1>2. ASSUME NEW s \in Services, Start(s) PROVE Agreement'
  BY <1>0, <1>2, <1>a, <1>b, Assigns DEF Start
<1>3. ASSUME NEW s \in Services, Stop(s)
                 \/ EnforcePaymentDue(s) PROVE Agreement'
  BY <1>0, <1>3, <1>a, Stops DEF Stop, EnforcePaymentDue
<1>4. ASSUME NEW s \in Services, SelectInitialWorld(s) PROVE Agreement'
  <2>1. \A t \in Services : Keeps(t)
    BY <1>0, <1>4 DEF SelectInitialWorld, TypeOK, Service, Keeps
  <2> QED
    BY <1>4, <1>a, <2>1 DEF SelectInitialWorld, Transaction
<1>5. ASSUME NEW s \in Services, ScheduleQueued(s) PROVE Agreement'
  BY <1>0, <1>5, <1>a, <1>b, Assigns DEF ScheduleQueued, Startable
<1>6. ASSUME NEW n \in Nodes, ReportStarted(n) PROVE Agreement'
  BY <1>0, <1>6, <1>a, Starts
<1>7. ASSUME NEW n \in Nodes, ReportStopped(n) PROVE Agreement'
  BY <1>0, <1>7, ReportStoppedAgrees
<1>8. ASSUME NEW n \in Nodes,
             \/ Register(n) \/ Silence(n) \/ RemoveNode(n)
             \/ \E reported \in {"ready", "draining"} : Heartbeat(n, reported)
      PROVE  Agreement'
  BY <1>8, <1>b DEF Register, Silence, RemoveNode, Heartbeat
<1>9. ASSUME NEW n \in Nodes, DrainNode(n) PROVE Agreement'
  <2>1. StopAll(OnNode(n)) /\ UNCHANGED agents /\ OnNode(n) \in SUBSET Services
    BY <1>9 DEF DrainNode, OnNode
  <2> QED
    BY <1>0, <1>a, <2>1, Stops
<1>10. ASSUME NEW n \in Nodes, AgentRestore(n) \/ AgentStop(n)
                  \/ AgentGivesUp(n)
       PROVE  Agreement'
  BY <1>0, <1>10, RestoreAgrees, AgentStopAgrees, GivesUpAgrees
<1>11. CASE Rescan \/ SweepStaleNodes
  BY <1>11, <1>b DEF Rescan, SweepStaleNodes
<1>12. ASSUME NEW c \in undispatched, Dispatch(c) \/ Lose(c) PROVE Agreement'
  BY <1>0, <1>12, DispatchAgrees, LoseAgrees
<1>13. CASE UNCHANGED vars
  BY <1>13, <1>b DEF vars, agents
<1> QED
  BY <1>1, <1>2, <1>3, <1>4, <1>5, <1>6, <1>7, <1>8, <1>9, <1>10, <1>11, <1>12,
     <1>13 DEF Next

(* Whatever overlaps, overtakes and is lost, the scheduler never gives a   *)
(* node more than it has.                                                  *)
THEOREM SlotsHold == Spec => [](TypeOK /\ SlotsFit)
<1>1. Init => TypeOK /\ SlotsFit
  BY InitInv DEF Inv
<1>2. (TypeOK /\ SlotsFit) /\ [Next]_vars => (TypeOK /\ SlotsFit)'
  BY NextTyped
<1> QED
  BY <1>1, <1>2, PTL DEF Spec

(* When the calls for one service do not overtake each other, the          *)
(* scheduler's account of a node and what runs on it fit the node, what    *)
(* runs is assigned there, and no revision of a world is played on twice.  *)
THEOREM PlacementHolds ==
    ASSUME ~Overtaking
    PROVE  Spec => []PlacementInv
<1>1. Inv /\ [Next]_vars => Inv'
  BY NextTyped, NextAgrees DEF Inv
<1>2. Inv => PlacementInv
  <2> SUFFICES ASSUME Inv PROVE PlacementInv
    OBVIOUS
  <2>1. TypeOK /\ SlotsFit /\ NoWorldForked /\ ContainersFit
    BY ContainersAreAccounted DEF Inv, Agreement
  <2>2. ContainerIsAssigned
    BY SchedulerAssumption
       DEF Inv, Agreement, ContainerPlaced, ContainerIsAssigned, Placed, TypeOK,
           Played
  <2> QED
    BY <2>1, <2>2 DEF PlacementInv
<1> QED
  BY InitInv, <1>1, <1>2, PTL DEF Spec
-----------------------------------------------------------------------------
(* The hours of a service (SharedRuntime): for any number of calls in      *)
(* flight, however late they are, any price and any length of an hour,     *)
(* with calls that die between the ledger and the scheduler.               *)
(*                                                                         *)
(* What a call knows of the ledger may be old, but the ledger only grows:  *)
(* entries stay, replies stay, and the time goes on.  So the facts a call  *)
(* rests on are stated of a ledger (entries and replies) and a time, and   *)
(* remain true of every later one (Later).  How often an hour is charged   *)
(* is counted against the watermark: an hour that can be charged has been  *)
(* charged no more than overtaken times.                                   *)

(* The hours 1 .. n of assignment x have entries.                          *)
Covers(entries, x, n) == \A g \in 1 .. n : entries[<<x, g>>] > 0

(* The replies of assignment x are of a start at s.                        *)
From(answers, x, s) ==
    answers[<<x, 1>>] # None /\ answers[<<x, 1>>].startedAt = s

Later(entries, answers, t, entries2, answers2, t2) ==
    /\ \A x \in Runtime!Assignments, h \in Runtime!Hours :
          /\ entries[<<x, h>>] > 0 => entries2[<<x, h>>] > 0
          /\ answers[<<x, h>>] # None =>
                answers2[<<x, h>>] = answers[<<x, h>>]
    /\ t \in Nat /\ t2 \in Nat /\ t <= t2

Elapsed(req) == Runtime!ElapsedHours(req.startedAt, req.settledAt)

(* May the ledger still charge hour h of assignment x?                     *)
Open(x, h) ==
    IF \/ watermark = None
       \/ watermark.assignment < x
       \/ watermark.assignment = x /\ watermark.settledHours < h
    THEN 1 ELSE 0

Typed == Runtime!TypeOK /\ clock <= MaxClock

(* An hour that can be charged has been charged fewer times.               *)
CountFits ==
    \A x \in Runtime!Assignments, h \in Runtime!Hours :
        charged[<<x, h>>] + Open(x, h) <= 1 + overtaken

(* A reply is of an assignment whose first hour has a reply, and says no   *)
(* more hours than there are entries.                                      *)
ReplyFits(x, h, entries, answers, t) ==
    answers[<<x, h>>] # None =>
        /\ From(answers, x, answers[<<x, h>>].startedAt)
        /\ answers[<<x, h>>].startedAt <= t
        /\ Covers(entries, x, answers[<<x, h>>].hours)
        /\ answers[<<x, h>>].status = "settled" => answers[<<x, h>>].hours >= 1

(* An entry is of an hour that has begun, and so have those before it.     *)
EntryFits(x, h, entries, answers, t) ==
    entries[<<x, h>>] > 0 =>
        /\ answers[<<x, 1>>] # None
        /\ h <= Runtime!ElapsedHours(answers[<<x, 1>>].startedAt, t)
        /\ Covers(entries, x, h)

MarkFits(mark, entries, answers) ==
    mark # None =>
        /\ From(answers, mark.assignment, mark.startedAt)
        /\ Covers(entries, mark.assignment, mark.settledHours)

(* The runtime of the service is one that the ledger has.                  *)
ServiceFits(value, entries, answers) ==
    /\ value.status # "ready" => value.assignment \in Runtime!Assignments
    /\ value.status = "running" => value.runtime # None
    /\ value.status \in {"ready", "starting"} => value.runtime = None
    /\ value.runtime # None =>
          /\ From(answers, value.assignment, value.runtime.startedAt)
          /\ value.runtime.settledHours >= 1
          /\ Covers(entries, value.assignment, value.runtime.settledHours)

(* A call that is to be settled reports a start at its moment, or is of a  *)
(* runtime that the ledger has; what it was answered, the ledger has too.  *)
CallFits(req, entries, answers, t) ==
    req.pc # "idle" =>
        /\ req.assignment \in Runtime!Assignments
        /\ req.pc = "settle" =>
              /\ req.startedAt <= req.settledAt /\ req.settledAt <= t
              /\ Covers(entries, req.assignment, req.settledHours)
              /\ req.kind = "started" => req.startedAt = req.settledAt
              /\ req.kind # "started" =>
                    From(answers, req.assignment, req.startedAt)
        /\ req.pc = "update" /\ req.kind # "stopped" => req.reply # None
        /\ req.pc = "update" /\ req.reply # None =>
              /\ Covers(entries, req.assignment, req.reply.hours)
              /\ req.reply.status = "settled" => req.reply.hours >= 1
              /\ req.kind = "started" =>
                    From(answers, req.assignment, req.settledAt)

LedgerFits ==
    /\ \A x \in Runtime!Assignments, h \in Runtime!Hours :
          /\ ReplyFits(x, h, charged, replies, clock)
          /\ EntryFits(x, h, charged, replies, clock)
    /\ MarkFits(watermark, charged, replies)

CallsFit ==
    \A w \in Workers : CallFits(worker[w], charged, replies, clock)

IInv ==
    /\ Typed /\ CountFits /\ LedgerFits
    /\ ServiceFits(hosted, charged, replies) /\ CallsFit
-----------------------------------------------------------------------------
LEMMA Division ==
    ASSUME NEW a \in Int, NEW b \in Nat \ {0}
    PROVE  /\ a \div b \in Int
           /\ (a \div b) * b <= a /\ a < (a \div b) * b + b
  BY SMT

LEMMA TimesMono ==
    ASSUME NEW x \in Int, NEW y \in Int, NEW b \in Nat, x <= y
    PROVE  x * b <= y * b
  BY SMT

LEMMA TimesOne ==
    ASSUME NEW x \in Int, NEW b \in Nat
    PROVE  (x - 1) * b = x * b - b /\ x * b \in Int
  BY SMT

(* Whoever has more time has more hours.                                   *)
LEMMA DivisionMono ==
    ASSUME NEW a \in Int, NEW c \in Int, NEW b \in Nat \ {0}, a <= c
    PROVE  a \div b <= c \div b
  <1>. DEFINE q == a \div b
              r == c \div b
  <1>1. /\ q \in Int /\ r \in Int /\ q * b <= a /\ c < r * b + b
    BY Division
  <1>. HIDE DEF q, r
  <1>2. SUFFICES ASSUME r < q PROVE FALSE
    BY <1>1 DEF q, r
  <1>3. r * b <= (q - 1) * b
    BY <1>1, <1>2, TimesMono
  <1>4. (q - 1) * b = q * b - b /\ q * b \in Int /\ r * b \in Int
    BY <1>1, TimesOne
  <1>. QED BY <1>1, <1>3, <1>4

LEMMA ElapsedMono ==
    ASSUME Runtime!RuntimeAssumption, NEW s \in Nat, NEW t \in Nat,
               NEW u \in Nat, t <= u
    PROVE  /\ Runtime!ElapsedHours(s, t) \in Nat
           /\ Runtime!ElapsedHours(s, t) >= 1
           /\ Runtime!ElapsedHours(s, t) <= Runtime!ElapsedHours(s, u)
  <1>. DEFINE a == t - s + Hour - 1
              c == u - s + Hour - 1
  <1>1. a \in Int /\ c \in Int /\ a <= c /\ Hour \in Nat \ {0}
    BY DEF Runtime!RuntimeAssumption
  <1>2. a \div Hour \in Int /\ c \div Hour \in Int /\ a \div Hour <= c \div Hour
    BY <1>1, Division, DivisionMono
  <1>. QED BY <1>2 DEF Runtime!ElapsedHours

(* What is said at the moment of the start is the first hour.              *)
LEMMA ElapsedNow ==
    ASSUME Runtime!RuntimeAssumption,
               NEW s \in Nat PROVE Runtime!ElapsedHours(s, s) = 1
  <1>. DEFINE a == s - s + Hour - 1
              q == a \div Hour
  <1>1. a = Hour - 1 /\ a \in Int /\ Hour \in Nat \ {0}
    BY DEF Runtime!RuntimeAssumption
  <1>2. q \in Int /\ q * Hour <= a
    BY <1>1, Division
  <1>. HIDE DEF q
  <1>3. ~(q >= 1)
    <2>. SUFFICES ASSUME q >= 1 PROVE FALSE
      OBVIOUS
    <2>1. 1 * Hour <= q * Hour
      BY <1>1, <1>2, TimesMono
    <2>. QED BY <1>1, <1>2, <2>1, TimesOne
  <1>. QED BY <1>2, <1>3 DEF Runtime!ElapsedHours, q

(* Hours have a place in the ledger.                                       *)
LEMMA ElapsedType ==
    ASSUME Runtime!RuntimeAssumption, NEW s \in Nat, NEW t \in Nat,
               t <= MaxClock
    PROVE  Runtime!ElapsedHours(s, t) \in Runtime!Hours
  <1>. DEFINE a == t - s + Hour - 1
              q == a \div Hour
              m == MaxClock \div Hour
  <1>1. a \in Int /\ Hour \in Nat \ {0} /\ MaxClock \in Nat
            /\ a <= MaxClock + Hour - 1
    BY DEF Runtime!RuntimeAssumption
  <1>2. q \in Int /\ q * Hour <= a /\ m \in Int /\ MaxClock < m * Hour + Hour
    BY <1>1, Division
  <1>3. m >= 0
    <2>1. 0 \div Hour <= m
      BY <1>1, DivisionMono
    <2>2. 0 \div Hour \in Int /\ 0 < (0 \div Hour) * Hour + Hour
      BY <1>1, Division
    <2>. DEFINE z == 0 \div Hour
    <2>. HIDE DEF z
    <2>3. ~(z <= -1)
      <3>. SUFFICES ASSUME z <= -1 PROVE FALSE
        OBVIOUS
      <3>1. z * Hour <= (-1) * Hour
        BY <1>1, <2>2, TimesMono DEF z
      <3>2. z * Hour \in Int /\ (-1) * Hour = 0 - Hour
        BY <1>1, <2>2 DEF z
      <3>. QED BY <1>1, <2>2, <3>1, <3>2 DEF z
    <2>. QED BY <1>2, <2>1, <2>2, <2>3 DEF z
  <1>. HIDE DEF q, m
  <1>4. q <= 1 + m
    <2>. SUFFICES ASSUME q >= m + 2 PROVE FALSE
      BY <1>2
    <2>1. (m + 2) * Hour <= q * Hour
      BY <1>1, <1>2, TimesMono
    <2>2. (m + 2) * Hour = m * Hour + Hour + Hour /\ m * Hour \in Int
              /\ q * Hour \in Int
      BY <1>1, <1>2
    <2>. QED BY <1>1, <1>2, <2>1, <2>2
  <1>. QED BY <1>2, <1>3, <1>4
              DEF Runtime!ElapsedHours, Runtime!Hours, Runtime!MaxHours, q, m

(* An hour that counts has begun.                                          *)
LEMMA ElapsedBegun ==
    ASSUME Runtime!RuntimeAssumption, NEW s \in Nat, NEW t \in Nat,
               NEW h \in Nat,
           h > 1, h <= Runtime!ElapsedHours(s, t)
    PROVE  (h - 1) * Hour < t - s
  <1>. DEFINE a == t - s + Hour - 1
              q == a \div Hour
  <1>1. a \in Int /\ Hour \in Nat \ {0}
    BY DEF Runtime!RuntimeAssumption
  <1>2. q \in Int /\ q * Hour <= a
    BY <1>1, Division
  <1>3. h <= q
    BY <1>2 DEF Runtime!ElapsedHours
  <1>. HIDE DEF q
  <1>4. h * Hour <= q * Hour
    BY <1>1, <1>2, <1>3, TimesMono
  <1>5. (h - 1) * Hour = h * Hour - Hour /\ h * Hour \in Int /\ q * Hour \in Int
    BY <1>1, <1>2, TimesOne
  <1>. QED BY <1>1, <1>2, <1>4, <1>5
-----------------------------------------------------------------------------
LEMMA HoursAre ==
    ASSUME Runtime!RuntimeAssumption
    PROVE  /\ Runtime!MaxHours \in Nat /\ Runtime!Hours = 1 .. Runtime!MaxHours
           /\ 1 \in Runtime!Hours
           /\ Runtime!Hours \subseteq Nat /\ Runtime!Assignments \subseteq Nat
           /\ 1 \in Runtime!Assignments
  <1>1. 0 \in Nat /\ 0 <= MaxClock
    BY DEF Runtime!RuntimeAssumption
  <1>2. Runtime!ElapsedHours(0, 0) \in Runtime!Hours
            /\ Runtime!ElapsedHours(0, 0) = 1
    BY <1>1, ElapsedType, ElapsedNow
  <1>3. Runtime!MaxHours \in Int
    BY Division DEF Runtime!MaxHours, Runtime!RuntimeAssumption
  <1>. QED BY <1>2, <1>3
              DEF Runtime!Hours, Runtime!Assignments, Runtime!RuntimeAssumption

LEMMA IdleFits == ASSUME Runtime!RuntimeAssumption
                  PROVE  Runtime!Idle \in Runtime!Call
  <1>1. 0 \in 0 .. MaxAssignments /\ 0 \in 0 .. Runtime!MaxHours
    BY HoursAre DEF Runtime!RuntimeAssumption
  <1>. QED BY <1>1 DEF Runtime!Idle, Runtime!Call

(* Before the first start there is nothing to charge.                      *)
LEMMA InitIInv ==
    ASSUME Runtime!RuntimeAssumption, Runtime!Init PROVE IInv
  <1>1. Runtime!Idle \in Runtime!Call
    BY IdleFits
  <1>2. Typed
    BY <1>1, HoursAre DEF Runtime!Init, Typed, Runtime!TypeOK,
       Runtime!RuntimeAssumption
  <1>3. \A x \in Runtime!Assignments, h \in Runtime!Hours :
            /\ replies[<<x, h>>] = None /\ charged[<<x, h>>] = 0
            /\ Open(x, h) = 1
    BY DEF Runtime!Init, Open
  <1>4. CountFits
    <2>1. overtaken = 0
      BY DEF Runtime!Init
    <2>2. ASSUME NEW x \in Runtime!Assignments, NEW h \in Runtime!Hours
          PROVE  charged[<<x, h>>] + Open(x, h) <= 1 + overtaken
      <3>1. charged[<<x, h>>] = 0 /\ Open(x, h) = 1
        BY <1>3
      <3>. QED BY <2>1, <3>1
    <2>. QED BY <2>2 DEF CountFits
  <1>5. LedgerFits
    BY <1>3 DEF LedgerFits, ReplyFits, EntryFits, MarkFits, Runtime!Init
  <1>6. ServiceFits(hosted, charged, replies) /\ CallsFit
    BY DEF ServiceFits, CallsFit, CallFits, Runtime!Init, Runtime!Idle
  <1>. QED BY <1>2, <1>4, <1>5, <1>6 DEF IInv

-----------------------------------------------------------------------------
(* What a ledger has, a later one has.                                     *)
LEMMA CoversLater ==
    ASSUME Runtime!RuntimeAssumption, NEW entries, NEW answers, NEW t,
           NEW entries2, NEW answers2, NEW t2,
           Later(entries, answers, t, entries2, answers2, t2),
           NEW x \in Runtime!Assignments, NEW n \in 0 .. Runtime!MaxHours,
           Covers(entries, x, n)
    PROVE  Covers(entries2, x, n)
  BY HoursAre DEF Later, Covers

LEMMA FromLater ==
    ASSUME Runtime!RuntimeAssumption, NEW entries, NEW answers, NEW t,
           NEW entries2, NEW answers2, NEW t2,
           Later(entries, answers, t, entries2, answers2, t2),
           NEW x \in Runtime!Assignments, NEW s, From(answers, x, s)
    PROVE  From(answers2, x, s)
  BY HoursAre DEF Later, From

LEMMA ReplyLater ==
    ASSUME Runtime!RuntimeAssumption, NEW entries, NEW answers, NEW t,
           NEW entries2, NEW answers2, NEW t2,
           Later(entries, answers, t, entries2, answers2, t2),
           NEW x \in Runtime!Assignments, NEW h \in Runtime!Hours,
           answers[<<x, h>>] \in Runtime!Reply, answers[<<x, h>>] # None,
           ReplyFits(x, h, entries, answers, t)
    PROVE  ReplyFits(x, h, entries2, answers2, t2)
  <1>. DEFINE r == answers[<<x, h>>]
  <1>1. /\ From(answers, x, r.startedAt) /\ r.startedAt <= t
        /\ Covers(entries, x, r.hours) /\ r.hours \in 0 .. Runtime!MaxHours
        /\ r.status = "settled" => r.hours >= 1
        /\ r.startedAt \in Nat /\ answers2[<<x, h>>] = r
    BY DEF ReplyFits, Runtime!Reply, Later
  <1>2. From(answers2, x, r.startedAt) /\ Covers(entries2, x, r.hours)
    BY <1>1, FromLater, CoversLater
  <1>3. r.startedAt <= t2
    BY <1>1 DEF Later
  <1>. QED BY <1>1, <1>2, <1>3 DEF ReplyFits

LEMMA EntryLater ==
    ASSUME Runtime!RuntimeAssumption, NEW entries, NEW answers, NEW t,
           NEW entries2, NEW answers2, NEW t2,
           Later(entries, answers, t, entries2, answers2, t2),
           NEW x \in Runtime!Assignments, NEW h \in Runtime!Hours,
           entries[<<x, h>>] > 0,
               answers[<<x, 1>>] \in Runtime!Reply \cup {None},
           EntryFits(x, h, entries, answers, t)
    PROVE  EntryFits(x, h, entries2, answers2, t2)
  <1>. DEFINE s == answers[<<x, 1>>].startedAt
  <1>1. /\ answers[<<x, 1>>] # None /\ answers2[<<x, 1>>] = answers[<<x, 1>>]
        /\ s \in Nat /\ h \in Nat /\ h \in 0 .. Runtime!MaxHours
        /\ h <= Runtime!ElapsedHours(s, t) /\ Covers(entries, x, h)
    BY HoursAre DEF EntryFits, Later, Runtime!Reply
  <1>2. Covers(entries2, x, h)
    BY <1>1, CoversLater
  <1>3. h <= Runtime!ElapsedHours(s, t2)
    <2>. HIDE DEF s
    <2>1. t \in Nat /\ t2 \in Nat /\ t <= t2 /\ t2 <= t2
      BY DEF Later
    <2>2. /\ Runtime!ElapsedHours(s, t) <= Runtime!ElapsedHours(s, t2)
          /\ Runtime!ElapsedHours(s, t) \in Nat
          /\ Runtime!ElapsedHours(s, t2) \in Nat
      BY <1>1, <2>1, ElapsedMono
    <2>. QED BY <1>1, <2>2
  <1>. QED BY <1>1, <1>2, <1>3 DEF EntryFits

LEMMA ServiceLater ==
    ASSUME Runtime!RuntimeAssumption, NEW entries, NEW answers, NEW t,
           NEW entries2, NEW answers2, NEW t2,
           Later(entries, answers, t, entries2, answers2, t2),
           NEW value, value.runtime \in Runtime!Running \cup {None},
           ServiceFits(value, entries, answers)
    PROVE  ServiceFits(value, entries2, answers2)
  <1>1. ASSUME value.runtime # None
        PROVE  /\ From(answers2, value.assignment, value.runtime.startedAt)
               /\ Covers(entries2, value.assignment, value.runtime.settledHours)
    <2>1. /\ value.runtime.settledHours \in 0 .. Runtime!MaxHours
          /\ value.assignment \in Runtime!Assignments
      BY <1>1 DEF ServiceFits, Runtime!Running
    <2>. QED BY <1>1, <2>1, CoversLater, FromLater DEF ServiceFits
  <1>. QED BY <1>1 DEF ServiceFits

LEMMA CallLater ==
    ASSUME Runtime!RuntimeAssumption, NEW entries, NEW answers, NEW t,
           NEW entries2, NEW answers2, NEW t2,
           Later(entries, answers, t, entries2, answers2, t2),
           NEW req \in Runtime!Call, CallFits(req, entries, answers, t)
    PROVE  CallFits(req, entries2, answers2, t2)
  <1>. SUFFICES ASSUME req.pc # "idle" PROVE CallFits(req, entries2, answers2,
                           t2)
    BY DEF CallFits
  <1>1. /\ req.assignment \in Runtime!Assignments
        /\ req.settledHours \in 0 .. Runtime!MaxHours /\ req.settledAt \in Nat
        /\ req.reply # None => req.reply.hours \in 0 .. Runtime!MaxHours
    BY DEF CallFits, Runtime!Call, Runtime!Reply
  <1>2. ASSUME NEW n \in 0 .. Runtime!MaxHours,
                   Covers(entries, req.assignment, n)
        PROVE  Covers(entries2, req.assignment, n)
    BY <1>1, <1>2, CoversLater
  <1>3. ASSUME NEW s, From(answers, req.assignment, s)
        PROVE  From(answers2, req.assignment, s)
    BY <1>1, <1>3, FromLater
  <1>4. req.settledAt <= t => req.settledAt <= t2
    BY <1>1 DEF Later
  <1>. QED BY <1>1, <1>2, <1>3, <1>4 DEF CallFits

(* A step that leaves the ledger alone.                                    *)
LEMMA SameCount ==
    ASSUME IInv, UNCHANGED <<charged, watermark, overtaken>> PROVE CountFits'
  <1>1. \A x, h : Open(x, h)' = Open(x, h)
    BY DEF Open
  <1>. QED BY <1>1 DEF IInv, CountFits

LEMMA SameLedger ==
    ASSUME Runtime!RuntimeAssumption, IInv, UNCHANGED Runtime!billing,
           UNCHANGED overtaken, clock' \in Nat, clock <= clock'
    PROVE  /\ Later(charged, replies, clock, charged', replies', clock')
           /\ CountFits' /\ LedgerFits'
  <1>1. Later(charged, replies, clock, charged', replies', clock')
    BY DEF Later, Runtime!billing, IInv, Typed, Runtime!TypeOK
  <1>2. CountFits'
    BY SameCount DEF Runtime!billing
  <1>3. ASSUME NEW x \in Runtime!Assignments, NEW h \in Runtime!Hours
        PROVE  /\ ReplyFits(x, h, charged', replies', clock')
               /\ EntryFits(x, h, charged', replies', clock')
    <2>1. /\ replies[<<x, h>>] \in Runtime!Reply \cup {None}
          /\ replies[<<x, 1>>] \in Runtime!Reply \cup {None}
          /\ ReplyFits(x, h, charged, replies, clock)
          /\ EntryFits(x, h, charged, replies, clock)
          /\ charged' = charged /\ replies' = replies
      BY HoursAre DEF IInv, Typed, Runtime!TypeOK, LedgerFits, Runtime!billing
    <2>2. ReplyFits(x, h, charged', replies', clock')
      <3>1. CASE replies[<<x, h>>] = None
        BY <2>1, <3>1 DEF ReplyFits
      <3>2. CASE replies[<<x, h>>] # None
        BY <1>1, <2>1, <3>2, ReplyLater
      <3>. QED BY <3>1, <3>2
    <2>3. EntryFits(x, h, charged', replies', clock')
      <3>1. CASE ~(charged[<<x, h>>] > 0)
        BY <2>1, <3>1 DEF EntryFits
      <3>2. CASE charged[<<x, h>>] > 0
        BY <1>1, <2>1, <3>2, EntryLater
      <3>. QED BY <3>1, <3>2
    <2>. QED BY <2>2, <2>3
  <1>4. MarkFits(watermark', charged', replies')
    BY DEF Runtime!billing, IInv, LedgerFits
  <1>5. LedgerFits'
    BY <1>3, <1>4 DEF LedgerFits
  <1>. QED BY <1>1, <1>2, <1>5

(* The calls that a step leaves alone.                                     *)
LEMMA OthersStay ==
    ASSUME Runtime!RuntimeAssumption, IInv,
           Later(charged, replies, clock, charged', replies', clock'),
           \A d \in Workers : \/ worker'[d] = worker[d]
                              \/ CallFits(worker'[d], charged', replies',
                                     clock')
    PROVE  CallsFit'
  <1>1. ASSUME NEW d \in Workers, worker'[d] = worker[d]
        PROVE  CallFits(worker'[d], charged', replies', clock')
    <2>1. worker[d] \in Runtime!Call
              /\ CallFits(worker[d], charged, replies, clock)
      BY DEF IInv, Typed, Runtime!TypeOK, CallsFit
    <2>2. CallFits(worker[d], charged', replies', clock')
      BY <2>1, CallLater
    <2>. QED BY <1>1, <2>2
  <1>. QED BY <1>1 DEF CallsFit

(* What a call does by itself keeps the others as they were.               *)
LEMMA WorkerStep ==
    ASSUME Runtime!RuntimeAssumption, IInv, NEW w \in Workers,
           NEW req \in Runtime!Call, CallFits(req, charged, replies, clock),
           UNCHANGED <<clock, Runtime!billing, hosted, overtaken>>,
           crashes' \in 0 .. MaxCrashes,
           worker' = [worker EXCEPT ![w] = req]
    PROVE  IInv'
  <1>1. Typed'
    BY DEF IInv, Typed, Runtime!TypeOK, Runtime!billing
  <1>2. clock' = clock /\ clock \in Nat /\ hosted' = hosted
        /\ charged' = charged /\ replies' = replies
    BY DEF IInv, Typed, Runtime!TypeOK, Runtime!billing
  <1>3. /\ Later(charged, replies, clock, charged', replies', clock')
        /\ CountFits' /\ LedgerFits'
    BY <1>2, SameLedger
  <1>4. ServiceFits(hosted', charged', replies')
    BY <1>2 DEF IInv
  <1>5. \A d \in Workers : worker'[d] = IF d = w THEN req ELSE worker[d]
    BY DEF IInv, Typed, Runtime!TypeOK
  <1>6. CallsFit'
    BY <1>2, <1>3, <1>5, OthersStay
  <1>. QED BY <1>1, <1>3, <1>4, <1>6 DEF IInv

LEMMA IdleStep ==
    ASSUME Runtime!RuntimeAssumption, IInv, NEW w \in Workers,
           UNCHANGED <<clock, Runtime!billing, hosted, overtaken>>,
           crashes' \in 0 .. MaxCrashes,
           worker' = [worker EXCEPT ![w] = Runtime!Idle]
    PROVE  IInv'
  <1>1. /\ Runtime!Idle \in Runtime!Call
        /\ CallFits(Runtime!Idle, charged, replies, clock)
    BY IdleFits DEF CallFits, Runtime!Idle
  <1>. QED BY <1>1, WorkerStep

(* What changes the service changes nothing in the ledger, and ends a call *)
(* at most.                                                                *)
LEMMA ServiceStep ==
    ASSUME Runtime!RuntimeAssumption, IInv,
           UNCHANGED <<clock, Runtime!billing, crashes, overtaken>>,
           hosted' \in [status : {"ready", "starting", "running", "stopping"},
                        assignment : 0 .. MaxAssignments,
                        runtime : Runtime!Running \cup {None}],
           ServiceFits(hosted', charged, replies),
           \A d \in Workers : worker'[d] \in {worker[d], Runtime!Idle},
           worker' \in [Workers -> Runtime!Call]
    PROVE  IInv'
  <1>1. Typed'
    BY DEF IInv, Typed, Runtime!TypeOK, Runtime!billing
  <1>2. clock' = clock /\ clock \in Nat
        /\ charged' = charged /\ replies' = replies
    BY DEF IInv, Typed, Runtime!TypeOK, Runtime!billing
  <1>3. /\ Later(charged, replies, clock, charged', replies', clock')
        /\ CountFits' /\ LedgerFits'
    BY <1>2, SameLedger
  <1>4. CallFits(Runtime!Idle, charged', replies', clock')
    BY DEF CallFits, Runtime!Idle
  <1>5. CallsFit'
    BY <1>3, <1>4, OthersStay
  <1>. QED BY <1>1, <1>2, <1>3, <1>5 DEF IInv

-----------------------------------------------------------------------------
(* A start takes the next assignment, and a stop takes nothing away.       *)
LEMMA StartStep ==
    ASSUME Runtime!RuntimeAssumption, IInv, Runtime!Start PROVE IInv'
  <1>. DEFINE x == hosted.assignment + 1
  <1>1. /\ hosted.status = "ready" /\ hosted.assignment \in 0 .. MaxAssignments
        /\ hosted.assignment < MaxAssignments
        /\ hosted' = [hosted EXCEPT !.status = "starting", !.assignment = x]
        /\ UNCHANGED <<clock, Runtime!billing, worker, crashes, overtaken>>
    BY DEF Runtime!Start, IInv, Typed, Runtime!TypeOK
  <1>2. x \in Runtime!Assignments /\ x \in 0 .. MaxAssignments
    BY <1>1 DEF Runtime!Assignments, Runtime!RuntimeAssumption
  <1>. HIDE DEF x
  <1>3. /\ hosted' \in [status : {"ready", "starting", "running", "stopping"},
                        assignment : 0 .. MaxAssignments,
                        runtime : Runtime!Running \cup {None}]
        /\ hosted'.status = "starting" /\ hosted'.assignment = x
        /\ hosted'.runtime = None
    BY <1>1, <1>2 DEF IInv, Typed, Runtime!TypeOK, ServiceFits
  <1>4. ServiceFits(hosted', charged, replies)
    BY <1>2, <1>3 DEF ServiceFits
  <1>5. worker' \in [Workers -> Runtime!Call]
    BY <1>1 DEF IInv, Typed, Runtime!TypeOK
  <1>. QED BY <1>1, <1>3, <1>4, <1>5, ServiceStep

LEMMA StopStep ==
    ASSUME Runtime!RuntimeAssumption, IInv,
           hosted.status \in {"starting", "running"},
           hosted' = [hosted EXCEPT !.status = "stopping"],
           UNCHANGED <<clock, Runtime!billing, crashes, overtaken>>,
           \A d \in Workers : worker'[d] \in {worker[d], Runtime!Idle},
           worker' \in [Workers -> Runtime!Call]
    PROVE  IInv'
  <1>1. /\ hosted' \in [status : {"ready", "starting", "running", "stopping"},
                        assignment : 0 .. MaxAssignments,
                        runtime : Runtime!Running \cup {None}]
        /\ hosted'.status = "stopping" /\ hosted'.assignment = hosted.assignment
        /\ hosted'.runtime = hosted.runtime
    BY DEF IInv, Typed, Runtime!TypeOK
  <1>2. ServiceFits(hosted', charged, replies)
    BY <1>1 DEF ServiceFits, IInv
  <1>. QED BY <1>1, <1>2, ServiceStep

-----------------------------------------------------------------------------
(* A call takes what the scheduler has of the runtime.                     *)
LEMMA BeginStep ==
    ASSUME Runtime!RuntimeAssumption, IInv, NEW w \in Workers,
           \/ Runtime!ReportStarted(w) \/ Runtime!ReportStopped(w)
           \/ Runtime!Sweep(w)
    PROVE  IInv'
  <1>1. /\ clock \in Nat /\ crashes \in 0 .. MaxCrashes
        /\ hosted.assignment \in 0 .. MaxAssignments
        /\ hosted.status # "ready" => hosted.assignment \in Runtime!Assignments
        /\ hosted.runtime # None => hosted.status # "ready"
        /\ hosted.runtime \in Runtime!Running \cup {None}
    BY DEF IInv, Typed, Runtime!TypeOK, ServiceFits
  <1>2. CASE Runtime!ReportStarted(w)
    <2>. DEFINE req == [pc |-> "settle", kind |-> "started",
                        assignment |-> hosted.assignment, startedAt |-> clock,
                        settledHours |-> 0, settledAt |-> clock, reply |-> None]
    <2>1. req \in Runtime!Call
      BY <1>1, HoursAre DEF Runtime!Call
    <2>2. CallFits(req, charged, replies, clock)
      BY <1>1, <1>2 DEF CallFits, Covers, Runtime!ReportStarted
    <2>3. worker' = [worker EXCEPT ![w] = req]
      BY <1>2 DEF Runtime!ReportStarted, Runtime!Begin
    <2>. HIDE DEF req
    <2>. QED BY <1>1, <1>2, <2>1, <2>2, <2>3, WorkerStep
                DEF Runtime!ReportStarted
  <1>3. ASSUME NEW kind \in {"sweep", "stopped"}, hosted.runtime # None,
               NEW t \in Nat, hosted.runtime.startedAt <= t, t <= clock,
               Runtime!Begin(w, kind, hosted.runtime.startedAt,
                             hosted.runtime.settledHours, t),
               UNCHANGED <<clock, Runtime!billing, hosted, crashes, overtaken>>
        PROVE  IInv'
    <2>. DEFINE req == [pc |-> "settle", kind |-> kind,
                        assignment |-> hosted.assignment,
                        startedAt |-> hosted.runtime.startedAt,
                        settledHours |-> hosted.runtime.settledHours,
                        settledAt |-> t, reply |-> None]
    <2>1. hosted.runtime \in Runtime!Running
      BY <1>1, <1>3
    <2>2. req \in Runtime!Call
      BY <1>1, <2>1 DEF Runtime!Call, Runtime!Running
    <2>3. /\ hosted.assignment \in Runtime!Assignments
          /\ From(replies, hosted.assignment, hosted.runtime.startedAt)
          /\ Covers(charged, hosted.assignment, hosted.runtime.settledHours)
      BY <1>1, <1>3 DEF IInv, ServiceFits
    <2>4. CallFits(req, charged, replies, clock)
      BY <1>3, <2>3 DEF CallFits
    <2>5. worker' = [worker EXCEPT ![w] = req]
      BY <1>3 DEF Runtime!Begin
    <2>. HIDE DEF req
    <2>. QED BY <1>1, <1>3, <2>2, <2>4, <2>5, WorkerStep
  <1>4. CASE Runtime!ReportStopped(w)
    <2>1. CASE hosted.runtime # None
      <3>1. hosted.runtime.startedAt <= clock /\ clock <= clock
        BY <1>1, <2>1, HoursAre
           DEF IInv, ServiceFits, From, LedgerFits, ReplyFits
      <3>. QED BY <1>1, <1>3, <1>4, <2>1, <3>1 DEF Runtime!ReportStopped
    <2>2. CASE hosted.runtime = None
      <3>. DEFINE req == [pc |-> "update", kind |-> "stopped",
                          assignment |-> hosted.assignment, startedAt |-> 0,
                          settledHours |-> 0, settledAt |-> 0, reply |-> None]
      <3>1. req \in Runtime!Call
        BY <1>1, HoursAre DEF Runtime!Call
      <3>2. CallFits(req, charged, replies, clock)
        BY <1>1, <1>4 DEF CallFits, Runtime!ReportStopped
      <3>3. worker' = [worker EXCEPT ![w] = req]
        BY <1>4, <2>2 DEF Runtime!ReportStopped, Runtime!Idle
      <3>. HIDE DEF req
      <3>. QED BY <1>1, <1>4, <3>1, <3>2, <3>3, WorkerStep
               DEF Runtime!ReportStopped
    <2>. QED BY <2>1, <2>2
  <1>5. CASE Runtime!Sweep(w)
    <2>1. PICK late \in 0 .. Lag :
              /\ clock - late >= hosted.runtime.startedAt
              /\ Runtime!Begin(w, "sweep", hosted.runtime.startedAt,
                               hosted.runtime.settledHours, clock - late)
      BY <1>5 DEF Runtime!Sweep
    <2>2. hosted.runtime # None /\ hosted.runtime.startedAt \in Nat
      BY <1>1, <1>5 DEF Runtime!Sweep, Runtime!Running
    <2>3. clock - late \in Nat /\ clock - late <= clock
      BY <1>1, <2>1, <2>2 DEF Runtime!RuntimeAssumption
    <2>. QED BY <1>3, <1>5, <2>1, <2>2, <2>3 DEF Runtime!Sweep
  <1>. QED BY <1>2, <1>4, <1>5

-----------------------------------------------------------------------------
(* What the settlement goes by: the hours it takes for settled have        *)
(* entries, and a call whose hour is not the first comes of a runtime.     *)
LEMMA ToSettle ==
    ASSUME Runtime!RuntimeAssumption, IInv, NEW w \in Workers,
           worker[w].pc = "settle",
           NEW x, x = worker[w].assignment, NEW e, e = Elapsed(worker[w]),
           NEW s, s = Runtime!SettledHours(worker[w])
    PROVE  /\ x \in Runtime!Assignments /\ e \in Runtime!Hours
           /\ s \in 0 .. Runtime!MaxHours /\ Covers(charged, x, s)
           /\ worker[w].startedAt \in Nat /\ worker[w].startedAt <= clock
           /\ e <= Runtime!ElapsedHours(worker[w].startedAt, clock)
           /\ e = 1 \/ From(replies, x, worker[w].startedAt)
           /\ worker[w].kind = "started" =>
                 e = 1 /\ worker[w].startedAt = worker[w].settledAt
  <1>. DEFINE req == worker[w]
  <1>1. /\ req \in Runtime!Call /\ CallFits(req, charged, replies, clock)
        /\ clock \in Nat /\ clock <= MaxClock
        /\ watermark \in Runtime!Watermark \cup {None}
    BY DEF IInv, Typed, Runtime!TypeOK, CallsFit
  <1>2. /\ x \in Runtime!Assignments /\ req.startedAt \in Nat
        /\ req.settledAt \in Nat /\ req.startedAt <= req.settledAt
        /\ req.settledAt <= clock /\ Covers(charged, x, req.settledHours)
        /\ req.settledHours \in 0 .. Runtime!MaxHours
        /\ req.kind = "started" => req.startedAt = req.settledAt
        /\ req.kind # "started" => From(replies, x, req.startedAt)
    BY <1>1 DEF CallFits, Runtime!Call
  <1>3. /\ req.settledAt <= MaxClock /\ MaxClock \in Nat
        /\ req.startedAt <= clock
    BY <1>1, <1>2 DEF Runtime!RuntimeAssumption
  <1>4. e \in Runtime!Hours
    BY <1>2, <1>3, ElapsedType DEF Elapsed
  <1>5. e <= Runtime!ElapsedHours(req.startedAt, clock)
    BY <1>1, <1>2, ElapsedMono DEF Elapsed
  <1>6. req.kind = "started" => e = 1
    BY <1>2, ElapsedNow DEF Elapsed
  <1>7. s \in 0 .. Runtime!MaxHours /\ Covers(charged, x, s)
    <2>1. CASE Runtime!Marked(req)
      <3>1. /\ watermark # None /\ watermark.assignment = x
            /\ s = watermark.settledHours /\ s \in Runtime!Hours
        BY <1>1, <2>1
           DEF Runtime!Marked, Runtime!SettledHours, Runtime!Watermark
      <3>. QED BY <3>1, HoursAre DEF IInv, LedgerFits, MarkFits
    <2>2. CASE ~Runtime!Marked(req)
      BY <1>2, <2>2 DEF Runtime!SettledHours
    <2>. QED BY <2>1, <2>2
  <1>. QED BY <1>2, <1>3, <1>4, <1>5, <1>6, <1>7

(* A reply that is already there.                                          *)
LEMMA AnswerStep ==
    ASSUME Runtime!RuntimeAssumption, IInv, NEW w \in Workers,
           worker[w].pc = "settle", ~Runtime!Conflict(worker[w]),
           NEW x, x = worker[w].assignment, NEW e, e = Elapsed(worker[w]),
           replies[<<x, e>>] # None,
           worker' = [worker EXCEPT ![w].pc = "update",
                                    ![w].reply = replies[<<x, e>>]],
           UNCHANGED <<clock, Runtime!billing, hosted, crashes, overtaken>>
    PROVE  IInv'
  <1>. DEFINE old == worker[w]
              r == replies[<<x, e>>]
              req == [old EXCEPT !.pc = "update", !.reply = r]
  <1>1. /\ x \in Runtime!Assignments /\ e \in Runtime!Hours
        /\ old.kind = "started" => e = 1 /\ old.startedAt = old.settledAt
    BY ToSettle
  <1>2. /\ old \in Runtime!Call /\ r \in Runtime!Reply
        /\ crashes \in 0 .. MaxCrashes
    BY <1>1 DEF IInv, Typed, Runtime!TypeOK
  <1>3. r.startedAt = old.startedAt
    BY DEF Runtime!Conflict, Elapsed
  <1>4. ReplyFits(x, e, charged, replies, clock)
    BY <1>1 DEF IInv, LedgerFits
  <1>5. /\ req \in Runtime!Call /\ req.pc = "update" /\ req.reply = r
        /\ req.kind = old.kind /\ req.assignment = x
        /\ req.settledAt = old.settledAt
    BY <1>2 DEF Runtime!Call
  <1>6. worker' = [worker EXCEPT ![w] = req]
    BY DEF IInv, Typed, Runtime!TypeOK
  <1>. HIDE DEF req
  <1>7. CallFits(req, charged, replies, clock)
    BY <1>1, <1>3, <1>4, <1>5 DEF CallFits, ReplyFits
  <1>. QED BY <1>2, <1>5, <1>6, <1>7, WorkerStep

(* Entries stay, and the new ones are of hours the reply has settled.      *)
Grown(x, e, r) ==
    \A y \in Runtime!Assignments, h \in Runtime!Hours :
        /\ charged[<<y, h>>] > 0 => charged'[<<y, h>>] > 0
        /\ charged'[<<y, h>>] > 0 => \/ charged[<<y, h>>] > 0
                                     \/ y = x /\ h <= e /\ r.hours = e

(* A settlement that is recorded, refused or not.                          *)
LEMMA RecordStep ==
    ASSUME Runtime!RuntimeAssumption, IInv, NEW w \in Workers,
           worker[w].pc = "settle",
           NEW x, x = worker[w].assignment, NEW e, e = Elapsed(worker[w]),
           replies[<<x, e>>] = None,
           NEW r \in Runtime!Reply, r.startedAt = worker[w].startedAt,
           replies' = [replies EXCEPT ![<<x, e>>] = r],
           worker' = [worker EXCEPT ![w].pc = "update", ![w].reply = r],
           balance' \in Nat, subscription' \in {"active", "payment_due"},
           watermark' \in Runtime!Watermark \cup {None},
           charged' \in [Runtime!Assignments \X Runtime!Hours -> Nat],
           overtaken' \in Nat,
           Grown(x, e, r), Covers(charged', x, r.hours),
           r.status = "settled" => r.hours >= 1,
           watermark' = watermark
              \/ watermark' = [assignment |-> x, startedAt |-> r.startedAt,
                               settledHours |-> r.hours],
           CountFits',
           UNCHANGED <<clock, hosted, crashes>>
    PROVE  IInv'
  <1>. DEFINE old == worker[w]
              req == [old EXCEPT !.pc = "update", !.reply = r]
  <1>1. /\ x \in Runtime!Assignments /\ e \in Runtime!Hours
        /\ old.startedAt \in Nat /\ old.startedAt <= clock
        /\ e <= Runtime!ElapsedHours(old.startedAt, clock)
        /\ e = 1 \/ From(replies, x, old.startedAt)
        /\ old.kind = "started" => e = 1 /\ old.startedAt = old.settledAt
    BY ToSettle
  <1>2. /\ old \in Runtime!Call /\ r # None /\ clock \in Nat
        /\ r.hours \in 0 .. Runtime!MaxHours
    BY DEF IInv, Typed, Runtime!TypeOK, Runtime!RuntimeAssumption, Runtime!Reply
  <1>3. /\ req \in Runtime!Call /\ req.pc = "update" /\ req.reply = r
        /\ req.kind = old.kind /\ req.assignment = x
        /\ req.settledAt = old.settledAt
    BY <1>2 DEF Runtime!Call
  <1>4. \A d \in Workers : worker'[d] = IF d = w THEN req ELSE worker[d]
    BY DEF IInv, Typed, Runtime!TypeOK
  <1>. HIDE DEF req
  <1>5. \A y \in Runtime!Assignments : \A h \in Runtime!Hours :
            replies'[<<y, h>>] = IF y = x /\ h = e THEN r ELSE replies[<<y, h>>]
    <2>. SUFFICES ASSUME NEW y \in Runtime!Assignments, NEW h \in Runtime!Hours
                  PROVE  replies'[<<y, h>>] =
                             IF y = x /\ h = e THEN r ELSE replies[<<y, h>>]
      OBVIOUS
    <2>1. replies \in [Runtime!Assignments \X Runtime!Hours -> Runtime!Reply
              \cup {None}]
      BY DEF IInv, Typed, Runtime!TypeOK
    <2>2. <<y, h>> = <<x, e>> <=> y = x /\ h = e
      OBVIOUS
    <2>. QED BY <1>1, <2>1, <2>2
  <1>6. Later(charged, replies, clock, charged', replies', clock')
    BY <1>2, <1>5 DEF Later, Grown
  <1>7. Typed'
    <2>1. replies'
              \in [Runtime!Assignments \X Runtime!Hours -> Runtime!Reply
                  \cup {None}]
      BY DEF IInv, Typed, Runtime!TypeOK
    <2>2. worker' \in [Workers -> Runtime!Call]
      BY <1>3, <1>4 DEF IInv, Typed, Runtime!TypeOK
    <2>. QED BY <2>1, <2>2 DEF IInv, Typed, Runtime!TypeOK
  <1>8. From(replies', x, old.startedAt)
    <2>1. CASE e = 1
      BY <1>1, <1>2, <1>5, <2>1 DEF From
    <2>2. CASE From(replies, x, old.startedAt)
      BY <1>1, <1>6, <2>2, FromLater
    <2>. QED BY <1>1, <2>1, <2>2
  <1>9. ASSUME NEW y \in Runtime!Assignments, NEW h \in Runtime!Hours
        PROVE  ReplyFits(y, h, charged', replies', clock')
    <2>1. CASE y = x /\ h = e
      BY <1>1, <1>2, <1>5, <1>8, <2>1 DEF ReplyFits
    <2>2. CASE ~(y = x /\ h = e) /\ replies[<<y, h>>] # None
      <3>1. /\ replies[<<y, h>>] \in Runtime!Reply
            /\ ReplyFits(y, h, charged, replies, clock)
        BY <2>2 DEF IInv, Typed, Runtime!TypeOK, LedgerFits
      <3>. QED BY <1>6, <2>2, <3>1, ReplyLater
    <2>3. CASE ~(y = x /\ h = e) /\ replies[<<y, h>>] = None
      BY <1>5, <2>3 DEF ReplyFits
    <2>. QED BY <2>1, <2>2, <2>3
  <1>10. ASSUME NEW y \in Runtime!Assignments, NEW h \in Runtime!Hours
         PROVE  EntryFits(y, h, charged', replies', clock')
    <2>1. CASE charged[<<y, h>>] > 0
      <3>1. /\ replies[<<y, 1>>] \in Runtime!Reply \cup {None}
            /\ EntryFits(y, h, charged, replies, clock)
        BY HoursAre DEF IInv, Typed, Runtime!TypeOK, LedgerFits
      <3>. QED BY <1>6, <2>1, <3>1, EntryLater
    <2>2. CASE ~(charged[<<y, h>>] > 0) /\ charged'[<<y, h>>] > 0
      <3>1. y = x /\ h <= e /\ r.hours = e
        BY <2>2 DEF Grown
      <3>2. Covers(charged', x, h)
        BY <1>1, <3>1, HoursAre DEF Covers
      <3>3. h <= Runtime!ElapsedHours(old.startedAt, clock)
        <4>1. Runtime!ElapsedHours(old.startedAt, clock) \in Nat
          BY <1>1, <1>2, ElapsedMono
        <4>. QED BY <1>1, <3>1, <4>1, HoursAre
      <3>. QED BY <1>8, <3>1, <3>2, <3>3 DEF EntryFits, From
    <2>3. CASE ~(charged'[<<y, h>>] > 0)
      BY <2>3 DEF EntryFits
    <2>. QED BY <2>1, <2>2, <2>3
  <1>11. MarkFits(watermark', charged', replies')
    <2>1. CASE watermark' = [assignment |-> x, startedAt |-> r.startedAt,
                             settledHours |-> r.hours]
      BY <1>8, <2>1 DEF MarkFits
    <2>2. CASE watermark' = watermark /\ watermark # None
      <3>1. /\ watermark.assignment \in Runtime!Assignments
            /\ watermark.settledHours \in 0 .. Runtime!MaxHours
        BY <2>2, HoursAre DEF IInv, Typed, Runtime!TypeOK, Runtime!Watermark
      <3>2. MarkFits(watermark, charged, replies)
        BY DEF IInv, LedgerFits
      <3>. QED BY <1>6, <2>2, <3>1, <3>2, FromLater, CoversLater DEF MarkFits
    <2>3. CASE watermark' = None
      BY <2>3 DEF MarkFits
    <2>. QED BY <2>1, <2>2, <2>3
  <1>12. LedgerFits'
    BY <1>9, <1>10, <1>11 DEF LedgerFits
  <1>13. ServiceFits(hosted', charged', replies')
    <2>1. /\ hosted.runtime \in Runtime!Running \cup {None}
          /\ ServiceFits(hosted, charged, replies)
      BY DEF IInv, Typed, Runtime!TypeOK
    <2>2. ServiceFits(hosted, charged', replies')
      BY <1>6, <2>1, ServiceLater
    <2>. QED BY <2>2
  <1>14. CallFits(req, charged', replies', clock')
    BY <1>1, <1>2, <1>3, <1>8 DEF CallFits
  <1>15. CallsFit'
    BY <1>4, <1>6, <1>14, OthersStay
  <1>. QED BY <1>7, <1>12, <1>13, <1>15 DEF IInv

(* The ledger counts hours as FiniteSets does.                             *)
LEMMA HoursCount == \A S : Runtime!Cardinality(S) = Cardinality(S)
  BY DEF Runtime!Cardinality, Cardinality

(* An entry for each hour of assignment x after s, up to e.                *)
Charge(x, s, e) ==
    [z \in Runtime!Assignments \X Runtime!Hours |->
        IF z[1] = x /\ z[2] \in {h \in Runtime!Hours : s < h /\ h <= e}
        THEN charged[z] + 1 ELSE charged[z]]

(* What a charge closes it charges once, and what it opens again counts as *)
(* overtaken.                                                              *)
LEMMA ChargeCounts ==
    ASSUME Runtime!RuntimeAssumption, IInv, NEW w \in Workers,
           worker[w].pc = "settle",
           NEW x, x = worker[w].assignment, NEW e, e = Elapsed(worker[w]),
           NEW s, s = Runtime!SettledHours(worker[w]),
           charged' = Charge(x, s, e), watermark' # None,
           watermark'.assignment = x, watermark'.settledHours = e,
           overtaken' = IF Runtime!Overtaken(worker[w], e) THEN overtaken + 1
                        ELSE overtaken
    PROVE  /\ CountFits' /\ overtaken' \in Nat
           /\ charged' \in [Runtime!Assignments \X Runtime!Hours -> Nat]
           /\ Covers(charged', x, e)
  <1>1. /\ x \in Runtime!Assignments /\ e \in Runtime!Hours
        /\ s \in 0 .. Runtime!MaxHours /\ Covers(charged, x, s)
    BY ToSettle
  <1>2. /\ overtaken \in Nat
        /\ charged \in [Runtime!Assignments \X Runtime!Hours -> Nat]
        /\ watermark # None => /\ watermark.assignment \in Runtime!Assignments
                               /\ watermark.settledHours \in Runtime!Hours
    BY DEF IInv, Typed, Runtime!TypeOK, Runtime!Watermark
  <1>3. overtaken' \in Nat
    BY <1>2
  <1>4. charged' \in [Runtime!Assignments \X Runtime!Hours -> Nat]
    BY <1>2 DEF Charge
  <1>5. ASSUME NEW y \in Runtime!Assignments, NEW h \in Runtime!Hours
        PROVE  charged'[<<y, h>>] = IF y = x /\ s < h /\ h <= e
                                    THEN charged[<<y, h>>] + 1
                                    ELSE charged[<<y, h>>]
    BY DEF Charge
  <1>6. ASSUME NEW y \in Runtime!Assignments, NEW h \in Runtime!Hours
        PROVE  (charged[<<y, h>>] + Open(y, h) <= 1 + overtaken)'
    <2>1. /\ charged[<<y, h>>] + Open(y, h) <= 1 + overtaken
          /\ charged[<<y, h>>] \in Nat /\ y \in Nat /\ h \in Nat /\ x \in Nat
          /\ e \in Nat /\ s \in Nat
      BY <1>1, <1>2, HoursAre DEF IInv, CountFits
    <2>2. Open(y, h)' = IF x < y \/ (x = y /\ e < h) THEN 1 ELSE 0
      BY DEF Open
    <2>3. watermark # None =>
              watermark.assignment \in Nat /\ watermark.settledHours \in Nat
      BY <1>2, HoursAre
    <2>4. CASE Runtime!Overtaken(worker[w], e)
      BY <1>2, <1>5, <2>1, <2>2, <2>4 DEF Open
    <2>5. CASE ~Runtime!Overtaken(worker[w], e)
      <3>1. \/ watermark = None
            \/ watermark.assignment < x
            \/ watermark.assignment = x /\ watermark.settledHours <= e
        BY <2>1, <2>3, <2>5 DEF Runtime!Overtaken, Runtime!Marked
      <3>2. watermark # None /\ watermark.assignment = x =>
                s = watermark.settledHours
        BY DEF Runtime!SettledHours, Runtime!Marked
      <3>3. overtaken' = overtaken
        BY <2>5
      <3>4. CASE y = x /\ s < h /\ h <= e
        BY <1>2, <1>5, <2>1, <2>2, <2>3, <3>1, <3>2, <3>3, <3>4 DEF Open
      <3>5. CASE ~(y = x /\ s < h /\ h <= e)
        BY <1>2, <1>5, <2>1, <2>2, <2>3, <3>1, <3>3, <3>5 DEF Open
      <3>. QED BY <3>4, <3>5
    <2>. QED BY <2>4, <2>5
  <1>7. Covers(charged', x, e)
    <2>. SUFFICES ASSUME NEW g \in 1 .. e PROVE charged'[<<x, g>>] > 0
      BY DEF Covers
    <2>1. g \in Runtime!Hours /\ charged[<<x, g>>] \in Nat
      BY <1>1, <1>2, HoursAre
    <2>2. g <= s => charged[<<x, g>>] > 0
      BY <1>1 DEF Covers
    <2>. QED BY <1>1, <1>5, <2>1, <2>2
  <1>. QED BY <1>3, <1>4, <1>5, <1>6, <1>7 DEF CountFits

(* `settleRuntime`: an answer that is there, a refusal, or a charge.       *)
LEMMA SettleStep ==
    ASSUME Runtime!RuntimeAssumption, IInv, NEW w \in Workers, Runtime!Settle(w)
    PROVE  IInv'
  <1>. DEFINE req == worker[w]
  <1>1. PICK x : x = req.assignment
    OBVIOUS
  <1>2. PICK e : e = Elapsed(req)
    OBVIOUS
  <1>3. PICK s : s = Runtime!SettledHours(req)
    OBVIOUS
  <1>. DEFINE due == {h \in Runtime!Hours : s < h /\ h <= e}
              amount == Cardinality(due) * Price
  <1>4. /\ req.pc = "settle" /\ ~Runtime!Conflict(req)
        /\ UNCHANGED <<clock, hosted, crashes>>
    BY DEF Runtime!Settle
  <1>5. /\ x \in Runtime!Assignments /\ e \in Runtime!Hours
        /\ s \in 0 .. Runtime!MaxHours /\ Covers(charged, x, s)
        /\ req.startedAt \in Nat
    BY <1>1, <1>2, <1>3, <1>4, ToSettle
  <1>6. /\ balance \in Nat /\ subscription \in {"active", "payment_due"}
        /\ watermark \in Runtime!Watermark \cup {None} /\ overtaken \in Nat
        /\ charged \in [Runtime!Assignments \X Runtime!Hours -> Nat]
    BY DEF IInv, Typed, Runtime!TypeOK
  <1>7. CASE replies[<<x, e>>] # None
    <2>1. /\ worker' = [worker EXCEPT ![w].pc = "update",
                                      ![w].reply = replies[<<x, e>>]]
          /\ UNCHANGED <<Runtime!billing, overtaken>>
      BY <1>1, <1>2, <1>7 DEF Runtime!Settle, Elapsed
    <2>. QED BY <1>1, <1>2, <1>4, <1>7, <2>1, AnswerStep
  <1>8. CASE replies[<<x, e>>] = None /\ Runtime!Refused(amount)
    <2>. DEFINE r == [status |-> "payment_due", hours |-> s,
                      startedAt |-> req.startedAt]
    <2>1. /\ r \in Runtime!Reply /\ r.status = "payment_due"
          /\ r.startedAt = req.startedAt /\ r.hours = s
      BY <1>5 DEF Runtime!Reply
    <2>2. /\ subscription' = "payment_due"
          /\ UNCHANGED <<balance, watermark, charged, overtaken>>
          /\ replies' = [replies EXCEPT ![<<x, e>>] = r]
          /\ worker' = [worker EXCEPT ![w].pc = "update", ![w].reply = r]
      BY <1>1, <1>2, <1>3, <1>8, HoursCount DEF Runtime!Settle, Elapsed
    <2>3. CountFits'
      BY <2>2, SameCount
    <2>. HIDE DEF r
    <2>4. Covers(charged', x, r.hours) /\ Grown(x, e, r)
      BY <1>5, <2>1, <2>2 DEF Grown
    <2>5. charged' \in [Runtime!Assignments \X Runtime!Hours -> Nat]
      BY <1>6, <2>2
    <2>. QED BY <1>1, <1>2, <1>4, <1>6, <1>8, <2>1, <2>2, <2>3, <2>4, <2>5,
                RecordStep
  <1>9. CASE replies[<<x, e>>] = None /\ ~Runtime!Refused(amount)
    <2>. DEFINE r == [status |-> "settled", hours |-> e,
                      startedAt |-> req.startedAt]
    <2>1. /\ r \in Runtime!Reply /\ r.status = "settled" /\ r.hours = e
          /\ r.startedAt = req.startedAt
      BY <1>5, HoursAre DEF Runtime!Reply
    <2>2. /\ balance' = balance - amount /\ UNCHANGED subscription
          /\ charged' = Charge(x, s, e)
          /\ watermark' = [assignment |-> x, startedAt |-> req.startedAt,
                           settledHours |-> e]
          /\ replies' = [replies EXCEPT ![<<x, e>>] = r]
          /\ worker' = [worker EXCEPT ![w].pc = "update", ![w].reply = r]
          /\ overtaken' = IF Runtime!Overtaken(req, e) THEN overtaken + 1
                          ELSE overtaken
      BY <1>1, <1>2, <1>3, <1>9, HoursCount DEF Runtime!Settle, Elapsed, Charge
    <2>3. balance' \in Nat
      <3>1. IsFiniteSet(due) /\ Cardinality(due) \in Nat
        <4>1. IsFiniteSet(Runtime!Hours)
          BY HoursAre, FS_Interval
        <4>2. due \subseteq Runtime!Hours
          OBVIOUS
        <4>. HIDE DEF due
        <4>. QED BY <4>1, <4>2, FS_Subset, FS_CardinalityType
      <3>2. amount \in Nat /\ amount <= balance
        BY <1>6, <1>9, <3>1 DEF Runtime!Refused, Runtime!RuntimeAssumption
      <3>. QED BY <1>6, <2>2, <3>2
    <2>4. watermark' \in Runtime!Watermark /\ watermark' # None
      BY <1>5, <2>2 DEF Runtime!Watermark, Runtime!RuntimeAssumption
    <2>5. /\ CountFits' /\ overtaken' \in Nat
          /\ charged' \in [Runtime!Assignments \X Runtime!Hours -> Nat]
          /\ Covers(charged', x, e)
      <3>1. /\ charged' = Charge(x, s, e)
            /\ watermark'.assignment = x /\ watermark'.settledHours = e
            /\ overtaken' = IF Runtime!Overtaken(worker[w], e)
                            THEN overtaken + 1 ELSE overtaken
        BY <2>2
      <3>2. worker[w].pc = "settle"
        BY <1>4
      <3>. QED BY <1>1, <1>2, <1>3, <2>4, <3>1, <3>2, ChargeCounts
    <2>. HIDE DEF r
    <2>6. Grown(x, e, r)
      <3>. SUFFICES ASSUME NEW y \in Runtime!Assignments,
                               NEW h \in Runtime!Hours
                    PROVE  /\ charged[<<y, h>>] > 0 => charged'[<<y, h>>] > 0
                           /\ charged'[<<y, h>>] > 0 =>
                                 \/ charged[<<y, h>>] > 0
                                 \/ y = x /\ h <= e /\ r.hours = e
        BY DEF Grown
      <3>1. charged[<<y, h>>] \in Nat
        BY <1>6
      <3>2. charged'[<<y, h>>] = IF y = x /\ s < h /\ h <= e
                                 THEN charged[<<y, h>>] + 1
                                 ELSE charged[<<y, h>>]
        BY <2>2 DEF Charge
      <3>. QED BY <2>1, <3>1, <3>2
    <2>7. r.hours >= 1 /\ Covers(charged', x, r.hours)
      BY <1>5, <2>1, <2>5, HoursAre
    <2>8. watermark' = [assignment |-> x, startedAt |-> r.startedAt,
                        settledHours |-> r.hours]
      BY <2>1, <2>2
    <2>. QED BY <1>1, <1>2, <1>4, <1>6, <1>9, <2>1, <2>2, <2>3, <2>4, <2>5,
                <2>6,
                <2>7, <2>8, RecordStep
  <1>. QED BY <1>7, <1>8, <1>9

LEMMA ConflictStep ==
    ASSUME Runtime!RuntimeAssumption, IInv, NEW w \in Workers,
           Runtime!SettleConflict(w) \/ Runtime!Crash(w)
    PROVE  IInv'
  <1>1. crashes' \in 0 .. MaxCrashes
    BY DEF Runtime!SettleConflict, Runtime!Crash, IInv, Typed, Runtime!TypeOK,
       Runtime!RuntimeAssumption
  <1>. QED BY <1>1, IdleStep DEF Runtime!SettleConflict, Runtime!Crash

-----------------------------------------------------------------------------
(* The scheduler transaction of a report writes what the ledger has.       *)
LEMMA StartedStep ==
    ASSUME Runtime!RuntimeAssumption, IInv, NEW w \in Workers,
           worker[w].pc = "update", worker[w].kind = "started",
           hosted.status = "starting", Runtime!SameAssignment(worker[w]),
           hosted' = Runtime!Started(worker[w]),
           worker' = [worker EXCEPT ![w] = Runtime!Idle],
           UNCHANGED <<clock, Runtime!billing, crashes, overtaken>>
    PROVE  IInv'
  <1>. DEFINE req == worker[w]
  <1>1. /\ req \in Runtime!Call /\ req.settledAt \in Nat
        /\ CallFits(req, charged, replies, clock)
        /\ req.assignment = hosted.assignment
    BY DEF IInv, Typed, Runtime!TypeOK, CallsFit, Runtime!Call,
       Runtime!SameAssignment
  <1>2. /\ req.reply # None /\ req.reply \in Runtime!Reply
        /\ hosted.assignment \in Runtime!Assignments
        /\ Covers(charged, hosted.assignment, req.reply.hours)
        /\ req.reply.hours \in 0 .. Runtime!MaxHours
        /\ req.reply.status = "settled" => req.reply.hours >= 1
        /\ From(replies, hosted.assignment, req.settledAt)
    BY <1>1 DEF CallFits, Runtime!Call, Runtime!Reply
  <1>3. \A d \in Workers : worker'[d] \in {worker[d], Runtime!Idle}
    BY DEF IInv, Typed, Runtime!TypeOK
  <1>4. worker' \in [Workers -> Runtime!Call]
    BY IdleFits DEF IInv, Typed, Runtime!TypeOK
  <1>5. CASE req.reply.status = "payment_due"
    <2>1. hosted' = [hosted EXCEPT !.status = "stopping"]
      BY <1>5 DEF Runtime!Started, IInv, Typed, Runtime!TypeOK
    <2>. QED BY <1>3, <1>4, <2>1, StopStep
  <1>6. CASE req.reply.status = "settled"
    <2>. DEFINE run == [startedAt |-> req.settledAt,
                        settledHours |-> req.reply.hours]
    <2>1. run \in Runtime!Running
      BY <1>1, <1>2 DEF Runtime!Running
    <2>2. hosted' = [hosted EXCEPT !.status = "running", !.runtime = run]
      BY <1>6 DEF Runtime!Started
    <2>3. /\ run # None /\ run.startedAt = req.settledAt
          /\ run.settledHours = req.reply.hours
      BY <2>1 DEF Runtime!RuntimeAssumption
    <2>. HIDE DEF run
    <2>4. /\ hosted' \in [status : {"ready", "starting", "running", "stopping"},
                          assignment : 0 .. MaxAssignments,
                          runtime : Runtime!Running \cup {None}]
          /\ hosted'.status = "running" /\ hosted'.runtime = run
          /\ hosted'.assignment = hosted.assignment
      BY <2>1, <2>2 DEF IInv, Typed, Runtime!TypeOK
    <2>5. ServiceFits(hosted', charged, replies)
      BY <1>2, <1>6, <2>3, <2>4 DEF ServiceFits
    <2>. QED BY <1>3, <1>4, <2>4, <2>5, ServiceStep
  <1>. QED BY <1>2, <1>5, <1>6 DEF Runtime!Reply

LEMMA StoppedStep ==
    ASSUME Runtime!RuntimeAssumption, IInv, NEW w \in Workers,
           hosted.status = "stopping",
           hosted' = [hosted EXCEPT !.status = "ready", !.runtime = None],
           worker' = [worker EXCEPT ![w] = Runtime!Idle],
           UNCHANGED <<clock, Runtime!billing, crashes, overtaken>>
    PROVE  IInv'
  <1>1. /\ hosted' \in [status : {"ready", "starting", "running", "stopping"},
                        assignment : 0 .. MaxAssignments,
                        runtime : Runtime!Running \cup {None}]
        /\ hosted'.status = "ready" /\ hosted'.runtime = None
    BY DEF IInv, Typed, Runtime!TypeOK
  <1>2. ServiceFits(hosted', charged, replies)
    BY <1>1 DEF ServiceFits
  <1>3. /\ worker' \in [Workers -> Runtime!Call]
        /\ \A d \in Workers : worker'[d] \in {worker[d], Runtime!Idle}
    BY IdleFits DEF IInv, Typed, Runtime!TypeOK
  <1>. QED BY <1>1, <1>2, <1>3, ServiceStep

(* A sweep brings the copy no further than the ledger is.                  *)
LEMMA SweptStep ==
    ASSUME Runtime!RuntimeAssumption, IInv, NEW w \in Workers,
           worker[w].pc = "update", worker[w].kind = "sweep",
           worker[w].reply.status = "settled",
           hosted.status = "running", Runtime!SameAssignment(worker[w]),
           hosted' = [hosted EXCEPT !.runtime.settledHours =
                          Runtime!MaxOf(@, worker[w].reply.hours)],
           worker' = [worker EXCEPT ![w] = Runtime!Idle],
           UNCHANGED <<clock, Runtime!billing, crashes, overtaken>>
    PROVE  IInv'
  <1>. DEFINE req == worker[w]
              run == hosted.runtime
  <1>1. PICK n : n = Runtime!MaxOf(run.settledHours, req.reply.hours)
    OBVIOUS
  <1>2. /\ run \in Runtime!Running /\ run # None
        /\ hosted.assignment \in Runtime!Assignments
        /\ From(replies, hosted.assignment, run.startedAt)
        /\ run.settledHours >= 1
        /\ run.settledHours \in 0 .. Runtime!MaxHours
        /\ Covers(charged, hosted.assignment, run.settledHours)
    BY DEF IInv, ServiceFits, Typed, Runtime!TypeOK, Runtime!Running
  <1>3. /\ req.reply.hours \in 0 .. Runtime!MaxHours
        /\ Covers(charged, hosted.assignment, req.reply.hours)
    BY DEF IInv, Typed, Runtime!TypeOK, CallsFit, CallFits, Runtime!Call,
       Runtime!Reply, Runtime!SameAssignment
  <1>4. /\ n \in 0 .. Runtime!MaxHours /\ n >= 1
        /\ Covers(charged, hosted.assignment, n)
    BY <1>1, <1>2, <1>3, HoursAre DEF Runtime!MaxOf
  <1>5. PICK new \in Runtime!Running : /\ new = [run EXCEPT !.settledHours = n]
                                       /\ new.startedAt = run.startedAt
                                       /\ new.settledHours = n
    <2>. DEFINE c == [run EXCEPT !.settledHours = n]
    <2>1. c \in Runtime!Running /\ c.startedAt = run.startedAt
          /\ c.settledHours = n
      BY <1>2, <1>4 DEF Runtime!Running
    <2>2. c = [run EXCEPT !.settledHours = n]
      OBVIOUS
    <2>. HIDE DEF c
    <2>. QED BY <2>1, <2>2
  <1>6. new # None
    BY <1>5 DEF Runtime!RuntimeAssumption
  <1>7. hosted' = [hosted EXCEPT !.runtime = new]
    BY <1>1, <1>5 DEF IInv, Typed, Runtime!TypeOK
  <1>8. /\ hosted' \in [status : {"ready", "starting", "running", "stopping"},
                        assignment : 0 .. MaxAssignments,
                        runtime : Runtime!Running \cup {None}]
        /\ hosted'.status = "running" /\ hosted'.runtime = new
        /\ hosted'.assignment = hosted.assignment
    BY <1>7 DEF IInv, Typed, Runtime!TypeOK
  <1>9. ServiceFits(hosted', charged, replies)
    BY <1>2, <1>4, <1>5, <1>6, <1>8 DEF ServiceFits
  <1>10. /\ worker' \in [Workers -> Runtime!Call]
         /\ \A d \in Workers : worker'[d] \in {worker[d], Runtime!Idle}
    BY IdleFits DEF IInv, Typed, Runtime!TypeOK
  <1>. QED BY <1>8, <1>9, <1>10, ServiceStep

LEMMA UpdateStep ==
    ASSUME Runtime!RuntimeAssumption, IInv, NEW w \in Workers, Runtime!Update(w)
    PROVE  IInv'
  <1>. DEFINE req == worker[w]
  <1>1. /\ req.pc = "update" /\ worker' = [worker EXCEPT ![w] = Runtime!Idle]
        /\ UNCHANGED <<clock, Runtime!billing, crashes, overtaken>>
    BY DEF Runtime!Update
  <1>2. \/ /\ req.kind = "started" /\ hosted.status = "starting"
           /\ Runtime!SameAssignment(req) /\ hosted' = Runtime!Started(req)
        \/ /\ req.kind = "stopped" /\ hosted.status = "stopping"
           /\ hosted' = [hosted EXCEPT !.status = "ready", !.runtime = None]
        \/ /\ Runtime!MustStop(req)
           /\ hosted' = [hosted EXCEPT !.status = "stopping"]
        \/ /\ req.kind = "sweep" /\ req.reply.status = "settled"
           /\ hosted.status = "running" /\ Runtime!SameAssignment(req)
           /\ hosted' = [hosted EXCEPT !.runtime.settledHours =
                              Runtime!MaxOf(@, req.reply.hours)]
        \/ UNCHANGED hosted
    BY DEF Runtime!Update
  <1>3. CASE Runtime!MustStop(req)
                 /\ hosted' = [hosted EXCEPT !.status = "stopping"]
    <2>1. \A d \in Workers : worker'[d] \in {worker[d], Runtime!Idle}
      BY <1>1 DEF IInv, Typed, Runtime!TypeOK
    <2>2. worker' \in [Workers -> Runtime!Call]
      BY <1>1, IdleFits DEF IInv, Typed, Runtime!TypeOK
    <2>. QED BY <1>1, <1>3, <2>1, <2>2, StopStep DEF Runtime!MustStop
  <1>4. CASE UNCHANGED hosted
    BY <1>1, <1>4, IdleStep DEF IInv, Typed, Runtime!TypeOK
  <1>. QED BY <1>1, <1>2, <1>3, <1>4, StartedStep, StoppedStep, SweptStep

(* The time moves on, whatever is in flight.                               *)
LEMMA TickStep ==
    ASSUME Runtime!RuntimeAssumption, IInv, Runtime!Tick PROVE IInv'
  <1>1. /\ clock \in Nat /\ clock' = clock + 1 /\ clock' <= MaxClock
        /\ UNCHANGED <<Runtime!billing, hosted, worker, crashes, overtaken>>
    BY DEF Runtime!Tick, IInv, Typed, Runtime!TypeOK, Runtime!RuntimeAssumption
  <1>2. Typed'
    BY <1>1 DEF IInv, Typed, Runtime!TypeOK, Runtime!billing
  <1>3. clock' \in Nat /\ clock <= clock'
    BY <1>1
  <1>4. /\ Later(charged, replies, clock, charged', replies', clock')
        /\ CountFits' /\ LedgerFits'
    BY <1>1, <1>3, SameLedger
  <1>5. ServiceFits(hosted', charged', replies')
    BY <1>1 DEF IInv, Runtime!billing
  <1>6. CallsFit'
    BY <1>1, <1>4, OthersStay
  <1>. QED BY <1>2, <1>4, <1>5, <1>6 DEF IInv

LEMMA NextIInv ==
    ASSUME Runtime!RuntimeAssumption, IInv, [Runtime!Next]_(Runtime!vars)
    PROVE  IInv'
  <1>1. CASE UNCHANGED Runtime!vars
    BY <1>1 DEF Runtime!vars, Runtime!billing, IInv, Typed, Runtime!TypeOK,
       CountFits, Open, LedgerFits, CallsFit
  <1>2. CASE Runtime!Stop
    BY <1>2, StopStep DEF Runtime!Stop, IInv, Typed, Runtime!TypeOK
  <1>3. ASSUME NEW w \in Workers,
               \/ Runtime!ReportStarted(w) \/ Runtime!ReportStopped(w)
               \/ Runtime!Sweep(w) \/ Runtime!Settle(w)
               \/ Runtime!SettleConflict(w) \/ Runtime!Update(w)
               \/ Runtime!Crash(w)
        PROVE  IInv'
    <2>1. CASE Runtime!ReportStarted(w) \/ Runtime!ReportStopped(w)
                   \/ Runtime!Sweep(w)
      BY <2>1, BeginStep
    <2>2. CASE Runtime!Settle(w)
      BY <2>2, SettleStep
    <2>3. CASE Runtime!SettleConflict(w) \/ Runtime!Crash(w)
      BY <2>3, ConflictStep
    <2>4. CASE Runtime!Update(w)
      BY <2>4, UpdateStep
    <2>. QED BY <1>3, <2>1, <2>2, <2>3, <2>4
  <1>. QED BY <1>1, <1>2, <1>3, StartStep, TickStep DEF Runtime!Next
-----------------------------------------------------------------------------
LEMMA IInvMeans ==
    ASSUME Runtime!RuntimeAssumption, IInv
    PROVE  /\ Runtime!ChargedOncePerTurn /\ Runtime!HoursContiguous
           /\ Runtime!RunningIsPaid
  <1>1. Runtime!ChargedOncePerTurn
    <2>1. ASSUME NEW x \in Runtime!Assignments, NEW h \in Runtime!Hours
          PROVE  charged[<<x, h>>] <= 1 + overtaken
      <3>1. /\ charged[<<x, h>>] + Open(x, h) <= 1 + overtaken
            /\ charged[<<x, h>>] \in Nat /\ overtaken \in Nat
            /\ Open(x, h) \in {0, 1}
        BY DEF IInv, CountFits, Typed, Runtime!TypeOK, Open
      <3>. QED BY <3>1
    <2>. QED BY <2>1 DEF Runtime!ChargedOncePerTurn
  <1>2. ASSUME NEW x \in Runtime!Assignments, NEW h \in Runtime!ChargedHours(x)
        PROVE  /\ h \in Runtime!Hours
               /\ \A g \in 1 .. h : g \in Runtime!ChargedHours(x)
               /\ h > 1 /\ watermark # None /\ watermark.assignment = x
                  => (h - 1) * Hour < clock - watermark.startedAt
    <2>1. h \in Runtime!Hours /\ charged[<<x, h>>] > 0
      BY <1>2 DEF Runtime!ChargedHours
    <2>2. /\ replies[<<x, 1>>] # None /\ Covers(charged, x, h)
          /\ h <= Runtime!ElapsedHours(replies[<<x, 1>>].startedAt, clock)
      BY <2>1 DEF IInv, LedgerFits, EntryFits
    <2>3. \A g \in 1 .. h : g \in Runtime!ChargedHours(x)
      BY <2>1, <2>2, HoursAre DEF Covers, Runtime!ChargedHours
    <2>4. ASSUME h > 1, watermark # None, watermark.assignment = x
          PROVE  (h - 1) * Hour < clock - watermark.startedAt
      <3>1. /\ replies[<<x, 1>>].startedAt = watermark.startedAt
            /\ watermark.startedAt \in Nat /\ clock \in Nat /\ h \in Nat
        BY <2>1, <2>4, HoursAre DEF IInv, LedgerFits, MarkFits, From, Typed,
           Runtime!TypeOK, Runtime!Watermark
      <3>. QED BY <2>2, <2>4, <3>1, ElapsedBegun
    <2>. QED BY <2>1, <2>3, <2>4
  <1>3. Runtime!HoursContiguous
    BY <1>2 DEF Runtime!HoursContiguous
  <1>4. ASSUME hosted.status = "running" PROVE Runtime!RunningIsPaid
    <2>. DEFINE x == hosted.assignment
                n == hosted.runtime.settledHours
    <2>1. /\ x \in Runtime!Assignments /\ n \in 0 .. Runtime!MaxHours /\ n >= 1
          /\ Covers(charged, x, n)
      BY <1>4 DEF IInv, ServiceFits, Typed, Runtime!TypeOK, Runtime!Running
    <2>. HIDE DEF x, n
    <2>2. /\ n \in Nat /\ Runtime!Hours = 1 .. Runtime!MaxHours
          /\ Runtime!MaxHours \in Nat
      BY <2>1, HoursAre
    <2>3. 1 \in Runtime!ChargedHours(x)
              /\ 1 .. n \subseteq Runtime!ChargedHours(x)
      BY <2>1, <2>2 DEF Covers, Runtime!ChargedHours
    <2>4. IsFiniteSet(Runtime!ChargedHours(x))
      <3>1. IsFiniteSet(Runtime!Hours)
                /\ Runtime!ChargedHours(x) \subseteq Runtime!Hours
        BY <2>2, FS_Interval DEF Runtime!ChargedHours
      <3>. QED BY <3>1, FS_Subset
    <2>5. Cardinality(1 .. n) = n
      BY <2>1, <2>2, FS_Interval
    <2>6. Cardinality(1 .. n) <= Cardinality(Runtime!ChargedHours(x))
      BY <2>3, <2>4, FS_Subset
    <2>. QED BY <2>3, <2>5, <2>6, HoursCount DEF Runtime!RunningIsPaid, x, n
  <1>5. Runtime!RunningIsPaid
    BY <1>4 DEF Runtime!RunningIsPaid
  <1>. QED BY <1>1, <1>3, <1>5

(* However the calls of `settleRuntime` interleave with the scheduler's    *)
(* transactions and with each other, however late they settle, die between *)
(* the two stores or are repeated: an hour of an assignment is charged     *)
(* again only by a settlement that came after a later one moved the        *)
(* watermark back, none is left out or charged before it begins, and what  *)
(* runs has paid for its first hour, with a copy that is not ahead of the  *)
(* ledger.                                                                 *)
THEOREM HoursAreChargedOnce ==
    ASSUME Runtime!RuntimeAssumption
    PROVE  Runtime!Spec => []( /\ Runtime!TypeOK /\ Runtime!ChargedOncePerTurn
                               /\ Runtime!HoursContiguous
                               /\ Runtime!RunningIsPaid)
  <1>1. Runtime!Init => IInv
    BY InitIInv
  <1>2. IInv /\ [Runtime!Next]_(Runtime!vars) => IInv'
    BY NextIInv
  <1>3. IInv => /\ Runtime!TypeOK /\ Runtime!ChargedOncePerTurn
                /\ Runtime!HoursContiguous /\ Runtime!RunningIsPaid
    BY IInvMeans DEF IInv, Typed
  <1>. QED BY <1>1, <1>2, <1>3, PTL DEF Runtime!Spec

(* In the part of the hours, its invariant; elsewhere nothing is said.     *)
LEMMA HoursInit == MCInit => (part = "hours" => IInv)
  BY HoursAssumption, InitIInv DEF MCInit

MCVars ==
    <<part, vars, runtimeVars, selectionVars, syncVars, outboxVars, seedVars,
            packVars>>

LEMMA HoursNext ==
    ASSUME part = "hours" => IInv, [MCNext]_MCVars
    PROVE  (part = "hours" => IInv)'
  <1>. SUFFICES ASSUME part' = "hours" PROVE IInv'
    OBVIOUS
  <1>1. part = "hours" /\ IInv /\ (Runtime!Next \/ UNCHANGED runtimeVars)
    BY DEF MCNext, MCVars
  <1>2. [Runtime!Next]_(Runtime!vars)
    BY <1>1 DEF runtimeVars, Runtime!vars, Runtime!billing
  <1>. QED BY <1>1, <1>2, HoursAssumption, NextIInv

(* The hours that MCSharedHosting checks, for any number of calls, any     *)
(* price and any length of an hour, however calls of `settleRuntime`       *)
(* interleave, die or are repeated: no hour of an assignment is charged    *)
(* more often than once and once for each settlement that came too late.   *)
THEOREM HoursHold == MCSpec => []HoursInv
  <1>1. (part = "hours" => IInv) => HoursInv
    BY HoursAssumption, IInvMeans DEF HoursInv, IInv, Typed
  <1>. QED BY HoursInit, HoursNext, <1>1, PTL DEF MCSpec, MCVars
-----------------------------------------------------------------------------
(* The commands of a node (NodeCommandOutbox), for an agent that makes one *)
(* call at a time and for one whose calls overlap.  Of the first the       *)
(* invariant says that no command is leased twice over, that a poll is     *)
(* alone at work, and that what it did not find running has run out as of  *)
(* its own time, however late it is.                                       *)
Leased(c) == stored[c].status = "leased"

(* created lists each command once, and none that was not enqueued.        *)
MadeOnce ==
    /\ \A i \in DOMAIN created : stored[created[i]].status # "none"
    /\ \A i, j \in DOMAIN created : created[i] = created[j] => i = j

OneLeased == \A c, d \in Commands : Leased(c) /\ Leased(d) => c = d

PollsAlone ==
    \A p \in Workers : poll[p].pc # "idle" =>
        /\ arriving = {}
        /\ \A q \in Workers : poll[q].pc # "idle" => p = q

RunOut ==
    \A p \in Workers, c \in Commands : Leased(c) =>
        /\ poll[p].pc # "lease"
        /\ poll[p].pc = "requeue" => stored[c].left <= -poll[p].late

Alone == OneLeased /\ PollsAlone /\ RunOut

IdleIsNew == \A p \in Workers : poll[p].pc = "idle" => poll[p].late = 0

CommandsInv ==
    /\ Outbox!TypeOK /\ Outbox!AckIsOfLastLease /\ Outbox!LeaseEnds /\ MadeOnce
    /\ IdleIsNew
    /\ part = "queue" => Alone
-----------------------------------------------------------------------------
Stored == [status : {"none", "queued", "leased", "acked"}, generation : Nat,
           left : -MaxLate .. Lease, age : 0 .. MaxLifetime + MaxLate]

(* What is without a lease has nothing left of one.                        *)
LEMMA UnleasedType ==
    ASSUME Outbox!OutboxAssumption, NEW s \in {"none", "queued", "acked"},
           NEW g \in Nat
    PROVE  /\ Outbox!Unleased(s, g) \in Stored
           /\ Outbox!Unleased(s, g).status = s
           /\ Outbox!Unleased(s, g).generation = g
  BY DEF Outbox!OutboxAssumption, Outbox!Unleased, Stored

(* At first there is no command and no call.                               *)
LEMMA CommandsInit == Outbox!OutboxAssumption /\ Outbox!Init => CommandsInv
  <1>. SUFFICES ASSUME Outbox!OutboxAssumption, Outbox!Init PROVE CommandsInv
    OBVIOUS
  <1>1. \A c \in Commands : /\ stored[c] \in Stored /\ stored[c].status = "none"
    BY UnleasedType DEF Outbox!Init
  <1>2. Outbox!NoPoll
            \in [pc : {"idle", "requeue", "lease"}, late : 0 .. MaxLate]
    BY DEF Outbox!NoPoll, Outbox!OutboxAssumption
  <1>3. Outbox!TypeOK
    BY <1>1, <1>2 DEF Outbox!Init, Outbox!TypeOK, Stored
  <1>4. Outbox!AckIsOfLastLease /\ Outbox!LeaseEnds /\ MadeOnce /\ IdleIsNew
    BY <1>1
       DEF Outbox!Init, Outbox!AckIsOfLastLease, Outbox!LeaseEnds, MadeOnce,
       IdleIsNew, Outbox!NoPoll
  <1>5. Alone
    BY <1>1
       DEF Outbox!Init, Alone, OneLeased, PollsAlone, RunOut, Leased,
       Outbox!NoPoll
  <1>. QED BY <1>3, <1>4, <1>5 DEF CommandsInv
-----------------------------------------------------------------------------
(* A command is queued once.                                               *)
LEMMA EnqueueStep ==
    ASSUME Outbox!OutboxAssumption, CommandsInv, UNCHANGED part,
           NEW c \in Commands, Outbox!Enqueue(c)
    PROVE  CommandsInv'
  <1>. DEFINE new == Outbox!Unleased("queued", 0)
  <1>1. new \in Stored /\ new.status = "queued"
    BY UnleasedType
  <1>2. \A d \in Commands : stored'[d] = IF d = c THEN new ELSE stored[d]
    BY DEF Outbox!Enqueue, CommandsInv, Outbox!TypeOK
  <1>3. created \in Seq(Commands) /\ created' = Append(created, c)
    BY DEF Outbox!Enqueue, CommandsInv, Outbox!TypeOK
  <1>4. /\ DOMAIN created' = 1 .. Len(created) + 1 /\ Len(created) \in Nat
        /\ DOMAIN created = 1 .. Len(created)
        /\ \A i \in 1 .. Len(created) : created'[i] = created[i]
               /\ created[i] \in Commands
        /\ created'[Len(created) + 1] = c
    BY <1>3
  <1>. HIDE DEF new
  <1>5. Outbox!TypeOK'
    <2>1. stored' \in [Commands -> Stored]
      BY <1>1 DEF Outbox!Enqueue, CommandsInv, Outbox!TypeOK, Stored, new
    <2>2. created' \in Seq(Commands)
      BY <1>3
    <2>. QED BY <2>1, <2>2
                DEF Outbox!Enqueue, CommandsInv, Outbox!TypeOK, Stored
  <1>6. Outbox!AckIsOfLastLease' /\ Outbox!LeaseEnds'
    BY <1>1, <1>2
       DEF Outbox!Enqueue, CommandsInv, Outbox!AckIsOfLastLease,
       Outbox!LeaseEnds
  <1>7. MadeOnce'
    <2>1. \A i \in DOMAIN created : created[i] # c
      BY DEF Outbox!Enqueue, CommandsInv, MadeOnce
    <2>2. \A i \in 1 .. Len(created) + 1 : i = Len(created) + 1
              \/ i \in 1 .. Len(created)
      BY <1>4
    <2>. QED BY <2>1, <2>2, <1>1, <1>2, <1>4 DEF CommandsInv, MadeOnce
  <1>8. part = "queue" => Alone'
    BY <1>1, <1>2
       DEF Outbox!Enqueue, CommandsInv, Alone, OneLeased, PollsAlone, RunOut,
       Leased
  <1>9. IdleIsNew'
    BY DEF Outbox!Enqueue, CommandsInv, IdleIsNew
  <1>. QED BY <1>5, <1>6, <1>7, <1>8, <1>9 DEF CommandsInv

(* A lease that ends takes a command out of those that are leased.         *)
LEMMA EndLease ==
    ASSUME Outbox!OutboxAssumption, CommandsInv, UNCHANGED part,
           NEW c \in Commands, Leased(c),
           NEW s \in {"queued", "acked"},
           stored' = [stored EXCEPT ![c] = Outbox!Unleased(s, @.generation)],
           UNCHANGED created
    PROVE  /\ stored' \in [Commands -> Stored]
           /\ \A d \in Commands : stored'[d] =
                IF d = c THEN Outbox!Unleased(s, stored[c].generation)
                    ELSE stored[d]
           /\ stored'[c].status = s
           /\ stored'[c].generation = stored[c].generation
           /\ Outbox!LeaseEnds' /\ MadeOnce'
           /\ \A d \in Commands : Leased(d)' => d # c /\ Leased(d)
  <1>1. stored[c].generation \in Nat
    BY DEF CommandsInv, Outbox!TypeOK
  <1>. DEFINE new == Outbox!Unleased(s, stored[c].generation)
  <1>2. new \in Stored /\ new.status = s
            /\ new.generation = stored[c].generation
    BY <1>1, UnleasedType
  <1>3. \A d \in Commands : stored'[d] = IF d = c THEN new ELSE stored[d]
    BY DEF CommandsInv, Outbox!TypeOK
  <1>4. stored' \in [Commands -> Stored]
    BY <1>2 DEF CommandsInv, Outbox!TypeOK, Stored
  <1>. HIDE DEF new
  <1>5. Outbox!LeaseEnds'
    BY <1>2, <1>3 DEF CommandsInv, Outbox!LeaseEnds
  <1>6. MadeOnce'
    <2>1. \A i \in DOMAIN created : created[i] \in Commands
      BY DEF CommandsInv, Outbox!TypeOK
    <2>. QED BY <2>1, <1>2, <1>3 DEF CommandsInv, MadeOnce
  <1>7. \A d \in Commands : Leased(d)' => d # c /\ Leased(d)
    BY <1>2, <1>3 DEF Leased
  <1>. QED BY <1>2, <1>3, <1>4, <1>5, <1>6, <1>7 DEF new

(* What is queued again was leased, and nothing else changes.              *)
LEMMA RequeueKeeps ==
    ASSUME Outbox!OutboxAssumption, CommandsInv, UNCHANGED part,
           NEW c \in Commands, Leased(c), Outbox!Requeue(c),
           UNCHANGED <<created, arriving, held, ackedBy>>
    PROVE  /\ stored' \in [Commands -> Stored]
           /\ Outbox!AckIsOfLastLease' /\ Outbox!LeaseEnds' /\ MadeOnce'
           /\ \A d \in Commands : Leased(d)'
                  => d # c /\ Leased(d) /\ stored'[d] = stored[d]
  <1>1. stored' = [stored EXCEPT ![c] = Outbox!Unleased("queued", @.generation)]
    BY DEF Outbox!Requeue
  <1>2. /\ stored' \in [Commands -> Stored]
        /\ \A d \in Commands : stored'[d] =
             IF d = c THEN Outbox!Unleased("queued", stored[c].generation)
                 ELSE stored[d]
        /\ stored'[c].status = "queued"
        /\ Outbox!LeaseEnds' /\ MadeOnce'
        /\ \A d \in Commands : Leased(d)' => d # c /\ Leased(d)
    BY <1>1, EndLease
  <1>3. Outbox!AckIsOfLastLease'
    BY <1>2 DEF CommandsInv, Outbox!AckIsOfLastLease
  <1>. QED BY <1>2, <1>3

(* The sweep queues what has run out.                                      *)
LEMMA RequeueExpiredStep ==
    ASSUME Outbox!OutboxAssumption, CommandsInv, UNCHANGED part,
           Outbox!RequeueExpired
    PROVE  CommandsInv'
  <1>1. PICK c \in Outbox!Expired(0) : Outbox!Requeue(c)
    BY DEF Outbox!RequeueExpired
  <1>2. c \in Commands /\ Leased(c)
    BY <1>1 DEF Outbox!Expired, Leased
  <1>3. UNCHANGED <<created, poll, arriving, held, ackedBy>>
    BY DEF Outbox!RequeueExpired
  <1>4. /\ stored' \in [Commands -> Stored]
        /\ Outbox!AckIsOfLastLease' /\ Outbox!LeaseEnds' /\ MadeOnce'
        /\ \A d \in Commands : Leased(d)'
               => d # c /\ Leased(d) /\ stored'[d] = stored[d]
    BY <1>1, <1>2, <1>3, RequeueKeeps
  <1>5. Outbox!TypeOK'
    BY <1>3, <1>4 DEF CommandsInv, Outbox!TypeOK, Stored
  <1>6. part = "queue" => Alone'
    BY <1>3, <1>4 DEF CommandsInv, Alone, OneLeased, PollsAlone, RunOut
  <1>7. IdleIsNew'
    BY <1>3 DEF CommandsInv, IdleIsNew
  <1>. QED BY <1>4, <1>5, <1>6, <1>7 DEF CommandsInv

(* A poll begins when nothing else is at work and no lease is running.     *)
LEMMA PollCheckStep ==
    ASSUME Outbox!OutboxAssumption, CommandsInv, UNCHANGED part,
           NEW p \in Workers, Outbox!PollCheck(p)
    PROVE  CommandsInv'
  <1>1. /\ poll[p].pc = "idle" /\ Outbox!Live(0) = {}
        /\ (part = "queue" => Outbox!Quiet)
        /\ poll' = [poll EXCEPT ![p].pc = "requeue"]
        /\ UNCHANGED <<stored, created, arriving, held, ackedBy>>
    BY DEF Outbox!PollCheck
  <1>2. \A q \in Workers :
           poll'[q] = IF q = p THEN [poll[p] EXCEPT !.pc = "requeue"]
               ELSE poll[q]
    BY <1>1 DEF CommandsInv, Outbox!TypeOK
  <1>3. /\ poll'[p].pc = "requeue" /\ poll'[p].late = poll[p].late
        /\ poll'[p] \in [pc : {"idle", "requeue", "lease"}, late : 0 .. MaxLate]
    BY <1>2 DEF CommandsInv, Outbox!TypeOK
  <1>4. Outbox!TypeOK'
    BY <1>1, <1>2, <1>3 DEF CommandsInv, Outbox!TypeOK
  <1>5. Outbox!AckIsOfLastLease' /\ Outbox!LeaseEnds' /\ MadeOnce' /\ IdleIsNew'
    BY <1>1, <1>2, <1>3
       DEF CommandsInv, Outbox!AckIsOfLastLease, Outbox!LeaseEnds, MadeOnce,
       IdleIsNew
  <1>6. ASSUME part = "queue" PROVE Alone'
    <2>1. OneLeased'
      BY <1>1, <1>6 DEF CommandsInv, Alone, OneLeased, Leased
    <2>2. PollsAlone'
      BY <1>1, <1>2, <1>3, <1>6 DEF PollsAlone, Outbox!Quiet
    <2>3. poll[p].late = 0
      BY <1>1 DEF CommandsInv, IdleIsNew
    <2>4. \A c \in Commands : Leased(c) => stored[c].left <= 0
      BY <1>1
         DEF Outbox!Live, Leased, CommandsInv, Outbox!TypeOK,
         Outbox!OutboxAssumption
    <2>5. RunOut'
      BY <1>1, <1>2, <1>3, <1>6, <2>3, <2>4 DEF RunOut, Leased, Outbox!Quiet
    <2>. QED BY <2>1, <2>2, <2>5 DEF Alone
  <1>. QED BY <1>4, <1>5, <1>6 DEF CommandsInv

(* If one call is made at a time, the poll that queues what has run out    *)
(* leaves nothing leased.                                                  *)
LEMMA PollRequeueStep ==
    ASSUME Outbox!OutboxAssumption, CommandsInv, UNCHANGED part,
           NEW p \in Workers, Outbox!PollRequeue(p)
    PROVE  CommandsInv'
  <1>1. /\ poll[p].pc = "requeue" /\ poll' = [poll EXCEPT ![p].pc = "lease"]
        /\ UNCHANGED <<created, arriving, held, ackedBy>>
    BY DEF Outbox!PollRequeue
  <1>2. \A q \in Workers :
           poll'[q] = IF q = p THEN [poll[p] EXCEPT !.pc = "lease"] ELSE poll[q]
    BY <1>1 DEF CommandsInv, Outbox!TypeOK
  <1>3. /\ poll'[p].pc = "lease"
        /\ poll'[p] \in [pc : {"idle", "requeue", "lease"}, late : 0 .. MaxLate]
    BY <1>2 DEF CommandsInv, Outbox!TypeOK
  <1>4. poll' \in [Workers -> [pc : {"idle", "requeue", "lease"}, late :
            0 .. MaxLate]]
    BY <1>1, <1>3 DEF CommandsInv, Outbox!TypeOK
  <1>5. IdleIsNew'
    BY <1>2, <1>3 DEF CommandsInv, IdleIsNew
  <1>6. ASSUME part = "queue" PROVE PollsAlone'
    BY <1>1, <1>2, <1>3, <1>6 DEF CommandsInv, Alone, PollsAlone
  <1>7. ASSUME part = "queue", NEW c \in Commands, Leased(c)
        PROVE  c \in Outbox!Expired(poll[p].late)
    BY <1>1, <1>7 DEF CommandsInv, Alone, RunOut, Leased, Outbox!Expired
  <1>8. CASE Outbox!Expired(poll[p].late) = {} /\ UNCHANGED stored
    <2>1. Outbox!TypeOK' /\ Outbox!AckIsOfLastLease' /\ Outbox!LeaseEnds'
              /\ MadeOnce'
      BY <1>1, <1>4, <1>8
         DEF CommandsInv, Outbox!TypeOK, Outbox!AckIsOfLastLease,
         Outbox!LeaseEnds, MadeOnce
    <2>2. ASSUME part = "queue" PROVE \A c \in Commands : ~Leased(c)'
      BY <1>7, <1>8, <2>2 DEF Leased
    <2>. QED BY <1>5, <1>6, <2>1, <2>2 DEF CommandsInv, Alone, OneLeased, RunOut
  <1>9. CASE \E c \in Outbox!Expired(poll[p].late) : Outbox!Requeue(c)
    <2>1. PICK c \in Outbox!Expired(poll[p].late) : Outbox!Requeue(c)
      BY <1>9
    <2>2. c \in Commands /\ Leased(c)
      BY <2>1 DEF Outbox!Expired, Leased
    <2>3. /\ stored' \in [Commands -> Stored]
          /\ Outbox!AckIsOfLastLease' /\ Outbox!LeaseEnds' /\ MadeOnce'
          /\ \A d \in Commands : Leased(d)' => d # c /\ Leased(d)
      BY <1>1, <2>1, <2>2, RequeueKeeps
    <2>4. Outbox!TypeOK'
      BY <1>1, <1>4, <2>3 DEF CommandsInv, Outbox!TypeOK, Stored
    <2>5. ASSUME part = "queue" PROVE \A d \in Commands : ~Leased(d)'
      BY <2>2, <2>3, <2>5 DEF CommandsInv, Alone, OneLeased
    <2>. QED BY <1>5, <1>6, <2>3, <2>4, <2>5
                DEF CommandsInv, Alone, OneLeased, RunOut
  <1>. QED BY <1>8, <1>9 DEF Outbox!PollRequeue

(* The command a poll leases is queued.                                    *)
LEMMA NextIsQueued ==
    ASSUME CommandsInv, NEW c \in Outbox!NextQueued
    PROVE  c \in Commands /\ stored[c].status = "queued"
  BY DEF Outbox!NextQueued, Outbox!IsQueued, CommandsInv, Outbox!TypeOK

(* It is the only one that is leased then, and the poll is over.           *)
LEMMA PollLeaseStep ==
    ASSUME Outbox!OutboxAssumption, CommandsInv, UNCHANGED part,
           NEW p \in Workers, Outbox!PollLease(p)
    PROVE  CommandsInv'
  <1>1. PICK c \in Outbox!NextQueued :
          /\ poll[p].pc = "lease"
          /\ stored' = [stored EXCEPT
               ![c] = [status |-> "leased", generation |-> @.generation + 1,
                       left |-> Lease - poll[p].late, age |-> poll[p].late]]
          /\ held' \in {held, held \cup {[command |-> c,
                                         generation |-> stored[c].generation + 1]}}
          /\ poll' = [poll EXCEPT ![p] = Outbox!NoPoll]
          /\ UNCHANGED <<created, arriving, ackedBy>>
    BY DEF Outbox!PollLease
  <1>2. c \in Commands /\ stored[c].status = "queued"
    BY <1>1, NextIsQueued
  <1>3. stored[c].generation \in Nat /\ poll[p].late \in 0 .. MaxLate
    BY <1>2 DEF CommandsInv, Outbox!TypeOK
  <1>. DEFINE new ==
           [status |-> "leased", generation |-> stored[c].generation + 1,
                      left |-> Lease - poll[p].late, age |-> poll[p].late]
  <1>4. /\ new \in Stored /\ new.status = "leased"
        /\ new.left + new.age <= MaxLifetime
    BY <1>3 DEF Stored, Outbox!OutboxAssumption
  <1>5. \A d \in Commands : stored'[d] = IF d = c THEN new ELSE stored[d]
    BY <1>1, <1>2 DEF CommandsInv, Outbox!TypeOK
  <1>6. stored' \in [Commands -> Stored]
    BY <1>1, <1>4 DEF CommandsInv, Outbox!TypeOK, Stored
  <1>. HIDE DEF new
  <1>7. \A q \in Workers : poll'[q] = IF q = p THEN Outbox!NoPoll ELSE poll[q]
    BY <1>1 DEF CommandsInv, Outbox!TypeOK
  <1>8. /\ Outbox!NoPoll.pc = "idle" /\ Outbox!NoPoll.late = 0
        /\ Outbox!NoPoll
               \in [pc : {"idle", "requeue", "lease"}, late : 0 .. MaxLate]
    BY DEF Outbox!NoPoll, Outbox!OutboxAssumption
  <1>9. Outbox!TypeOK'
    <2>1. held' \subseteq Outbox!LeaseName
      BY <1>1, <1>2, <1>3 DEF CommandsInv, Outbox!TypeOK, Outbox!LeaseName
    <2>2. poll' \in [Workers -> [pc : {"idle", "requeue", "lease"}, late :
              0 .. MaxLate]]
      BY <1>1, <1>8 DEF CommandsInv, Outbox!TypeOK
    <2>. QED BY <1>1, <1>6, <2>1, <2>2 DEF CommandsInv, Outbox!TypeOK, Stored
  <1>10. Outbox!AckIsOfLastLease' /\ Outbox!LeaseEnds' /\ IdleIsNew'
    BY <1>1, <1>4, <1>5, <1>7, <1>8
       DEF CommandsInv, Outbox!AckIsOfLastLease, Outbox!LeaseEnds, IdleIsNew
  <1>11. MadeOnce'
    <2>1. \A i \in DOMAIN created : created[i] \in Commands
      BY DEF CommandsInv, Outbox!TypeOK
    <2>. QED BY <2>1, <1>1, <1>4, <1>5 DEF CommandsInv, MadeOnce
  <1>12. ASSUME part = "queue" PROVE Alone'
    <2>1. \A d \in Commands : Leased(d)' => d = c
      BY <1>1, <1>5, <1>12 DEF CommandsInv, Alone, RunOut, Leased
    <2>2. \A q \in Workers : poll'[q].pc = "idle"
      BY <1>1, <1>7, <1>8, <1>12 DEF CommandsInv, Alone, PollsAlone
    <2>. QED BY <2>1, <2>2 DEF Alone, OneLeased, PollsAlone, RunOut
  <1>. QED BY <1>9, <1>10, <1>11, <1>12 DEF CommandsInv

(* A poll that ends leaves the commands alone.                             *)
LEMMA PollEndsStep ==
    ASSUME Outbox!OutboxAssumption, CommandsInv, UNCHANGED part,
           NEW p \in Workers, Outbox!PollEnds(p)
    PROVE  CommandsInv'
  <1>1. /\ poll' = [poll EXCEPT ![p] = Outbox!NoPoll]
        /\ UNCHANGED <<stored, created, arriving, held, ackedBy>>
    BY DEF Outbox!PollEnds
  <1>2. \A q \in Workers : poll'[q] = IF q = p THEN Outbox!NoPoll ELSE poll[q]
    BY <1>1 DEF CommandsInv, Outbox!TypeOK
  <1>3. /\ Outbox!NoPoll.pc = "idle" /\ Outbox!NoPoll.late = 0
        /\ Outbox!NoPoll
               \in [pc : {"idle", "requeue", "lease"}, late : 0 .. MaxLate]
    BY DEF Outbox!NoPoll, Outbox!OutboxAssumption
  <1>4. Outbox!TypeOK'
    BY <1>1, <1>3 DEF CommandsInv, Outbox!TypeOK
  <1>5. Outbox!AckIsOfLastLease' /\ Outbox!LeaseEnds' /\ MadeOnce' /\ IdleIsNew'
    BY <1>1, <1>2, <1>3
       DEF CommandsInv, Outbox!AckIsOfLastLease, Outbox!LeaseEnds, MadeOnce,
       IdleIsNew
  <1>6. ASSUME part = "queue" PROVE Alone'
    BY <1>1, <1>2, <1>3, <1>6
       DEF CommandsInv, Alone, OneLeased, PollsAlone, RunOut, Leased
  <1>. QED BY <1>4, <1>5, <1>6 DEF CommandsInv
-----------------------------------------------------------------------------

(* Nothing changes but calls, and none is there while a poll is at work.   *)
LEMMA SendStep ==
    ASSUME Outbox!OutboxAssumption, CommandsInv, UNCHANGED part,
           NEW lease \in held, NEW op \in {"ack", "renew"},
           Outbox!Send(op, lease)
    PROVE  CommandsInv'
  <1>1. /\ arriving' = arriving \cup {[op |-> op, lease |-> lease, late |-> 0]}
        /\ part = "queue" => Outbox!Quiet
        /\ UNCHANGED <<stored, created, poll, held, ackedBy>>
    BY DEF Outbox!Send
  <1>2. Outbox!TypeOK'
    BY <1>1 DEF CommandsInv, Outbox!TypeOK, Outbox!OutboxAssumption
  <1>3. Outbox!AckIsOfLastLease' /\ Outbox!LeaseEnds' /\ MadeOnce' /\ IdleIsNew'
    BY <1>1
       DEF CommandsInv, Outbox!AckIsOfLastLease, Outbox!LeaseEnds, MadeOnce,
       IdleIsNew
  <1>4. ASSUME part = "queue" PROVE Alone'
    BY <1>1, <1>4
       DEF CommandsInv, Alone, OneLeased, PollsAlone, RunOut, Leased,
       Outbox!Quiet
  <1>. QED BY <1>2, <1>3, <1>4 DEF CommandsInv

(* A call is about a command and a generation.                             *)
LEMMA CallType ==
    ASSUME Outbox!OutboxAssumption, CommandsInv, NEW req \in arriving
    PROVE  /\ req.lease.command \in Commands /\ req.lease.generation \in Nat
           /\ req.late \in 0 .. MaxLate
  BY DEF CommandsInv, Outbox!TypeOK, Outbox!LeaseName

(* An acknowledgement ends the lease it is of, and no other.               *)
LEMMA AcknowledgeStep ==
    ASSUME Outbox!OutboxAssumption, CommandsInv, UNCHANGED part,
           NEW req \in arriving, Outbox!Acknowledge(req)
    PROVE  CommandsInv'
  <1>. DEFINE c == req.lease.command
  <1>1. c \in Commands /\ req.lease.generation \in Nat
    BY CallType
  <1>2. /\ arriving' = arriving \ {req} /\ held' \subseteq held
        /\ UNCHANGED <<created, poll>>
    BY DEF Outbox!Acknowledge
  <1>3. IdleIsNew'
    BY <1>2 DEF CommandsInv, IdleIsNew
  <1>4. part = "queue" => \A p \in Workers : poll'[p].pc = "idle"
    BY <1>2 DEF CommandsInv, Alone, PollsAlone
  <1>5. CASE Outbox!Holds(req)
    <2>1. /\ stored' = [stored EXCEPT ![c]
                 = Outbox!Unleased("acked", @.generation)]
          /\ ackedBy' = [ackedBy EXCEPT ![c] = req.lease.generation]
      BY <1>5 DEF Outbox!Acknowledge
    <2>2. Leased(c) /\ stored[c].generation = req.lease.generation
      BY <1>5 DEF Outbox!Holds, Leased
    <2>3. /\ stored' \in [Commands -> Stored]
          /\ \A d \in Commands : stored'[d] =
               IF d = c THEN Outbox!Unleased("acked", stored[c].generation)
                   ELSE stored[d]
          /\ stored'[c].generation = stored[c].generation
          /\ Outbox!LeaseEnds' /\ MadeOnce'
          /\ \A d \in Commands : Leased(d)' => d # c /\ Leased(d)
      BY <1>1, <1>2, <2>1, <2>2, EndLease
    <2>4. \A d \in Commands :
             ackedBy'[d] = IF d = c THEN req.lease.generation ELSE ackedBy[d]
      BY <2>1 DEF CommandsInv, Outbox!TypeOK
    <2>5. ackedBy' \in [Commands -> Nat]
      BY <1>1, <2>1 DEF CommandsInv, Outbox!TypeOK
    <2>. HIDE DEF c
    <2>6. Outbox!AckIsOfLastLease'
      BY <2>2, <2>3, <2>4 DEF CommandsInv, Outbox!AckIsOfLastLease
    <2>7. Outbox!TypeOK'
      BY <1>2, <2>3, <2>5 DEF CommandsInv, Outbox!TypeOK, Stored
    <2>8. part = "queue" => Alone'
      BY <1>4, <2>3 DEF CommandsInv, Alone, OneLeased, PollsAlone, RunOut
    <2>. QED BY <1>3, <2>3, <2>6, <2>7, <2>8 DEF CommandsInv
  <1>6. CASE ~Outbox!Holds(req)
    <2>1. UNCHANGED <<stored, ackedBy>>
      BY <1>6 DEF Outbox!Acknowledge
    <2>2. Outbox!TypeOK'
      BY <1>2, <2>1 DEF CommandsInv, Outbox!TypeOK
    <2>3. Outbox!AckIsOfLastLease' /\ Outbox!LeaseEnds' /\ MadeOnce'
      BY <1>2, <2>1
         DEF CommandsInv, Outbox!AckIsOfLastLease, Outbox!LeaseEnds, MadeOnce
    <2>4. part = "queue" => Alone'
      BY <1>4, <2>1
         DEF CommandsInv, Alone, OneLeased, PollsAlone, RunOut, Leased
    <2>. QED BY <1>3, <2>2, <2>3, <2>4 DEF CommandsInv
  <1>. QED BY <1>5, <1>6

(* A renewed lease ends a lease from now, or at its maximum.               *)
LEMMA RenewStep ==
    ASSUME Outbox!OutboxAssumption, CommandsInv, UNCHANGED part,
           NEW req \in arriving, Outbox!Renew(req)
    PROVE  CommandsInv'
  <1>. DEFINE c == req.lease.command
              r == Outbox!Renewed(c, req.late)
  <1>1. c \in Commands /\ req.late \in 0 .. MaxLate
    BY CallType
  <1>2. /\ arriving' = arriving \ {req}
        /\ UNCHANGED <<created, poll, held, ackedBy>>
        /\ \/ stored' = stored
           \/ r > -req.late /\ stored' = [stored EXCEPT ![c].left = r]
    BY DEF Outbox!Renew
  <1>3. part = "queue" => \A p \in Workers : poll'[p].pc = "idle"
    BY <1>2 DEF CommandsInv, Alone, PollsAlone
  <1>4. stored[c] \in Stored
    BY <1>1 DEF CommandsInv, Outbox!TypeOK, Stored
  <1>5. r \in Int /\ r <= Lease /\ r + stored[c].age <= MaxLifetime
    BY <1>1, <1>4 DEF Outbox!Renewed, Stored, Outbox!OutboxAssumption
  <1>. HIDE DEF r, c
  <1>6. /\ stored' \in [Commands -> Stored]
        /\ \A d \in Commands :
             /\ stored'[d].status = stored[d].status
             /\ stored'[d].generation = stored[d].generation
             /\ \/ stored'[d] = stored[d]
                \/ d = c /\ stored'[d].left = r
                       /\ stored'[d].age = stored[d].age
    <2>1. CASE stored' = stored
      BY <2>1 DEF CommandsInv, Outbox!TypeOK, Stored
    <2>2. CASE r > -req.late /\ stored' = [stored EXCEPT ![c].left = r]
      <3>1. r \in -MaxLate .. Lease
        BY <1>1, <1>5, <2>2 DEF Outbox!OutboxAssumption
      <3>2. stored \in [Commands -> Stored]
        BY DEF CommandsInv, Outbox!TypeOK, Stored
      <3>3. [stored[c] EXCEPT !.left = r] \in Stored
        BY <1>4, <3>1 DEF Stored
      <3>4. stored' = [stored EXCEPT ![c] = [stored[c] EXCEPT !.left = r]]
        BY <1>1, <2>2, <3>2
      <3>5. stored' \in [Commands -> Stored]
        BY <3>2, <3>3, <3>4
      <3>6. \A d \in Commands :
               stored'[d] = IF d = c THEN [stored[c] EXCEPT !.left = r]
                   ELSE stored[d]
        BY <3>2, <3>4
      <3>. QED BY <1>1, <1>4, <3>5, <3>6 DEF Stored
    <2>. QED BY <1>2, <2>1, <2>2
  <1>7. Outbox!TypeOK'
    BY <1>2, <1>6 DEF CommandsInv, Outbox!TypeOK, Stored
  <1>8. Outbox!AckIsOfLastLease' /\ Outbox!LeaseEnds' /\ IdleIsNew'
    BY <1>2, <1>5, <1>6
       DEF CommandsInv, Outbox!AckIsOfLastLease, Outbox!LeaseEnds, IdleIsNew
  <1>9. MadeOnce'
    <2>1. \A i \in DOMAIN created : created[i] \in Commands
      BY DEF CommandsInv, Outbox!TypeOK
    <2>. QED BY <1>2, <1>6, <2>1 DEF CommandsInv, MadeOnce
  <1>10. part = "queue" => Alone'
    BY <1>3, <1>6 DEF CommandsInv, Alone, OneLeased, PollsAlone, RunOut, Leased
  <1>. QED BY <1>7, <1>8, <1>9, <1>10 DEF CommandsInv

(* An agent that restarts forgets, and no more.                            *)
LEMMA AgentRestartsStep ==
    ASSUME CommandsInv, UNCHANGED part, Outbox!AgentRestarts PROVE CommandsInv'
  BY DEF Outbox!AgentRestarts, CommandsInv, Outbox!TypeOK,
     Outbox!AckIsOfLastLease, Outbox!LeaseEnds, MadeOnce,
         IdleIsNew, Alone, OneLeased, PollsAlone, RunOut, Leased

(* Time passes for a lease as it does for the call that found it run out.  *)
LEMMA AgentsTickStep ==
    ASSUME Outbox!OutboxAssumption, CommandsInv, UNCHANGED part, Outbox!Tick
    PROVE  CommandsInv'
  <1>1. /\ \A p \in Workers : poll[p].pc # "idle" => poll[p].late < MaxLate
        /\ \A req \in arriving : req.late < MaxLate
        /\ UNCHANGED <<created, held, ackedBy>>
    BY DEF Outbox!Tick
  <1>2. \A p \in Workers : poll'[p] = IF poll[p].pc = "idle" THEN poll[p]
                                      ELSE [poll[p] EXCEPT !.late = @ + 1]
    BY DEF Outbox!Tick
  <1>3. arriving' = {[req EXCEPT !.late = @ + 1] : req \in arriving}
    BY DEF Outbox!Tick
  <1>4. \A c \in Commands : stored'[c] =
           IF stored[c].status = "leased" THEN Outbox!Older(stored[c])
               ELSE stored[c]
    BY DEF Outbox!Tick
  <1>5. \A d \in Stored :
           /\ Outbox!Older(d) \in Stored
           /\ Outbox!Older(d).status = d.status
           /\ Outbox!Older(d).generation = d.generation
           /\ d.left + d.age <= MaxLifetime =>
                 Outbox!Older(d).left + Outbox!Older(d).age <= MaxLifetime
           /\ Outbox!Older(d).left =
                IF d.left > -MaxLate THEN d.left - 1 ELSE d.left
    BY DEF Outbox!Older, Stored, Outbox!OutboxAssumption
  <1>6. \A c \in Commands : stored[c] \in Stored
    BY DEF CommandsInv, Outbox!TypeOK, Stored
  <1>7. \A c \in Commands :
           /\ stored'[c] \in Stored
           /\ stored'[c].status = stored[c].status
           /\ stored'[c].generation = stored[c].generation
    BY <1>4, <1>5, <1>6
  <1>8. \A p \in Workers :
           /\ poll'[p]
                  \in [pc : {"idle", "requeue", "lease"}, late : 0 .. MaxLate]
           /\ poll'[p].pc = poll[p].pc
           /\ poll[p].pc = "idle" => poll'[p].late = poll[p].late
           /\ poll[p].pc # "idle" => poll'[p].late = poll[p].late + 1
    <2>. SUFFICES ASSUME NEW p \in Workers
                  PROVE  /\ poll'[p] \in [pc : {"idle", "requeue", "lease"},
                                          late : 0 .. MaxLate]
                         /\ poll'[p].pc = poll[p].pc
                         /\ poll[p].pc = "idle" => poll'[p].late = poll[p].late
                         /\ poll[p].pc # "idle"
                                => poll'[p].late = poll[p].late + 1
      OBVIOUS
    <2>1. poll[p] \in [pc : {"idle", "requeue", "lease"}, late : 0 .. MaxLate]
      BY DEF CommandsInv, Outbox!TypeOK
    <2>2. CASE poll[p].pc = "idle"
      BY <1>2, <2>1, <2>2
    <2>3. CASE poll[p].pc # "idle"
      <3>1. poll[p].late + 1 \in 0 .. MaxLate
        BY <1>1, <2>1, <2>3 DEF Outbox!OutboxAssumption
      <3>2. poll'[p] = [poll[p] EXCEPT !.late = poll[p].late + 1]
        BY <1>2, <2>3
      <3>. QED BY <2>1, <2>3, <3>1, <3>2
    <2>. QED BY <2>2, <2>3
  <1>9. Outbox!TypeOK'
    <2>1. stored' \in [Commands -> Stored]
      BY <1>7 DEF Outbox!Tick
    <2>2. poll' \in [Workers -> [pc : {"idle", "requeue", "lease"}, late :
              0 .. MaxLate]]
      <3>1. poll' = [p \in Workers |-> poll'[p]]
        BY DEF Outbox!Tick
      <3>. QED BY <1>8, <3>1
    <2>3. arriving'
              \subseteq [op : {"ack", "renew"}, lease : Outbox!LeaseName, late :
                  0 .. MaxLate]
      <3>1. ASSUME NEW req \in arriving
            PROVE  [req EXCEPT !.late = @ + 1] \in
                     [op : {"ack", "renew"}, lease : Outbox!LeaseName, late :
                         0 .. MaxLate]
        <4>1. /\ req \in [op : {"ack", "renew"}, lease : Outbox!LeaseName,
                     late : 0 .. MaxLate]
              /\ req.late + 1 \in 0 .. MaxLate
          BY <1>1 DEF CommandsInv, Outbox!TypeOK, Outbox!OutboxAssumption
        <4>. QED BY <4>1
      <3>. QED BY <1>3, <3>1
    <2>. QED BY <1>1, <2>1, <2>2, <2>3 DEF CommandsInv, Outbox!TypeOK, Stored
  <1>10. Outbox!AckIsOfLastLease' /\ Outbox!LeaseEnds' /\ IdleIsNew'
    BY <1>1, <1>4, <1>5, <1>6, <1>7, <1>8
       DEF CommandsInv, Outbox!AckIsOfLastLease, Outbox!LeaseEnds, IdleIsNew
  <1>11. MadeOnce'
    <2>1. \A i \in DOMAIN created : created[i] \in Commands
      BY DEF CommandsInv, Outbox!TypeOK
    <2>. QED BY <1>1, <1>7, <2>1 DEF CommandsInv, MadeOnce
  <1>12. ASSUME part = "queue" PROVE Alone'
    <2>1. OneLeased'
      BY <1>7, <1>12 DEF CommandsInv, Alone, OneLeased, Leased
    <2>2. PollsAlone'
      BY <1>3, <1>8, <1>12 DEF CommandsInv, Alone, PollsAlone
    <2>3. RunOut'
      <3>. SUFFICES ASSUME NEW p \in Workers, NEW c \in Commands, Leased(c)'
                    PROVE  /\ poll'[p].pc # "lease"
                           /\ poll'[p].pc = "requeue"
                                  => stored'[c].left <= -poll'[p].late
        BY DEF RunOut
      <3>1. Leased(c)
        BY <1>7 DEF Leased
      <3>2. /\ poll[p].pc # "lease"
            /\ poll[p].pc = "requeue" => stored[c].left <= -poll[p].late
        BY <1>12, <3>1 DEF CommandsInv, Alone, RunOut
      <3>3. stored'[c].left =
              IF stored[c].left > -MaxLate THEN stored[c].left - 1
                  ELSE stored[c].left
        BY <1>4, <1>5, <1>6, <3>1 DEF Leased
      <3>4. /\ stored[c].left \in -MaxLate .. Lease
            /\ poll[p].late \in 0 .. MaxLate
        BY DEF CommandsInv, Outbox!TypeOK
      <3>. QED BY <1>1, <1>8, <3>2, <3>3, <3>4 DEF Outbox!OutboxAssumption
    <2>. QED BY <2>1, <2>2, <2>3 DEF Alone
  <1>. QED BY <1>9, <1>10, <1>11, <1>12 DEF CommandsInv
-----------------------------------------------------------------------------

(* No step of a queue leaves it in disorder.                               *)
LEMMA CommandsNext ==
    ASSUME Outbox!OutboxAssumption, CommandsInv, UNCHANGED part,
           [Outbox!Next]_(Outbox!vars)
    PROVE  CommandsInv'
  <1>1. CASE UNCHANGED Outbox!vars
    BY <1>1
       DEF Outbox!vars, CommandsInv, Outbox!TypeOK, Outbox!AckIsOfLastLease,
           Outbox!LeaseEnds, MadeOnce, IdleIsNew, Alone, OneLeased, PollsAlone,
           RunOut, Leased
  <1>2. CASE Outbox!Next
    BY <1>2, EnqueueStep, PollCheckStep, PollRequeueStep, PollLeaseStep,
       PollEndsStep, SendStep, AcknowledgeStep, RenewStep, RequeueExpiredStep,
       AgentRestartsStep, AgentsTickStep DEF Outbox!Next
  <1>. QED BY <1>1, <1>2

LEMMA CardinalityIsSame == \A S : Outbox!Cardinality(S) = Cardinality(S)
  BY DEF Outbox!Cardinality, Cardinality

(* A set of leases that are all the same lease.                            *)
LEMMA OneLeasedIsOneLease == ASSUME OneLeased PROVE Outbox!OneLease
  <1>1. Outbox!Cardinality({}) = 0 /\ \A x : Outbox!Cardinality({x}) = 1
    BY FS_EmptySet, FS_Singleton, CardinalityIsSame
  <1>2. CASE Outbox!Live(0) = {}
    BY <1>1, <1>2 DEF Outbox!OneLease
  <1>3. CASE Outbox!Live(0) # {}
    <2>1. PICK c \in Outbox!Live(0) : TRUE
      BY <1>3
    <2>2. Outbox!Live(0) = {c}
      BY <2>1 DEF Outbox!Live, OneLeased, Leased
    <2>3. Outbox!Cardinality({c}) = 1
      BY <1>1
    <2>4. Outbox!Cardinality(Outbox!Live(0)) = 1
      BY <2>2, <2>3, Zenon
    <2>. QED BY <2>4 DEF Outbox!OneLease
  <1>. QED BY <1>2, <1>3

LEMMA CommandsMean == CommandsInv => Outbox!OutboxInv
  BY OneLeasedIsOneLease DEF CommandsInv, Outbox!OutboxInv, Alone

(* What a command is leased after is acknowledged.                         *)
LEMMA LeasedInOrder ==
    ASSUME part = "queue", CommandsInv, NEW p \in Workers, Outbox!PollLease(p)
    PROVE  Outbox!HandsOutInOrder
  <1>1. PICK c \in Outbox!NextQueued :
          /\ poll[p].pc = "lease"
          /\ stored' = [stored EXCEPT
               ![c] = [status |-> "leased", generation |-> @.generation + 1,
                       left |-> Lease - poll[p].late, age |-> poll[p].late]]
    BY DEF Outbox!PollLease
  <1>2. PICK k \in DOMAIN created :
          /\ c = created[k]
          /\ \A j \in DOMAIN created : j < k
                 => stored[created[j]].status # "queued"
    BY DEF Outbox!NextQueued, Outbox!IsQueued
  <1>3. \A i \in DOMAIN created : created[i] \in Commands
    BY DEF CommandsInv, Outbox!TypeOK
  <1>4. \A d \in Commands : d # c => stored'[d] = stored[d]
    BY <1>1 DEF CommandsInv, Outbox!TypeOK
  <1>5. \A j \in DOMAIN created : j < k => stored[created[j]].status = "acked"
    <2>1. \A d \in Commands : stored[d].status # "leased"
      BY <1>1 DEF CommandsInv, Alone, RunOut, Leased
    <2>2. \A d \in Commands :
              stored[d].status \in {"none", "queued", "leased", "acked"}
      BY DEF CommandsInv, Outbox!TypeOK
    <2>. QED BY <1>2, <1>3, <2>1, <2>2 DEF CommandsInv, MadeOnce
  <1>6. ASSUME NEW i \in DOMAIN created,
               stored'[created[i]].generation # stored[created[i]].generation
        PROVE  i = k
    BY <1>2, <1>3, <1>4, <1>6 DEF CommandsInv, MadeOnce
  <1>7. DOMAIN created = 1 .. Len(created) /\ Len(created) \in Nat
    BY DEF CommandsInv, Outbox!TypeOK
  <1>. QED BY <1>5, <1>6, <1>7 DEF Outbox!HandsOutInOrder

(* Nothing but a poll makes a generation.                                  *)
LEMMA StepInOrder ==
    ASSUME Outbox!OutboxAssumption, part = "queue", CommandsInv,
           [Outbox!Next]_(Outbox!vars)
    PROVE  Outbox!HandsOutInOrder
  <1>0. \A i \in DOMAIN created : created[i] \in Commands
    BY DEF CommandsInv, Outbox!TypeOK
  <1>. DEFINE Same == \A i \in DOMAIN created :
                stored'[created[i]].generation = stored[created[i]].generation
  <1>1. Same => Outbox!HandsOutInOrder
    BY DEF Outbox!HandsOutInOrder
  <1>2. UNCHANGED stored => Same
    OBVIOUS
  <1>3. ASSUME NEW c \in Commands, Outbox!Enqueue(c) PROVE Same
    <2>1. \A d \in Commands : d # c => stored'[d] = stored[d]
      BY <1>3 DEF Outbox!Enqueue, CommandsInv, Outbox!TypeOK
    <2>2. \A i \in DOMAIN created : created[i] # c
      BY <1>3 DEF Outbox!Enqueue, CommandsInv, MadeOnce
    <2>. QED BY <1>0, <2>1, <2>2
  <1>4. ASSUME NEW c \in Commands, NEW s \in {"queued", "acked"},
               stored' = [stored EXCEPT ![c] = Outbox!Unleased(s, @.generation)]
        PROVE  Same
    BY <1>0, <1>4 DEF Outbox!Unleased, CommandsInv, Outbox!TypeOK
  <1>5. ASSUME NEW late, NEW c \in Outbox!Expired(late), Outbox!Requeue(c)
        PROVE  Same
    BY <1>4, <1>5 DEF Outbox!Requeue, Outbox!Expired
  <1>6. ASSUME NEW req \in arriving, Outbox!Acknowledge(req) PROVE Same
    BY <1>2, <1>4, <1>6, CallType DEF Outbox!Acknowledge
  <1>7. ASSUME NEW req \in arriving, Outbox!Renew(req) PROVE Same
    <2>1. CASE stored' = stored
      BY <2>1
    <2>2. CASE stored' = [stored EXCEPT ![req.lease.command].left =
                            Outbox!Renewed(req.lease.command, req.late)]
      BY <1>0, <2>2 DEF CommandsInv, Outbox!TypeOK
    <2>. QED BY <1>7, <2>1, <2>2 DEF Outbox!Renew
  <1>8. ASSUME Outbox!Tick PROVE Same
    BY <1>0, <1>8 DEF Outbox!Tick, Outbox!Older, CommandsInv, Outbox!TypeOK
  <1>9. ASSUME NEW p \in Workers, Outbox!PollRequeue(p) PROVE Same
    BY <1>2, <1>5, <1>9 DEF Outbox!PollRequeue
  <1>10. CASE \E p \in Workers : Outbox!PollLease(p)
    BY <1>10, LeasedInOrder
  <1>11. CASE Outbox!RequeueExpired
    BY <1>1, <1>5, <1>11 DEF Outbox!RequeueExpired
  <1>12. CASE UNCHANGED Outbox!vars
    BY <1>1, <1>2, <1>12 DEF Outbox!vars
  <1>13. CASE \/ \E p \in Workers : Outbox!PollCheck(p) \/ Outbox!PollEnds(p)
              \/ \E lease \in held, op \in {"ack", "renew"} :
                     Outbox!Send(op, lease)
              \/ Outbox!AgentRestarts
    BY <1>1, <1>2, <1>13
       DEF Outbox!PollCheck, Outbox!PollEnds, Outbox!Send, Outbox!AgentRestarts
  <1>. HIDE DEF Same
  <1>. QED BY <1>1, <1>3, <1>6, <1>7, <1>8, <1>9, <1>10, <1>11, <1>12,
              <1>13 DEF Outbox!Next

(* At first there is no command, whatever is looked at.                    *)
QueueHolds == part \in {"queue", "polls"} => CommandsInv

LEMMA OutboxInit == MCInit => QueueHolds
  BY QueueAssumption, CommandsInit DEF MCInit, QueueHolds

LEMMA OutboxNext == QueueHolds /\ [MCNext]_MCVars => QueueHolds'
  <1>. SUFFICES ASSUME QueueHolds, [MCNext]_MCVars, part' \in {"queue", "polls"}
                PROVE  CommandsInv'
    BY DEF QueueHolds
  <1>1. /\ part' = part /\ CommandsInv
        /\ Outbox!Next \/ UNCHANGED outboxVars
    BY DEF QueueHolds, MCNext, MCVars
  <1>2. [Outbox!Next]_(Outbox!vars)
    BY <1>1 DEF outboxVars, Outbox!vars
  <1>. QED BY <1>1, <1>2, QueueAssumption, CommandsNext

(* The commands of a node that MCSharedHosting checks, for any number of   *)
(* commands and calls and any length of a lease: only the last lease of a  *)
(* command acknowledges it, none is renewed past its maximum, and an agent *)
(* that makes one call at a time has one lease, whatever its calls and the *)
(* sweep do and however late they are ("if (current) return undefined",    *)
(* sharedNodeTransport.ts:514).                                            *)
THEOREM OutboxHolds == MCSpec => []OutboxInv
  <1>1. QueueHolds => OutboxInv
    BY CommandsMean DEF QueueHolds, OutboxInv
  <1>. QED BY OutboxInit, OutboxNext, <1>1, PTL DEF MCSpec, MCVars

LEMMA OrderedStep ==
    QueueHolds /\ [MCNext]_MCVars
    => [part = "queue" => Outbox!HandsOutInOrder]_outboxVars
  <1>. SUFFICES ASSUME QueueHolds, [MCNext]_MCVars, part = "queue",
                       ~UNCHANGED outboxVars
                PROVE  Outbox!HandsOutInOrder
    OBVIOUS
  <1>1. CommandsInv /\ Outbox!Next
    BY DEF QueueHolds, MCNext, MCVars
  <1>. QED BY <1>1, QueueAssumption, StepInOrder

(* "ordered": commands are handed out in the order they were made, and     *)
(* none before those made before it are acknowledged, to an agent that     *)
(* makes one call at a time.                                               *)
THEOREM OrderedCommands ==
    MCSpec => [][part = "queue" => Outbox!HandsOutInOrder]_outboxVars
  <1>1. [MCNext]_MCVars /\ QueueHolds
        => [part = "queue" => Outbox!HandsOutInOrder]_outboxVars
    BY OrderedStep
  <1>. QED BY OutboxInit, OutboxNext, <1>1, PTL DEF MCSpec, MCVars
=============================================================================
