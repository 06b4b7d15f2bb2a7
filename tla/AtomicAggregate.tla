--------------------------- MODULE AtomicAggregate ---------------------------
(***************************************************************************)
(* What `transact` of `SharedHostingSchedulerRepository` and of            *)
(* `ServerRepository` promises: mutations of one aggregate take effect one *)
(* after the other, each on the outcome of all before it.                  *)
(*                                                                         *)
(* `log` is the sequence of the mutations that made the aggregate, and     *)
(* `returned` holds, for every call that got a result, which mutation it   *)
(* was and on top of how many others the result was computed.              *)
(***************************************************************************)
EXTENDS Naturals, Sequences

VARIABLES log, returned

vars == <<log, returned>>

Init == log = <<>> /\ returned = {}

(* A mutation that is not in the log yet takes effect.                     *)
Commit ==
    LET m == log'[Len(log')] IN
    /\ log' # <<>> /\ log' = Append(log, m)
    /\ \A i \in DOMAIN log : log[i] # m
    /\ UNCHANGED returned

(* A call gets the result its mutation had where it took effect.           *)
Return(i) ==
    /\ i \in DOMAIN log
    /\ returned' = returned \cup {[mutation |-> log[i], on |-> i - 1]}
    /\ UNCHANGED log

Next == Commit \/ (\E i \in DOMAIN log : Return(i))

Spec == Init /\ [][Next]_vars
=============================================================================
