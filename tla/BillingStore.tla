---------------------------- MODULE BillingStore ----------------------------
(***************************************************************************)
(* What `interface BillingStore` (src/src/ledger.ts) promises its callers: *)
(* "apply the callback as one atomic conditional transaction".             *)
(*                                                                         *)
(* A transaction is identified by the idempotency key its callback looks   *)
(* up in the aggregate first, so running the same transaction again finds  *)
(* its own effect and adds nothing.  `applied[k]` counts the effects of k  *)
(* in the aggregate; `acked` is the set of transactions some caller was    *)
(* told have committed.                                                    *)
(***************************************************************************)
EXTENDS Naturals

CONSTANT Keys

VARIABLES applied, acked

vars == <<applied, acked>>

TypeOK ==
    /\ applied \in [Keys -> Nat]
    /\ acked \subseteq Keys

Init ==
    /\ applied = [k \in Keys |-> 0]
    /\ acked = {}

(* The callback ran on the current aggregate and its result is durable,    *)
(* whether or not the caller ever hears of it.                             *)
Apply(k) ==
    /\ applied[k] = 0
    /\ applied' = [applied EXCEPT ![k] = 1]
    /\ acked' \in {acked, acked \union {k}}

(* A transaction that finds its own effect returns the recorded response.  *)
Replay(k) ==
    /\ applied[k] = 1
    /\ acked' = acked \union {k}
    /\ UNCHANGED applied

Next == \E k \in Keys : Apply(k) \/ Replay(k)

Spec == Init /\ [][Next]_vars
=============================================================================
