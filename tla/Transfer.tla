------------------------------ MODULE Transfer ------------------------------
(***************************************************************************)
(* What a benchmark session promises, without connections, queues, memory   *)
(* regions or rounds: the buffers of one host arrive at the other one, in   *)
(* order, and what a host sums up or calls a success is the whole of them.  *)
(* A host may fail at any time.                                             *)
(***************************************************************************)
EXTENDS Naturals

CONSTANT Hosts

VARIABLES items,        \* the buffers to transfer, fixed
          arrived,      \* those that hold the other host's contents
          summed,       \* the hosts that have shown the sum of their buffers
          outcome       \* of each host: "running", "ok" or "failed"

vars == <<items, arrived, summed, outcome>>

Complete == arrived = items

Init == /\ items \in SUBSET Nat
        /\ arrived = {} /\ summed = {}
        /\ outcome = [h \in Hosts |-> "running"]

\* The next buffer arrives; none does behind a sum.
Arrive(i) ==
    /\ i \in items \ arrived
    /\ \A j \in items : j < i => j \in arrived
    /\ summed = {}
    /\ arrived' = arrived \union {i}
    /\ UNCHANGED <<items, summed, outcome>>

Sum(h) ==
    /\ outcome[h] = "running" /\ h \notin summed /\ Complete
    /\ summed' = summed \union {h}
    /\ UNCHANGED <<items, arrived, outcome>>

Succeed(h) ==
    /\ outcome[h] = "running" /\ h \in summed
    /\ outcome' = [outcome EXCEPT ![h] = "ok"]
    /\ UNCHANGED <<items, arrived, summed>>

Fail(h) ==
    /\ outcome[h] = "running"
    /\ outcome' = [outcome EXCEPT ![h] = "failed"]
    /\ UNCHANGED <<items, arrived, summed>>

Next == \/ \E i \in items : Arrive(i)
        \/ \E h \in Hosts : Sum(h) \/ Succeed(h) \/ Fail(h)

Spec == Init /\ [][Next]_vars

=============================================================================
