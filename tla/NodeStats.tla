------------------------------ MODULE NodeStats ------------------------------
(***************************************************************************)
(* The statistics record of ncda/src/model.rs.                             *)
(*                                                                         *)
(* NodeStats has seven additive u64 counters (bytes, operations and total  *)
(* latency) and one running maximum.  The additive ones are updated alike, *)
(* so one field, `total`, stands for each of them; `peak` is               *)
(* max_latency_ns.  The width of the counters is the constant CounterMax:  *)
(* additions saturate there as u64::saturating_add does at u64::MAX.       *)
(***************************************************************************)
EXTENDS Naturals

CONSTANT CounterMax     \* u64::MAX, scaled down by a run

ASSUME CounterMaxAssumption == CounterMax \in Nat \ {0}

Counter == 0 .. CounterMax

NodeStats == [total : Counter, peak : Counter]

NoStats == [total |-> 0, peak |-> 0]

\* Addition that does not stop at the counter's width.
UnboundedAdd(a, b) == a + b

SaturatingAdd(a, b) == IF a + b > CounterMax THEN CounterMax ELSE a + b

Larger(a, b) == IF a >= b THEN a ELSE b

Accumulate(stats, delta) ==
  [total |-> SaturatingAdd(stats.total, delta.total),
   peak  |-> Larger(stats.peak, delta.peak)]
==============================================================================
