----------------------------- MODULE VectorClock -----------------------------
(***************************************************************************)
(* The vector clocks of crates/common/src/lib.rs: one counter per device.  *)
(* The source keeps a BTreeMap<String, u64> in which a missing device      *)
(* reads as 0; here a clock is a total function and a missing entry is a   *)
(* 0.  The two differ only on a stored explicit zero, which no client      *)
(* produces: a device enters a clock by an increment.                      *)
(***************************************************************************)
EXTENDS Naturals

CONSTANT Device         \* device ids that ever write

Clock == [Device -> Nat]

\* VectorClock::new, and what ClockStore::get returns for an unknown key.
EmptyClock == [d \in Device |-> 0]

Tick(c, d) == [c EXCEPT ![d] = @ + 1]

Larger(m, n) == IF m >= n THEN m ELSE n

\* merge: the pointwise maximum, returned as a new clock.
Merge(a, b) == [d \in Device |-> Larger(a[d], b[d])]

Order == {"Equal", "Dominates", "DominatedBy", "Concurrent"}

Ahead(a, b) == \E d \in Device : a[d] > b[d]

\* compare: which of the two sides is ahead on some device.
Compare(a, b) ==
  CASE ~Ahead(a, b) /\ ~Ahead(b, a) -> "Equal"
    [] Ahead(a, b) /\ ~Ahead(b, a)  -> "Dominates"
    [] ~Ahead(a, b) /\ Ahead(b, a)  -> "DominatedBy"
    [] Ahead(a, b) /\ Ahead(b, a)   -> "Concurrent"

\* The order that Compare classifies: b has seen everything a has.
Leq(a, b) == \A d \in Device : a[d] <= b[d]
=============================================================================
