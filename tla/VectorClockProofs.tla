-------------------------- MODULE VectorClockProofs --------------------------
(***************************************************************************)
(* What the conflict decisions of the host take for granted about clocks:  *)
(* Compare classifies the pointwise order, Merge is the least upper bound, *)
(* and a tick moves strictly up.  Proved for every set of devices.         *)
(***************************************************************************)
EXTENDS VectorClock, TLAPS

\* The empty clock is a clock.
LEMMA EmptyClockType == EmptyClock \in Clock
BY DEF EmptyClock, Clock

\* A tick makes a clock (increment).
LEMMA TickType ==
  ASSUME NEW c \in Clock, NEW d \in Device
  PROVE  Tick(c, d) \in Clock
BY DEF Tick, Clock

\* The merge of two clocks is a clock.
LEMMA MergeType ==
  ASSUME NEW a \in Clock, NEW b \in Clock
  PROVE  Merge(a, b) \in Clock
BY DEF Merge, Larger, Clock

\* The result of compare is one of the four orders, and each of them says
\* exactly which of a <= b and b <= a holds (lib.rs compare).
THEOREM CompareClassifies ==
  ASSUME NEW a \in Clock, NEW b \in Clock
  PROVE  /\ Compare(a, b) \in Order
         /\ (Compare(a, b) = "Equal") <=> (Leq(a, b) /\ Leq(b, a))
         /\ (Compare(a, b) = "Dominates") <=> (Leq(b, a) /\ ~Leq(a, b))
         /\ (Compare(a, b) = "DominatedBy") <=> (Leq(a, b) /\ ~Leq(b, a))
         /\ (Compare(a, b) = "Concurrent") <=> (~Leq(a, b) /\ ~Leq(b, a))
<1>1. Ahead(a, b) <=> ~Leq(a, b)
  BY DEF Ahead, Leq, Clock
<1>2. Ahead(b, a) <=> ~Leq(b, a)
  BY DEF Ahead, Leq, Clock
<1>3. CASE Ahead(a, b) /\ Ahead(b, a)
  BY <1>1, <1>2, <1>3 DEF Compare, Order
<1>4. CASE Ahead(a, b) /\ ~Ahead(b, a)
  BY <1>1, <1>2, <1>4 DEF Compare, Order
<1>5. CASE ~Ahead(a, b) /\ Ahead(b, a)
  BY <1>1, <1>2, <1>5 DEF Compare, Order
<1>6. CASE ~Ahead(a, b) /\ ~Ahead(b, a)
  BY <1>1, <1>2, <1>6 DEF Compare, Order
<1>. QED
  BY <1>3, <1>4, <1>5, <1>6

\* Equal clocks in the sense of compare are the same clock.
THEOREM CompareEqualIsEquality ==
  ASSUME NEW a \in Clock, NEW b \in Clock, Compare(a, b) = "Equal"
  PROVE  a = b
<1>1. \A d \in Device : a[d] = b[d]
  BY CompareClassifies DEF Leq, Clock
<1>. QED
  BY <1>1 DEF Clock

\* merge returns the least clock that has seen both arguments (lib.rs merge).
THEOREM MergeIsLub ==
  ASSUME NEW a \in Clock, NEW b \in Clock
  PROVE  /\ Leq(a, Merge(a, b))
         /\ Leq(b, Merge(a, b))
         /\ \A c \in Clock : Leq(a, c) /\ Leq(b, c) => Leq(Merge(a, b), c)
BY DEF Leq, Merge, Larger, Clock

\* What has seen a clock has seen everything that clock has.
LEMMA LeqTransitive ==
  ASSUME NEW a \in Clock, NEW b \in Clock, NEW c \in Clock
  PROVE  Leq(a, b) /\ Leq(b, c) => Leq(a, c)
<1>. SUFFICES ASSUME Leq(a, b), Leq(b, c), NEW d \in Device
              PROVE  a[d] <= c[d]
  BY DEF Leq
<1>1. a[d] \in Nat /\ b[d] \in Nat /\ c[d] \in Nat
  BY DEF Clock
<1>2. a[d] <= b[d] /\ b[d] <= c[d]
  BY DEF Leq
<1>. QED
  BY <1>1, <1>2

\* A device that increments its own counter on top of what it knows sends a
\* clock that strictly dominates all of it.
THEOREM TickDominates ==
  ASSUME NEW a \in Clock, NEW b \in Clock, NEW d \in Device
  PROVE  Leq(a, b) => Compare(Tick(b, d), a) = "Dominates"
<1>. SUFFICES ASSUME Leq(a, b)
              PROVE  Compare(Tick(b, d), a) = "Dominates"
  OBVIOUS
<1>1. Tick(b, d) \in Clock
  BY TickType
<1>2. \A e \in Device : Tick(b, d)[e] >= b[e]
  BY DEF Tick, Clock
<1>3. Tick(b, d)[d] > b[d] /\ a[d] <= b[d]
  BY DEF Tick, Clock, Leq
<1>4. Leq(b, Tick(b, d))
  BY <1>2 DEF Leq, Clock
<1>5. Leq(a, Tick(b, d))
  BY <1>1, <1>4, LeqTransitive
<1>6. ~ (Tick(b, d)[d] <= a[d])
  <2>1. a[d] \in Nat /\ b[d] \in Nat /\ Tick(b, d)[d] \in Nat
    BY <1>1 DEF Clock
  <2>. QED
    BY <2>1, <1>3
<1>7. ~Leq(Tick(b, d), a)
  BY <1>6 DEF Leq
<1>. QED
  BY <1>1, <1>5, <1>7, CompareClassifies
=============================================================================
