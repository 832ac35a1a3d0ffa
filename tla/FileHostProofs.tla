---------------------------- MODULE FileHostProofs ----------------------------
(* Proofs about FileHost: who holds write_lock, that a path is never in both *)
(* stores between critical sections, that a deleted path is gone, that a     *)
(* path's clock and tombstone never lose counts, and that what the host      *)
(* answers is true of the requester's copy.                                  *)
EXTENDS FileHost, VectorClockProofs, SequenceTheorems

-----------------------------------------------------------------------------
(* Clocks and entries.                                                      *)

\* The answers of a comparison are the four of ClockOrder.
LEMMA CompareInOrder == \A a, b : Compare(a, b) \in Order
  BY DEF Compare, Order

\* What a store returns for a path is a clock (ClockStore::get).
LEMMA StoredClockType ==
  ASSUME NEW f, NEW p, \A q \in DOMAIN f : f[q] \in Entry
  PROVE  ClockIn(f, p) \in Clock
  BY EmptyClockType DEF ClockIn, Entry

\* A request carries a clock and, to change something, a path that is not the root.
LEMMA RequestFields ==
  ASSUME NEW r \in Request
  PROVE  /\ r.op \in Mutation \cup {"stat", "read", "list"}
         /\ r.clock \in Clock
         /\ r.path \in Path
         /\ r.op \in Mutation => r.path # Root
         /\ r.op = "rename" => r.to \in Path \ {Root}
  BY RequestAssumption

-----------------------------------------------------------------------------
(* Plans.                                                                   *)

Sound(op) == op.do \in {"put_clock", "put_tomb"} => op.clock \in Clock

\* A plan written out as a tuple of sound operations is one.
LEMMA TuplePlans ==
  ASSUME NEW a, NEW b, NEW c, NEW e, NEW f,
         Sound(a), Sound(b), Sound(c), Sound(e), Sound(f)
  PROVE  /\ IsPlan(<<>>) /\ IsPlan(<<a>>) /\ IsPlan(<<a, b>>) /\ IsPlan(<<a, b, c>>)
         /\ IsPlan(<<a, b, c, e>>) /\ IsPlan(<<a, b, c, e, f>>)
<1>1. IsPlan(<<>>) /\ IsPlan(<<a>>) /\ IsPlan(<<a, b>>) /\ IsPlan(<<a, b, c>>)
  BY DEF IsPlan, Sound
<1>2. IsPlan(<<a, b, c, e>>) 
  BY DEF IsPlan, Sound
<1>3. IsPlan(<<a, b, c, e, f>>)
  BY DEF IsPlan, Sound
<1>. QED
  BY <1>1, <1>2, <1>3

\* What is left of a plan after its first operation is a plan.
LEMMA TailPlan ==
  ASSUME NEW s, IsPlan(s), s # <<>>
  PROVE  /\ IsPlan(Tail(s))
         /\ Len(s) \in Nat \ {0} /\ DOMAIN s = 1..Len(s)
         /\ Len(Tail(s)) = Len(s) - 1 /\ DOMAIN Tail(s) = 1..(Len(s) - 1)
         /\ \A i \in 1..(Len(s) - 1) : Tail(s)[i] = s[i + 1]
         /\ Head(s) = s[1]
<1>. DEFINE S == {s[i] : i \in DOMAIN s}
           t == Tail(s)
           T == {t[i] : i \in DOMAIN t}
<1>1. s \in Seq(S)
  BY DEF IsPlan
<1>2. /\ Len(s) \in Nat \ {0} /\ DOMAIN s = 1..Len(s)
      /\ t \in Seq(S) /\ Len(t) = Len(s) - 1
      /\ \A i \in 1..(Len(s) - 1) : t[i] = s[i + 1]
      /\ Head(s) = s[1]
  <2>. HIDE DEF S
  <2>. QED  BY <1>1
<1>3. DOMAIN t = 1..(Len(s) - 1)
  <2>. HIDE DEF S
  <2>. QED  BY <1>2
<1>4. t \in Seq(T)
  <2>. HIDE DEF t
  <2>1. \A i \in 1..Len(t) : t[i] \in T
    BY <1>2, <1>3
  <2>2. t = [i \in 1..Len(t) |-> t[i]]
    <3>. HIDE DEF S, T
    <3>. QED  BY <1>2
  <2>. HIDE DEF T
  <2>. QED  BY <2>1, <2>2, <1>2
<1>5. \A i \in DOMAIN t : t[i].do \in {"put_clock", "put_tomb"} => t[i].clock \in Clock
  <2>. TAKE i \in DOMAIN t
  <2>1. i \in 1..(Len(s) - 1) /\ i + 1 \in 1..Len(s)
    BY <1>2, <1>3
  <2>2. t[i] = s[i + 1] /\ i + 1 \in DOMAIN s
    BY <2>1, <1>2
  <2>. QED  BY <2>2 DEF IsPlan
<1>. QED
  BY <1>2, <1>3, <1>4, <1>5 DEF IsPlan

\* A bare operation, to fill the places of a shorter plan.
LEMMA BareOps ==
  ASSUME NEW p, NEW q, NEW x, NEW y
  PROVE  /\ Sound(WriteFile(p, x, y)) /\ Sound(Move(p, q)) /\ Sound(RemoveFile(p))
         /\ Sound(CreateDir(p)) /\ Sound(DropClock(p)) /\ Sound(DropTomb(p))
         /\ Sound(RekeyClocks(p, q)) /\ Sound(RekeyTombs(p, q))
         /\ x \in Clock => Sound(PutClock(p, x)) /\ Sound(PutTomb(p, x))
  BY DEF Sound, WriteFile, Move, RemoveFile, CreateDir, DropClock, DropTomb,
         RekeyClocks, RekeyTombs, PutClock, PutTomb

GoodOutcome(o) == o.clock \in Clock /\ IsPlan(o.ops)

\* Every decision is a plan that stores clocks, and answers with a clock.
LEMMA DecideType ==
  ASSUME TypeOK, NEW d \in Device, NEW r \in Request, r.op \in Mutation
  PROVE  GoodOutcome(Decide(d, r))
<1>. DEFINE live == LiveClock(r.path)
            tomb == TombClock(r.path)
            copy == ConflictPath(r.path, d)
<1>1. live \in Clock /\ tomb \in Clock
  BY StoredClockType DEF TypeOK, LiveClock, TombClock
<1>2. r.clock \in Clock /\ Merge(live, r.clock) \in Clock /\ Merge(tomb, r.clock) \in Clock
  BY <1>1, RequestFields, MergeType
<1>3. \A p : Sound(Store(d, r, p))
  BY BareOps DEF Store
<1>4. GoodOutcome(Failed)
  BY EmptyClockType, TuplePlans, BareOps DEF Failed, GoodOutcome, Outcome
<1>. DEFINE filler == RemoveFile(r.path)
<1>5. ASSUME NEW res, NEW c \in Clock, NEW x, NEW y, NEW z, NEW v, NEW w,
             Sound(x), Sound(y), Sound(z), Sound(v), Sound(w)
      PROVE  /\ GoodOutcome(Outcome(res, c, <<>>)) /\ GoodOutcome(Outcome(res, c, <<x>>))
             /\ GoodOutcome(Outcome(res, c, <<x, y>>)) /\ GoodOutcome(Outcome(res, c, <<x, y, z>>))
             /\ GoodOutcome(Outcome(res, c, <<x, y, z, v>>))
             /\ GoodOutcome(Outcome(res, c, <<x, y, z, v, w>>))
  BY <1>5, TuplePlans DEF GoodOutcome, Outcome
<1>6. Sound(filler)
  BY BareOps
<1>. HIDE DEF live, tomb, copy, filler
<1>7. GoodOutcome(WriteOverTombstone(d, r))
  <2>1. /\ Sound(DropTomb(r.path)) /\ Sound(PutClock(r.path, Merge(tomb, r.clock)))
        /\ Sound(Store(d, r, r.path))
    BY <1>2, <1>3, BareOps
  <2>2. WriteOverTombstone(d, r) =
          IF Compare(r.clock, tomb) = "DominatedBy"
          THEN Outcome("Stale", tomb, <<>>)
          ELSE Outcome(IF Compare(r.clock, tomb) = "Concurrent" THEN "Conflict" ELSE "Applied",
                       Merge(tomb, r.clock),
                       <<Store(d, r, r.path), DropTomb(r.path),
                         PutClock(r.path, Merge(tomb, r.clock))>>)
    BY DEF WriteOverTombstone, Revive, tomb
  <2>3. GoodOutcome(Outcome("Stale", tomb, <<>>))
    BY <1>1, <1>5, <1>6
  <2>4. \A res : GoodOutcome(Outcome(res, Merge(tomb, r.clock),
                       <<Store(d, r, r.path), DropTomb(r.path),
                         PutClock(r.path, Merge(tomb, r.clock))>>))
    BY <1>2, <1>5, <1>6, <2>1
  <2>. QED
    BY <2>2, <2>3, <2>4
<1>8. GoodOutcome(WriteOverLive(d, r))
  <2>. DEFINE merged == Merge(live, r.clock)
  <2>1. /\ Sound(Store(d, r, r.path)) /\ Sound(PutClock(r.path, merged))
        /\ Sound(Store(d, r, copy)) /\ Sound(PutClock(copy, r.clock))
    BY <1>2, <1>3, BareOps
  <2>2. /\ GoodOutcome(Outcome("Applied", merged, <<Store(d, r, r.path), PutClock(r.path, merged)>>))
        /\ GoodOutcome(Outcome("Stale", live, <<>>))
        /\ GoodOutcome(Outcome("Conflict", live, <<Store(d, r, copy), PutClock(copy, r.clock)>>))
    BY <1>1, <1>2, <1>5, <1>6, <2>1
  <2>3. \/ WriteOverLive(d, r) =
            Outcome("Applied", merged, <<Store(d, r, r.path), PutClock(r.path, merged)>>)
        \/ WriteOverLive(d, r) = Outcome("Stale", live, <<>>)
        \/ WriteOverLive(d, r) =
            Outcome("Conflict", live, <<Store(d, r, copy), PutClock(copy, r.clock)>>)
    BY CompareInOrder, Zenon DEF WriteOverLive, Order, live, copy
  <2>. QED
    BY <2>2, <2>3
<1>9. GoodOutcome(WriteOutcome(d, r))
  BY <1>4, <1>7, <1>8 DEF WriteOutcome
<1>10. GoodOutcome(DeleteOutcome(d, r))
  <2>. DEFINE again  == Merge(tomb, r.clock)
              merged == Merge(live, r.clock)
  <2>1. /\ Sound(PutTomb(r.path, again)) /\ Sound(RemoveFile(r.path))
        /\ Sound(PutTomb(r.path, merged)) /\ Sound(DropClock(r.path))
    BY <1>2, BareOps
  <2>2. /\ GoodOutcome(Outcome("Deleted", again, <<PutTomb(r.path, again)>>))
        /\ GoodOutcome(Outcome("NotFound", live, <<>>))
        /\ GoodOutcome(Outcome("Stale", live, <<>>))
        /\ GoodOutcome(Outcome("Conflict", live, <<>>))
        /\ GoodOutcome(Outcome("Deleted", merged,
              <<RemoveFile(r.path), PutTomb(r.path, merged), DropClock(r.path)>>))
    BY <1>1, <1>2, <1>5, <1>6, <2>1
  <2>3. \/ DeleteOutcome(d, r) = Outcome("Deleted", again, <<PutTomb(r.path, again)>>)
        \/ DeleteOutcome(d, r) = Outcome("NotFound", live, <<>>)
        \/ DeleteOutcome(d, r) = Outcome("Stale", live, <<>>)
        \/ DeleteOutcome(d, r) = Outcome("Conflict", live, <<>>)
        \/ DeleteOutcome(d, r) = Outcome("Deleted", merged,
              <<RemoveFile(r.path), PutTomb(r.path, merged), DropClock(r.path)>>)
    BY CompareInOrder, Zenon DEF DeleteOutcome, DeleteAgain, Order, live, tomb
  <2>. QED
    BY <2>2, <2>3
<1>11. GoodOutcome(RenameDeleted(r))
  <2>. DEFINE merged == Merge(tomb, r.clock)
              ops == <<WriteFile(r.to, EmptyClock, NoData), DropTomb(r.path), DropTomb(r.to),
                       PutClock(r.to, merged)>>
  <2>1. /\ Sound(WriteFile(r.to, EmptyClock, NoData)) /\ Sound(DropTomb(r.path))
        /\ Sound(DropTomb(r.to)) /\ Sound(PutClock(r.to, merged))
    BY <1>2, BareOps
  <2>2. GoodOutcome(Outcome("Stale", tomb, <<>>)) /\ \A res : GoodOutcome(Outcome(res, merged, ops))
    BY <1>1, <1>2, <1>5, <1>6, <2>1
  <2>3. \/ RenameDeleted(r) = Outcome("Stale", tomb, <<>>)
        \/ RenameDeleted(r) = Failed
        \/ \E res : RenameDeleted(r) = Outcome(res, merged, ops)
    BY Zenon DEF RenameDeleted, tomb
  <2>. QED
    BY <2>2, <2>3, <1>4
<1>12. GoodOutcome(RenameOutcome(d, r))
  <2>. DEFINE merged == Merge(live, r.clock)
              ops == <<Move(r.path, r.to), DropClock(r.path), DropTomb(r.to),
                       PutClock(r.to, merged)>>
  <2>1. /\ Sound(Move(r.path, r.to)) /\ Sound(DropClock(r.path))
        /\ Sound(DropTomb(r.to)) /\ Sound(PutClock(r.to, merged))
    BY <1>2, BareOps
  <2>2. /\ GoodOutcome(Outcome("NotFound", live, <<>>)) /\ GoodOutcome(Outcome("Stale", live, <<>>))
        /\ GoodOutcome(Outcome("Renamed", merged, ops))
    BY <1>1, <1>2, <1>5, <1>6, <2>1
  <2>3. \/ RenameOutcome(d, r) \in {RenameDeleted(r), Failed}
        \/ RenameOutcome(d, r) = Outcome("NotFound", live, <<>>)
        \/ RenameOutcome(d, r) = Outcome("Stale", live, <<>>)
        \/ RenameOutcome(d, r) = Outcome("Renamed", merged, ops)
    BY Zenon DEF RenameOutcome, RenameLive, live
  <2>. QED
    BY <2>2, <2>3, <1>4, <1>11
<1>13. GoodOutcome(MkdirOverFile(d, r))
  <2>. DEFINE ops == <<Move(r.path, copy), RekeyClocks(r.path, copy), CreateDir(r.path),
                       PutClock(r.path, r.clock)>>
  <2>1. /\ Sound(Move(r.path, copy)) /\ Sound(RekeyClocks(r.path, copy))
        /\ Sound(CreateDir(r.path)) /\ Sound(PutClock(r.path, r.clock))
    BY <1>2, BareOps
  <2>2. /\ GoodOutcome(Outcome("Stale", live, <<>>)) /\ GoodOutcome(Outcome("Applied", r.clock, ops))
    BY <1>1, <1>2, <1>5, <1>6, <2>1
  <2>3. \/ MkdirOverFile(d, r) = Outcome("Stale", live, <<>>)
        \/ MkdirOverFile(d, r) = Outcome("Applied", r.clock, ops)
    BY Zenon DEF MkdirOverFile, live, copy
  <2>. QED
    BY <2>2, <2>3
<1>14. GoodOutcome(MkdirOverDir(d, r))
  <2>. DEFINE ops == <<Move(r.path, copy), RekeyClocks(r.path, copy), RekeyTombs(r.path, copy),
                       CreateDir(r.path), PutClock(r.path, r.clock)>>
  <2>1. /\ Sound(Move(r.path, copy)) /\ Sound(RekeyClocks(r.path, copy))
        /\ Sound(RekeyTombs(r.path, copy)) /\ Sound(CreateDir(r.path))
        /\ Sound(PutClock(r.path, r.clock))
    BY <1>2, BareOps
  <2>2. /\ GoodOutcome(Outcome("Applied", r.clock, <<PutClock(r.path, r.clock)>>))
        /\ GoodOutcome(Outcome("Stale", live, <<>>)) /\ GoodOutcome(Outcome("Conflict", r.clock, ops))
    BY <1>1, <1>2, <1>5, <1>6, <2>1
  <2>3. \/ MkdirOverDir(d, r) = Outcome("Applied", r.clock, <<PutClock(r.path, r.clock)>>)
        \/ MkdirOverDir(d, r) = Outcome("Stale", live, <<>>)
        \/ MkdirOverDir(d, r) = Outcome("Conflict", r.clock, ops)
    BY CompareInOrder, Zenon DEF MkdirOverDir, Order, live, copy
  <2>. QED
    BY <2>2, <2>3
<1>15. GoodOutcome(MkdirOutcome(d, r))
  <2>1. Sound(CreateDir(r.path)) /\ Sound(PutClock(r.path, r.clock))
    BY <1>2, BareOps
  <2>2. /\ GoodOutcome(Outcome("Stale", r.clock, <<>>))
        /\ GoodOutcome(Outcome("Applied", r.clock, <<CreateDir(r.path), PutClock(r.path, r.clock)>>))
    BY <1>2, <1>5, <1>6, <2>1
  <2>. QED
    BY <2>2, <1>4, <1>13, <1>14, Zenon DEF MkdirOutcome
<1>. QED
  BY <1>9, <1>10, <1>12, <1>15, Zenon DEF Decide, Mutation

-----------------------------------------------------------------------------
(* What the operations of a plan leave.                                     *)

\* A move invents nothing: what is found after it was somewhere before.
LEMMA MovedEntries ==
  ASSUME NEW f, NEW from, NEW to
  PROVE  \A q \in DOMAIN Moved(f, from, to) :
           \E p \in DOMAIN f : Moved(f, from, to)[q] = f[p]
<1>. DEFINE source == {p \in DOMAIN f : Within(from, p)}
            target == {Rebase(p, from, to) : p \in source}
<1>. SUFFICES ASSUME NEW q \in DOMAIN Moved(f, from, to)
              PROVE  \E p \in DOMAIN f : Moved(f, from, to)[q] = f[p]
  OBVIOUS
<1>1. /\ q \in (DOMAIN f \ source) \cup target
      /\ Moved(f, from, to)[q] =
           IF q \in target THEN f[CHOOSE p \in source : Rebase(p, from, to) = q] ELSE f[q]
  BY Zenon DEF Moved
<1>2. CASE q \in target
  <2>1. \E p \in source : Rebase(p, from, to) = q
    BY <1>2
  <2>2. (CHOOSE p \in source : Rebase(p, from, to) = q) \in source
    <3>. HIDE DEF source
    <3>. QED  BY <2>1
  <2>. QED
    BY <1>1, <1>2, <2>2
<1>3. CASE q \notin target
  BY <1>1, <1>3
<1>. QED
  BY <1>2, <1>3

\* After an operation every node is still a file or a directory.
LEMMA DiskType ==
  ASSUME TypeOK, NEW op
  PROVE  \A p \in DOMAIN DiskAfter(op) : DiskAfter(op)[p].kind \in {"dir", "file"}
<1>1. \A p \in DOMAIN disk : disk[p].kind \in {"dir", "file"}
  BY DEF TypeOK
<1>2. \A x, y : File(x, y).kind \in {"dir", "file"} /\ Dir.kind \in {"dir", "file"}
  BY DEF File, Dir
<1>3. \A p, x : x.kind \in {"dir", "file"} =>
        \A q \in DOMAIN With(disk, p, x) : With(disk, p, x)[q].kind \in {"dir", "file"}
  BY <1>1 DEF With
<1>4. \A ps : \A q \in DOMAIN Without(disk, ps) : Without(disk, ps)[q].kind \in {"dir", "file"}
  BY <1>1 DEF Without
<1>5. \A p, t : \A q \in DOMAIN Moved(disk, p, t) : Moved(disk, p, t)[q].kind \in {"dir", "file"}
  BY <1>1, MovedEntries
<1>6. DiskAfter(op) \in {With(disk, op.path, File(op.edit, op.data)), With(disk, op.path, Dir),
                         Without(disk, {op.path}), Moved(disk, op.path, op.to), disk}
  BY Zenon DEF DiskAfter
<1>. QED
  BY <1>1, <1>2, <1>3, <1>4, <1>5, <1>6

\* After an operation that stores a clock both stores hold entries.
LEMMA StoresType ==
  ASSUME TypeOK, now \in Nat, NEW op, Sound(op)
  PROVE  /\ \A p \in DOMAIN ClocksAfter(op) : ClocksAfter(op)[p] \in Entry
         /\ \A p \in DOMAIN TombsAfter(op) : TombsAfter(op)[p] \in Entry
<1>1. /\ \A p \in DOMAIN clocks : clocks[p] \in Entry
      /\ \A p \in DOMAIN tombs : tombs[p] \in Entry
  BY DEF TypeOK
<1>2. \A f, p, x : (\A q \in DOMAIN f : f[q] \in Entry) /\ x \in Entry
                   => \A q \in DOMAIN With(f, p, x) : With(f, p, x)[q] \in Entry
  BY DEF With
<1>3. \A f, ps : (\A q \in DOMAIN f : f[q] \in Entry)
                 => \A q \in DOMAIN Without(f, ps) : Without(f, ps)[q] \in Entry
  BY DEF Without
<1>4. \A f, p, t : (\A q \in DOMAIN f : f[q] \in Entry)
                 => \A q \in DOMAIN Moved(f, p, t) : Moved(f, p, t)[q] \in Entry
  BY MovedEntries
<1>5. CASE op.do = "put_clock"
  <2>1. [clock |-> op.clock, at |-> now] \in Entry
    BY <1>5 DEF Sound, Entry
  <2>2. ClocksAfter(op) = With(clocks, op.path, [clock |-> op.clock, at |-> now])
    BY <1>5, Zenon DEF ClocksAfter
  <2>3. TombsAfter(op) = tombs
    BY <1>5, Zenon DEF TombsAfter
  <2>. QED
    BY <2>1, <2>2, <2>3, <1>1, <1>2
<1>6. CASE op.do = "put_tomb"
  <2>. DEFINE t == IF op.path \in DOMAIN tombs THEN tombs[op.path].at ELSE now
  <2>1. [clock |-> op.clock, at |-> t] \in Entry
    BY <1>1, <1>6 DEF Sound, Entry
  <2>2. TombsAfter(op) = With(tombs, op.path, [clock |-> op.clock, at |-> t])
    BY <1>6, Zenon DEF TombsAfter
  <2>3. ClocksAfter(op) = clocks
    BY <1>6, Zenon DEF ClocksAfter
  <2>. HIDE DEF t
  <2>. QED
    BY <2>1, <2>2, <2>3, <1>1, <1>2
<1>7. CASE op.do \notin {"put_clock", "put_tomb"}
  <2>1. /\ ClocksAfter(op) \in {Without(clocks, {op.path}), Moved(clocks, op.path, op.to), clocks}
        /\ TombsAfter(op) \in {Without(tombs, {op.path}), Moved(tombs, op.path, op.to), tombs}
    BY <1>7, Zenon DEF ClocksAfter, TombsAfter
  <2>. QED
    BY <2>1, <1>1, <1>3, <1>4
<1>. QED
  BY <1>5, <1>6, <1>7

-----------------------------------------------------------------------------
(* Types and the lock discipline, one action at a time.                     *)

Busy == {"idle", "accepted", "staging", "found", "waiting", "locked", "replied"}

\* The drop of the staged copy adds no node (TempFile::drop).
LEMMA WithoutTempType ==
  ASSUME TypeOK, NEW d
  PROVE  \A p \in DOMAIN WithoutTemp(disk, d) :
           WithoutTemp(disk, d)[p].kind \in {"dir", "file"}
  BY DEF TypeOK, WithoutTemp, Without

\* A handler that has no lock moves on to another point without one.
LEMMA MovesOn ==
  ASSUME TypeInv, NEW d \in Device, NEW to \in Busy \ {"locked"}, pc[d] # "locked",
         pc' = [pc EXCEPT ![d] = to], UNCHANGED <<store, lock, now>>,
         DOMAIN plan' = Device, \A e \in Device : plan'[e] = plan[e],
         \A p \in DOMAIN disk' : disk'[p].kind \in {"dir", "file"},
         DOMAIN reply' = Device, \A e \in Device : reply'[e].clock \in Clock,
         DOMAIN req' = Device, \A e \in Device \ {d} : req'[e] = req[e],
         to \in {"accepted", "staging", "waiting"} => req'[d] \in Request,
         to = "waiting" => req'[d].op \in Mutation,
         to = "staging" => req'[d].op = "stream"
  PROVE  TypeInv'
<1>1. /\ pc' \in [Device -> Busy] /\ pc'[d] = to
      /\ \A e \in Device \ {d} : pc'[e] = pc[e]
  BY DEF TypeInv, TypeOK, Busy
<1>2. TypeOK'
  <2>1. \A e \in Device : /\ lock' = e <=> pc'[e] = "locked"
                          /\ pc'[e] = "locked" <=> plan'[e] # <<>>
    BY <1>1 DEF TypeInv, TypeOK
  <2>. QED
    BY <1>1, <2>1, Zenon DEF TypeInv, TypeOK, Busy, store
<1>3. Shape'
  <2>1. now' \in Nat /\ DOMAIN req' = Device /\ DOMAIN plan' = Device /\ DOMAIN reply' = Device
    BY DEF TypeInv, Shape
  <2>2. \A e \in Device :
          /\ pc'[e] \in {"accepted", "staging", "waiting", "locked"} => req'[e] \in Request
          /\ pc'[e] \in {"waiting", "locked"} => req'[e].op \in Mutation
          /\ pc'[e] = "staging" => req'[e].op = "stream"
    BY <1>1 DEF TypeInv, Shape
  <2>3. \A e \in Device : IsPlan(plan'[e])
    BY DEF TypeInv, Shape
  <2>. QED
    BY <2>1, <2>2, <2>3, Zenon DEF TypeInv, Shape
<1>. QED
  BY <1>2, <1>3 DEF TypeInv

\* A reply that carries a clock keeps the replies typed.
LEMMA ReplyType ==
  ASSUME TypeInv, NEW d \in Device, NEW res, NEW c \in Clock, NEW seen,
         \/ reply' = reply
         \/ reply' = [reply EXCEPT ![d] = Reply(res, c)]
         \/ reply' = [reply EXCEPT ![d] = Answer(res, c, seen)]
  PROVE  DOMAIN reply' = Device /\ \A e \in Device : reply'[e].clock \in Clock
<1>1. DOMAIN reply = Device /\ \A e \in Device : reply[e].clock \in Clock
  BY DEF TypeInv, TypeOK, Shape
<1>2. Reply(res, c).clock \in Clock /\ Answer(res, c, seen).clock \in Clock
  BY DEF Reply, Answer
<1>. QED
  BY <1>1, <1>2

\* A new request keeps TypeInv.
LEMMA SubmitType ==
  ASSUME TypeInv, NEW d \in Device, NEW r \in Request, Submit(d, r)
  PROVE  TypeInv'
<1>1. r.op \in Mutation \cup {"stat", "read", "list"}
  BY RequestFields
<1>. DEFINE to == IF r.op \in {"write", "stream", "stat", "read", "list"} THEN "accepted" ELSE "waiting"
<1>2. to \in Busy \ {"locked"} /\ (to = "waiting" => r.op \in Mutation) /\ to # "staging"
  BY <1>1 DEF Busy, Mutation
<1>3. /\ pc' = [pc EXCEPT ![d] = to] /\ pc[d] # "locked"
      /\ UNCHANGED <<store, lock, plan, now>> /\ DOMAIN plan = Device
      /\ DOMAIN req' = Device /\ req'[d] = r /\ \A e \in Device \ {d} : req'[e] = req[e]
  BY DEF Submit, TypeInv, Shape
<1>4. /\ \A p \in DOMAIN disk' : disk'[p].kind \in {"dir", "file"}
      /\ DOMAIN reply' = Device /\ \A e \in Device : reply'[e].clock \in Clock
  BY DEF Submit, TypeInv, TypeOK, Shape
<1>. HIDE DEF to
<1>. QED
  BY <1>2, <1>3, <1>4, MovesOn

\* The recreation of a deleted parent keeps TypeInv
\* (ensure_parent_not_tombstoned).
LEMMA EnsureParentType ==
  ASSUME TypeInv, NEW d \in Device, EnsureParent(d)
  PROVE  TypeInv'
<1>. DEFINE deleted == Tombed(Parent(req[d].path))
            blocked == \E p \in Ancestors(req[d].path) : IsFile(p)
            to == IF deleted /\ blocked THEN "replied"
                  ELSE IF req[d].op = "stream" THEN "staging" ELSE "waiting"
<1>1. /\ pc[d] = "accepted" /\ req[d].op \in {"write", "stream"} /\ req[d] \in Request
      /\ UNCHANGED <<store, lock, plan, now, req>> /\ DOMAIN req' = Device /\ DOMAIN plan' = Device
  BY DEF EnsureParent, TypeInv, Shape
<1>2. \A p \in DOMAIN disk' : disk'[p].kind \in {"dir", "file"}
  BY DEF EnsureParent, TypeInv, TypeOK, Dir, Exists
<1>3. pc' = [pc EXCEPT ![d] = to]
  BY DEF EnsureParent, Finish
<1>4. DOMAIN reply' = Device /\ \A e \in Device : reply'[e].clock \in Clock
  <2>1. reply' = reply \/ reply' = [reply EXCEPT ![d] = Reply("Error", EmptyClock)]
    BY DEF EnsureParent, Finish
  <2>. QED
    BY <2>1, ReplyType, EmptyClockType
<1>5. /\ to \in Busy \ {"locked"}
      /\ to = "waiting" => req'[d].op \in Mutation
      /\ to = "staging" => req'[d].op = "stream"
  BY <1>1 DEF Busy, Mutation
<1>. HIDE DEF to
<1>. QED
  BY <1>1, <1>2, <1>3, <1>4, <1>5, MovesOn

\* The staging of a streamed write keeps TypeInv (write_file_stream).
LEMMA StageType ==
  ASSUME TypeInv, NEW d \in Device, Stage(d)
  PROVE  TypeInv'
<1>1. /\ pc[d] = "staging" /\ req[d].op = "stream" /\ req[d] \in Request
      /\ UNCHANGED <<store, lock, plan, now, req>> /\ DOMAIN req' = Device /\ DOMAIN plan' = Device
  BY DEF Stage, TypeInv, Shape
<1>2. \A p \in DOMAIN disk' : disk'[p].kind \in {"dir", "file"}
  BY DEF Stage, TypeInv, TypeOK, With, File
<1>3. \/ reply' = reply /\ pc' = [pc EXCEPT ![d] = "waiting"]
      \/ reply' = [reply EXCEPT ![d] = Reply("Error", EmptyClock)] /\ pc' = [pc EXCEPT ![d] = "replied"]
  BY DEF Stage, Finish
<1>4. DOMAIN reply' = Device /\ \A e \in Device : reply'[e].clock \in Clock
  BY <1>3, ReplyType, EmptyClockType
<1>5. /\ "waiting" \in Busy \ {"locked"} /\ "replied" \in Busy \ {"locked"}
      /\ req'[d].op \in Mutation /\ req'[d] \in Request
  BY <1>1 DEF Busy, Mutation
<1>. QED
  BY <1>1, <1>2, <1>3, <1>4, <1>5, MovesOn

\* The handlers that only look keep TypeInv (stat, read_file, list_dir).
LEMMA LookType ==
  ASSUME TypeInv, NEW d \in Device, Look(d)
  PROVE  TypeInv'
<1>1. /\ pc[d] \in {"accepted", "found"}
      /\ UNCHANGED <<disk, store, lock, plan, now, req>>
      /\ \E to \in {"found", "replied"} : pc' = [pc EXCEPT ![d] = to]
  BY DEF Look, StatFile, StatClock, ReadFile, ListDir, Finish
<1>2. LiveClock(req[d].path) \in Clock
  BY StoredClockType DEF TypeInv, TypeOK, LiveClock
<1>3. DOMAIN reply' = Device /\ \A e \in Device : reply'[e].clock \in Clock
  <2>1. \E res, seen : \E c \in Clock : \/ reply' = [reply EXCEPT ![d] = Reply(res, c)]
                                      \/ reply' = [reply EXCEPT ![d] = Answer(res, c, seen)]
    <3>1. CASE StatFile(d)
      BY <3>1, EmptyClockType DEF StatFile, Finish
    <3>2. CASE StatClock(d)
      <4>1. reply' = [reply EXCEPT ![d] =
                        Answer("Found", LiveClock(req[d].path), reply[d].seen)]
        BY <3>2 DEF StatClock
      <4>. QED
        BY <4>1, <1>2
    <3>3. CASE ReadFile(d)
      BY <3>3, EmptyClockType DEF ReadFile
    <3>4. CASE ListDir(d)
      BY <3>4, EmptyClockType DEF ListDir
    <3>. QED
      BY <3>1, <3>2, <3>3, <3>4 DEF Look
  <2>. QED
    BY <2>1, ReplyType
<1>4. \A p \in DOMAIN disk' : disk'[p].kind \in {"dir", "file"}
  BY <1>1 DEF TypeInv, TypeOK
<1>5. DOMAIN req' = Device /\ DOMAIN plan' = Device
  BY <1>1 DEF TypeInv, Shape
<1>. QED
  BY <1>1, <1>3, <1>4, <1>5, MovesOn DEF Busy

\* While the lock is free nobody has a plan; else only its holder does.
LEMMA OnePlan ==
  ASSUME TypeInv
  PROVE  /\ lock = Unlocked => \A e \in Device : pc[e] # "locked" /\ plan[e] = <<>>
         /\ \A d \in Device : pc[d] = "locked" =>
              /\ lock = d /\ plan[d] # <<>>
              /\ \A e \in Device \ {d} : pc[e] # "locked" /\ plan[e] = <<>>
  BY FileHostAssumption DEF TypeInv, TypeOK

\* A handler that has the lock goes on, or leaves it with nothing to do.
LEMMA GoesOnLocked ==
  ASSUME TypeInv, NEW d \in Device, NEW to \in {"idle", "replied", "locked"},
         pc[d] = "locked" \/ lock = Unlocked,
         to = "locked" => req'[d] \in Request /\ req'[d].op \in Mutation,
         pc' = [pc EXCEPT ![d] = to],
         lock' = IF to = "locked" THEN d ELSE Unlocked,
         DOMAIN plan' = Device, \A e \in Device \ {d} : plan'[e] = plan[e],
         IsPlan(plan'[d]), plan'[d] # <<>> <=> to = "locked",
         \A p \in DOMAIN disk' : disk'[p].kind \in {"dir", "file"},
         \A p \in DOMAIN clocks' : clocks'[p] \in Entry,
         \A p \in DOMAIN tombs' : tombs'[p] \in Entry,
         DOMAIN reply' = Device, \A e \in Device : reply'[e].clock \in Clock,
         DOMAIN req' = Device, \A e \in Device \ {d} : req'[e] = req[e], now' = now
  PROVE  TypeInv'
<1>1. /\ pc' \in [Device -> Busy] /\ pc'[d] = to
      /\ \A e \in Device \ {d} : pc'[e] = pc[e]
  BY DEF TypeInv, TypeOK, Busy
<1>2. \A e \in Device \ {d} : pc[e] # "locked" /\ plan[e] = <<>> /\ plan'[e] = <<>>
  BY OnePlan
<1>3. \A e \in Device : /\ lock' = e <=> pc'[e] = "locked"
                        /\ pc'[e] = "locked" <=> plan'[e] # <<>>
  BY <1>1, <1>2, FileHostAssumption
<1>4. TypeOK'
  BY <1>1, <1>3, Zenon DEF TypeOK, Busy
<1>5. \A e \in Device :
        /\ pc'[e] \in {"accepted", "staging", "waiting", "locked"} => req'[e] \in Request
        /\ pc'[e] \in {"waiting", "locked"} => req'[e].op \in Mutation
        /\ pc'[e] = "staging" => req'[e].op = "stream"
  BY <1>1 DEF TypeInv, Shape
<1>6. \A e \in Device : IsPlan(plan'[e])
  <2>. TAKE e \in Device
  <2>1. CASE e = d
    BY <2>1
  <2>2. CASE e # d
    <3>1. plan'[e] = <<>>
      BY <1>2, <2>2
    <3>. QED
      BY <3>1 DEF IsPlan
  <2>. QED
    BY <2>1, <2>2
<1>7. now' \in Nat /\ DOMAIN req' = Device /\ DOMAIN plan' = Device /\ DOMAIN reply' = Device
  BY DEF TypeInv, Shape
<1>8. Shape'
  BY <1>5, <1>6, <1>7, Zenon DEF Shape
<1>. QED
  BY <1>4, <1>8 DEF TypeInv

\* A handler that gets the lock and decides keeps TypeInv: from now on it is
\* the one handler with a plan.
LEMMA AcquireType ==
  ASSUME TypeInv, NEW d \in Device, Acquire(d)
  PROVE  TypeInv'
<1>. DEFINE outcome == Decide(d, req[d])
<1>1. /\ pc[d] = "waiting" /\ lock = Unlocked
      /\ req[d] \in Request /\ req[d].op \in Mutation
      /\ UNCHANGED <<store, req, now>> /\ DOMAIN req' = Device /\ DOMAIN plan = Device
  BY DEF Acquire, LockFree, TypeInv, Shape
<1>2. outcome.clock \in Clock /\ IsPlan(outcome.ops)
  BY <1>1, DecideType DEF TypeInv, GoodOutcome
<1>3. /\ \A p \in DOMAIN disk' : disk'[p].kind \in {"dir", "file"}
      /\ \A p \in DOMAIN clocks' : clocks'[p] \in Entry
      /\ \A p \in DOMAIN tombs' : tombs'[p] \in Entry
  <2>1. disk' \in {disk, WithoutTemp(disk, d)}
    BY DEF Acquire
  <2>. QED
    BY <2>1, <1>1, WithoutTempType DEF TypeInv, TypeOK, store
<1>4. reply' = [reply EXCEPT ![d] = Reply(outcome.result, outcome.clock)]
  BY DEF Acquire, Finish
<1>. HIDE DEF outcome
<1>5. DOMAIN reply' = Device /\ \A e \in Device : reply'[e].clock \in Clock
  BY <1>2, <1>4, ReplyType
<1>6. CASE outcome.ops = <<>>
  <2>1. pc' = [pc EXCEPT ![d] = "replied"] /\ UNCHANGED <<lock, plan>>
    BY <1>6 DEF Acquire, Finish, outcome
  <2>. QED
    BY <2>1, <1>1, <1>3, <1>5, MovesOn DEF Busy
<1>7. CASE outcome.ops # <<>>
  <2>1. /\ pc' = [pc EXCEPT ![d] = "locked"] /\ lock' = d
        /\ plan' = [plan EXCEPT ![d] = outcome.ops]
    BY <1>7 DEF Acquire, outcome
  <2>. QED
    BY <2>1, <1>1, <1>2, <1>3, <1>5, <1>7, GoesOnLocked
<1>. QED
  BY <1>6, <1>7

\* One operation of a plan keeps TypeInv; the last gives up the lock.
LEMMA StepType ==
  ASSUME TypeInv, NEW d \in Device, Step(d)
  PROVE  TypeInv'
<1>. DEFINE op == Head(plan[d])
<1>1. /\ pc[d] = "locked" /\ lock = d /\ plan[d] # <<>> /\ IsPlan(plan[d])
      /\ UNCHANGED <<req, reply, now>>
  BY OnePlan DEF Step, TypeInv, Shape
<1>2. IsPlan(Tail(plan[d])) /\ Sound(op)
  <2>1. op = plan[d][1] /\ 1 \in DOMAIN plan[d]
    BY <1>1, TailPlan
  <2>. QED
    BY <2>1, <1>1, TailPlan DEF IsPlan, Sound
<1>3. /\ \A p \in DOMAIN disk' : disk'[p].kind \in {"dir", "file"}
      /\ \A p \in DOMAIN clocks' : clocks'[p] \in Entry
      /\ \A p \in DOMAIN tombs' : tombs'[p] \in Entry
  <2>1. disk' = DiskAfter(op) /\ clocks' = ClocksAfter(op) /\ tombs' = TombsAfter(op)
    BY DEF Step
  <2>2. TypeOK /\ now \in Nat
    BY DEF TypeInv, Shape
  <2>. HIDE DEF op
  <2>. QED
    BY <2>1, <2>2, <1>2, DiskType, StoresType
<1>4. /\ plan' = [plan EXCEPT ![d] = Tail(@)] /\ DOMAIN plan = Device
      /\ DOMAIN reply' = Device /\ \A e \in Device : reply'[e].clock \in Clock
      /\ DOMAIN req' = Device
  BY <1>1 DEF Step, TypeInv, TypeOK, Shape
<1>5. CASE Tail(plan[d]) = <<>>
  <2>1. lock' = Unlocked /\ pc' = [pc EXCEPT ![d] = "replied"]
    BY <1>5 DEF Step
  <2>. QED
    BY <2>1, <1>1, <1>2, <1>3, <1>4, <1>5, GoesOnLocked
<1>6. CASE Tail(plan[d]) # <<>>
  <2>1. lock' = d /\ pc' = [pc EXCEPT ![d] = "locked"]
    BY <1>1, <1>6 DEF Step, TypeInv, TypeOK
  <2>2. req'[d] \in Request /\ req'[d].op \in Mutation
    BY <1>1 DEF TypeInv, Shape
  <2>. QED
    BY <2>1, <2>2, <1>1, <1>2, <1>3, <1>4, <1>6, GoesOnLocked
<1>. QED
  BY <1>5, <1>6

\* A failed operation gives up the plan and the lock together.
LEMMA StepFailsType ==
  ASSUME TypeInv, NEW d \in Device, StepFails(d)
  PROVE  TypeInv'
<1>1. /\ pc[d] = "locked" /\ pc' = [pc EXCEPT ![d] = "replied"] /\ lock' = Unlocked
      /\ plan' = [plan EXCEPT ![d] = <<>>] /\ DOMAIN plan = Device
      /\ UNCHANGED <<store, req, now>> /\ DOMAIN req' = Device
      /\ reply' = [reply EXCEPT ![d] = Reply("Error", EmptyClock)]
  BY DEF StepFails, GiveUpTheLock, Finish, TypeInv, Shape
<1>2. IsPlan(<<>>)
  BY TuplePlans, BareOps
<1>3. /\ \A p \in DOMAIN disk' : disk'[p].kind \in {"dir", "file"}
      /\ \A p \in DOMAIN clocks' : clocks'[p] \in Entry
      /\ \A p \in DOMAIN tombs' : tombs'[p] \in Entry
  BY <1>1, WithoutTempType DEF StepFails, TypeInv, TypeOK, store
<1>4. DOMAIN reply' = Device /\ \A e \in Device : reply'[e].clock \in Clock
  BY <1>1, ReplyType, EmptyClockType
<1>. QED
  BY <1>1, <1>2, <1>3, <1>4, GoesOnLocked

\* What Forget leaves of a handler.
LEMMA ForgetFacts ==
  ASSUME TypeInv, NEW d \in Device, Forget(d)
  PROVE  /\ pc' = [pc EXCEPT ![d] = "idle"]
         /\ DOMAIN req' = Device /\ \A e \in Device \ {d} : req'[e] = req[e]
         /\ DOMAIN plan' = Device /\ \A e \in Device \ {d} : plan'[e] = plan[e]
         /\ plan'[d] = <<>>
         /\ DOMAIN reply' = Device /\ \A e \in Device : reply'[e].clock \in Clock
<1>1. NoReply = Reply("none", EmptyClock)
  BY DEF NoReply, Reply, Answer
<1>2. DOMAIN reply' = Device /\ \A e \in Device : reply'[e].clock \in Clock
  BY <1>1, ReplyType, EmptyClockType DEF Forget
<1>. QED
  BY <1>2 DEF Forget, TypeInv, Shape

\* The end of a request keeps TypeInv.
LEMMA ReturnType ==
  ASSUME TypeInv, NEW d \in Device, Return(d)
  PROVE  TypeInv'
<1>1. /\ pc[d] = "replied" /\ Forget(d) /\ UNCHANGED <<disk, store, lock, now>>
  BY DEF Return
<1>2. \A e \in Device : plan'[e] = plan[e]
  BY <1>1, ForgetFacts DEF TypeInv, TypeOK
<1>3. \A p \in DOMAIN disk' : disk'[p].kind \in {"dir", "file"}
  BY <1>1 DEF TypeInv, TypeOK
<1>. QED
  BY <1>1, <1>2, <1>3, ForgetFacts, MovesOn DEF Busy

\* A dropped handler that had the lock gives it up.
LEMMA DisconnectType ==
  ASSUME TypeInv, NEW d \in Device, Disconnect(d)
  PROVE  TypeInv'
<1>1. /\ Forget(d) /\ UNCHANGED <<store, now>> /\ IsPlan(<<>>)
  BY TuplePlans, BareOps DEF Disconnect
<1>2. /\ \A p \in DOMAIN disk' : disk'[p].kind \in {"dir", "file"}
      /\ \A p \in DOMAIN clocks' : clocks'[p] \in Entry
      /\ \A p \in DOMAIN tombs' : tombs'[p] \in Entry
  <2>1. disk' \in {disk, WithoutTemp(disk, d)}
    BY DEF Disconnect, DropBeforeLock, DropUnderLock
  <2>. QED
    BY <2>1, <1>1, WithoutTempType DEF TypeInv, TypeOK, store
<1>3. CASE DropBeforeLock(d)
  <2>1. pc[d] # "locked" /\ lock' = lock
    BY <1>3 DEF DropBeforeLock
  <2>2. \A e \in Device : plan'[e] = plan[e]
    BY <1>1, <2>1, ForgetFacts DEF TypeInv, TypeOK
  <2>. QED
    BY <1>1, <1>2, <2>1, <2>2, ForgetFacts, MovesOn DEF Busy
<1>4. CASE DropUnderLock(d)
  <2>1. pc[d] = "locked" /\ lock' = Unlocked
    BY <1>4 DEF DropUnderLock, GiveUpTheLock
  <2>. QED
    BY <1>1, <1>2, <2>1, ForgetFacts, GoesOnLocked
<1>. QED
  BY <1>3, <1>4 DEF Disconnect

\* Steps of the collector, the clock and detached operations touch no handler.
LEMMA BackgroundType ==
  ASSUME TypeInv, UNCHANGED <<lock, rpc>>, now' \in Nat,
         \A p \in DOMAIN disk' : disk'[p].kind \in {"dir", "file"},
         \A p \in DOMAIN clocks' : p \in DOMAIN clocks /\ clocks'[p] = clocks[p],
         \A p \in DOMAIN tombs' : p \in DOMAIN tombs /\ tombs'[p] = tombs[p]
  PROVE  TypeInv'
<1>1. /\ \A p \in DOMAIN clocks' : clocks'[p] \in Entry
      /\ \A p \in DOMAIN tombs' : tombs'[p] \in Entry
  BY DEF TypeInv, TypeOK
<1>2. TypeOK'
  BY <1>1, Zenon DEF TypeInv, TypeOK, rpc
<1>3. Shape'
  BY Zenon DEF TypeInv, Shape, rpc
<1>. QED
  BY <1>2, <1>3 DEF TypeInv

\* The collector only ever removes entries, and only while nobody has the lock.
LEMMA GcOnlyRemoves ==
  ASSUME Gc
  PROVE  /\ UNCHANGED <<disk, lock, rpc, detached, now>>
         /\ \A p \in DOMAIN clocks' : p \in DOMAIN clocks /\ clocks'[p] = clocks[p]
         /\ \A p \in DOMAIN tombs' : p \in DOMAIN tombs /\ tombs'[p] = tombs[p]
<1>1. ASSUME NEW next, RemoveTombs(next) \/ RemoveClocks(next)
      PROVE  /\ UNCHANGED <<disk, lock, rpc, detached, now>>
             /\ \A p \in DOMAIN clocks' : p \in DOMAIN clocks /\ clocks'[p] = clocks[p]
             /\ \A p \in DOMAIN tombs' : p \in DOMAIN tombs /\ tombs'[p] = tombs[p]
  BY <1>1 DEF RemoveTombs, RemoveClocks, Without, GcStep
<1>2. CASE UNCHANGED store /\ GcStep
  BY <1>2 DEF store, GcStep
<1>3. ASSUME NEW next, Skip(next)
      PROVE  UNCHANGED store /\ GcStep
  BY <1>3 DEF Skip
<1>4. CASE CollectTombs \/ CollectClocks \/ CapTombs \/ CapClocks
  BY <1>1, <1>2, <1>3, <1>4, Zenon DEF CollectTombs, CollectClocks, CapTombs, CapClocks
<1>5. CASE \/ SweepStarts \/ LookAtTomb \/ ListClocks \/ LookAtClock \/ LookForTomb
           \/ CountEntries \/ CountOrphans
  BY <1>2, <1>5, Zenon DEF SweepStarts, LookAtTomb, ListClocks, LookAtClock, LookForTomb,
                           CountEntries, CountOrphans
<1>. QED
  BY <1>4, <1>5, Zenon DEF Gc

\* A restart keeps TypeInv: nobody has the lock and nobody has a plan.
LEMMA CrashType == TypeInv /\ Crash => TypeInv'
<1>. SUFFICES ASSUME TypeInv, Crash PROVE TypeInv'
  OBVIOUS
<1>1. IsPlan(<<>>)
  BY TuplePlans, BareOps
<1>2. /\ pc' = [d \in Device |-> "idle"] /\ lock' = Unlocked /\ now' = now
      /\ plan' = [d \in Device |-> <<>>] /\ req' = [d \in Device |-> NoRequest]
      /\ reply' = [d \in Device |-> NoReply] /\ UNCHANGED <<disk, clocks, tombs>>
  BY DEF Crash, store
<1>3. \A d \in Device : reply'[d].clock \in Clock
  BY <1>2, EmptyClockType DEF NoReply
<1>4. TypeOK'
  BY <1>2, <1>3, FileHostAssumption DEF TypeInv, TypeOK
<1>5. Shape'
  BY <1>1, <1>2 DEF TypeInv, Shape
<1>. QED
  BY <1>4, <1>5 DEF TypeInv

\* Every step keeps TypeInv.
LEMMA NextType == TypeInv /\ [Next]_vars => TypeInv'
<1>. SUFFICES ASSUME TypeInv, [Next]_vars PROVE TypeInv'
  OBVIOUS
<1>1. ASSUME NEW d \in Device, Handle(d) \/ Disconnect(d) \/ Return(d)
      PROVE  TypeInv'
  BY <1>1, EnsureParentType, StageType, LookType, AcquireType, StepType, StepFailsType,
     DisconnectType, ReturnType, Zenon DEF Handle
<1>2. ASSUME NEW d \in Device, NEW r \in Request, Submit(d, r)
      PROVE  TypeInv'
  BY <1>2, SubmitType
<1>3. ASSUME NEW op \in detached, Detached(op)
      PROVE  TypeInv'
  <2>1. /\ disk' \in {disk, DiskAfter(op)} /\ UNCHANGED <<clocks, tombs, lock, rpc, now>>
    BY <1>3 DEF Detached, store
  <2>2. \A p \in DOMAIN disk' : disk'[p].kind \in {"dir", "file"}
    BY <2>1, DiskType DEF TypeInv, TypeOK
  <2>. QED
    BY <2>1, <2>2, BackgroundType DEF TypeInv, Shape
<1>4. CASE Gc
  BY <1>4, GcOnlyRemoves, BackgroundType DEF TypeInv, TypeOK, Shape
<1>5. CASE Second
  <2>1. UNCHANGED <<disk, clocks, tombs, lock, rpc>> /\ now' = now + 1
    BY <1>5 DEF Second, store
  <2>. QED
    BY <2>1, BackgroundType DEF TypeInv, TypeOK, Shape
<1>6. CASE Crash
  BY <1>6, CrashType
<1>7. CASE UNCHANGED vars
  <2>1. UNCHANGED <<disk, clocks, tombs, lock, rpc, now>>
    BY <1>7 DEF vars, rpc
  <2>. QED
    BY <2>1, BackgroundType DEF TypeInv, TypeOK, Shape
<1>. QED
  BY <1>1, <1>2, <1>3, <1>4, <1>5, <1>6, <1>7, Zenon DEF Next, Serve

\* TypeInv holds when the agent first starts.
LEMMA InitType == Init => TypeInv
<1>. SUFFICES ASSUME Init PROVE TypeInv
  OBVIOUS
<1>1. IsPlan(<<>>)
  BY TuplePlans, BareOps
<1>2. TypeOK
  BY EmptyClockType, FileHostAssumption DEF Init, TypeOK, NoReply, Dir, File, EmptyMap
<1>3. Shape
  BY <1>1 DEF Init, Shape
<1>. QED
  BY <1>2, <1>3 DEF TypeInv

\* TypeInv is an invariant: write_lock is held exactly by the handler under way,
\* and the stores hold clocks.
THEOREM TypeInvariant == Spec => []TypeInv
  BY InitType, NextType, PTL DEF Spec

\* For every set of devices and requests, and whatever fails, the lock is held
\* exactly by the handler that is under way with its plan, and the stores hold
\* clocks (write_lock, and the guard every handler and the collector takes).
THEOREM LockDiscipline == Spec => []TypeOK
<1>1. TypeInv => TypeOK
  BY DEF TypeInv
<1>. QED
  BY <1>1, TypeInvariant, PTL

-----------------------------------------------------------------------------
(* The two stores.                                                          *)

\* A merge with an edit is not empty.
LEMMA MergeNotEmpty ==
  ASSUME NEW a \in Clock, NEW b \in Clock, b # EmptyClock
  PROVE  Merge(a, b) # EmptyClock
<1>1. PICK d \in Device : b[d] # 0
  BY DEF Clock, EmptyClock
<1>2. Merge(a, b)[d] # 0
  BY <1>1 DEF Merge, Larger, Clock
<1>. QED
  BY <1>2 DEF EmptyClock

\* A conflict copy is nobody's original.
LEMMA CopiesAreNotOriginal ==
  ASSUME NEW p \in Path \ {Root}, NEW d \in Device, now \in Nat
  PROVE  ~IsOriginal(ConflictPath(p, d))
<1>. DEFINE n == Len(p)
            S == [by : Device, at : Nat]
            x == [by |-> d, at |-> now]
            q == ConflictPath(p, d)
<1>1. /\ n \in Nat \ {0} /\ n \in DOMAIN p /\ p \in Seq(Leaf)
      /\ p[n] \in Leaf /\ DOMAIN p = 1..n
  BY DEF Path, Root
<1>2. p[n].copies \in Seq(S) /\ DOMAIN p[n] = {"name", "copies"} /\ x \in S
  BY <1>1 DEF Leaf
<1>3. q = [p EXCEPT ![n] = [p[n] EXCEPT !.copies = Append(@, x)]]
  BY DEF ConflictPath
<1>4. DOMAIN q = 1..n /\ q[n].copies = Append(p[n].copies, x)
  BY <1>1, <1>2, <1>3
<1>5. Len(q) = n
  BY <1>1, <1>4, LenProperties
<1>6. Append(p[n].copies, x) # <<>>
  <2>. HIDE DEF S, x
  <2>. QED
    BY <1>2
<1>. QED
  BY <1>4, <1>5, <1>6 DEF IsOriginal

Apart == PlansKeepApart /\ BothOnlyWhileDeleting /\ TombsAreSeen

\* What a plan needs of the stores it keeps when they lose entries.
LEMMA FewerEntries ==
  ASSUME NEW s, NEW cs, NEW ts, NEW cs2 \in SUBSET cs, NEW ts2 \in SUBSET ts
  PROVE  /\ KeepsApart(s, cs, ts) => KeepsApart(s, cs2, ts2)
         /\ WillPart(s, cs, ts) => WillPart(s, cs2, ts2)
  BY DEF KeepsApart, WillPart

\* A handler with nothing left to do brings no path into both stores.
LEMMA EmptyPlanKeepsApart == \A cs, ts : KeepsApart(<<>>, cs, ts)
  BY DEF KeepsApart

\* Steps that change no plan but to drop it, and add nothing to the stores.
LEMMA ApartStays ==
  ASSUME Apart,
         \A e \in Device : plan'[e] \in {plan[e], <<>>},
         DOMAIN clocks' \subseteq DOMAIN clocks,
         \A p \in DOMAIN tombs' : p \in DOMAIN tombs /\ tombs'[p] = tombs[p],
         \/ lock' = lock /\ \A e \in Device : lock = e => plan'[e] = plan[e]
         \/ lock' = Unlocked /\ \A p \in DOMAIN clocks \cap DOMAIN tombs : ~IsOriginal(p)
  PROVE  Apart'
<1>. DEFINE cs == DOMAIN clocks
            ts == DOMAIN tombs
            cs2 == DOMAIN clocks'
            ts2 == DOMAIN tombs'
<1>1. cs2 \in SUBSET cs /\ ts2 \in SUBSET ts
  OBVIOUS
<1>2. PlansKeepApart'
  <2>. SUFFICES ASSUME NEW e \in Device PROVE KeepsApart(plan'[e], cs2, ts2)
    BY Zenon DEF PlansKeepApart
  <2>1. KeepsApart(plan[e], cs, ts)
    BY Zenon DEF Apart, PlansKeepApart
  <2>2. KeepsApart(plan[e], cs2, ts2)
    <3>. HIDE DEF cs, ts, cs2, ts2
    <3>. QED  BY <1>1, <2>1, FewerEntries, Zenon
  <2>. QED
    BY <2>2, EmptyPlanKeepsApart, Zenon
<1>3. BothOnlyWhileDeleting'
  <2>1. ASSUME NEW e \in Device, lock' = e
        PROVE  WillPart(plan'[e], cs2, ts2)
    <3>1. lock = e /\ plan'[e] = plan[e]
      BY <2>1, FileHostAssumption
    <3>2. WillPart(plan[e], cs, ts)
      BY <3>1, Zenon DEF Apart, BothOnlyWhileDeleting
    <3>. HIDE DEF cs, ts, cs2, ts2
    <3>. QED
      BY <1>1, <3>1, <3>2, FewerEntries, Zenon
  <2>2. ASSUME lock' = Unlocked
        PROVE  WillPart(<<>>, cs2, ts2)
    <3>1. WillPart(<<>>, cs, ts)
      <4>1. CASE lock = Unlocked
        BY <4>1, Zenon DEF Apart, BothOnlyWhileDeleting
      <4>2. CASE \A p \in cs \cap ts : ~IsOriginal(p)
        BY <4>2, Zenon DEF WillPart
      <4>. QED
        BY <2>2, <4>1, <4>2
    <3>. HIDE DEF cs, ts, cs2, ts2
    <3>. QED
      BY <1>1, <3>1, FewerEntries, Zenon
  <2>. QED
    BY <2>1, <2>2, Zenon DEF BothOnlyWhileDeleting
<1>4. TombsAreSeen'
  BY DEF Apart, TombsAreSeen, Tombed, TombClock, ClockIn
<1>. QED
  BY <1>2, <1>3, <1>4 DEF Apart

\* The plans of the handlers, by the operations they are made of.
LEMMA PlansOfHandlers ==
  ASSUME NEW cs, NEW ts, \A p \in cs \cap ts : ~IsOriginal(p)
  PROVE  \A file, p, q, c : OnDisk(file) =>
         /\ p \notin ts \/ ~IsOriginal(p) => KeepsApart(<<file, PutClock(p, c)>>, cs, ts)
         /\ KeepsApart(<<file, DropTomb(p), PutClock(p, c)>>, cs, ts)
         /\ p \in ts /\ c # EmptyClock => KeepsApart(<<PutTomb(p, c)>>, cs, ts)
         /\ c # EmptyClock => KeepsApart(<<file, PutTomb(p, c), DropClock(p)>>, cs, ts)
         /\ KeepsApart(<<file, DropTomb(p), DropTomb(q), PutClock(q, c)>>, cs, ts)
         /\ KeepsApart(<<file, DropClock(p), DropTomb(q), PutClock(q, c)>>, cs, ts)
<1>. TAKE file, p, q, c
<1>. HAVE OnDisk(file)
<1>1. /\ PutClock(p, c).do = "put_clock" /\ PutClock(p, c).path = p
      /\ PutClock(q, c).do = "put_clock" /\ PutClock(q, c).path = q
      /\ PutTomb(p, c).do = "put_tomb" /\ PutTomb(p, c).path = p /\ PutTomb(p, c).clock = c
      /\ DropTomb(p).do = "drop_tomb" /\ DropTomb(p).path = p
      /\ DropTomb(q).do = "drop_tomb" /\ DropTomb(q).path = q
      /\ DropClock(p).do = "drop_clock" /\ DropClock(p).path = p
  BY DEF PutClock, PutTomb, DropTomb, DropClock
<1>2. file.do \in {"write", "move", "remove", "mkdir"}
  BY DEF OnDisk
<1>. DEFINE pc1 == PutClock(p, c)
            pc2 == PutClock(q, c)
            pt == PutTomb(p, c)
            dt1 == DropTomb(p)
            dt2 == DropTomb(q)
            dc == DropClock(p)
<1>. HIDE DEF pc1, pc2, pt, dt1, dt2, dc
<1>3. /\ pc1.do = "put_clock" /\ pc1.path = p
      /\ pc2.do = "put_clock" /\ pc2.path = q
      /\ pt.do = "put_tomb" /\ pt.path = p /\ pt.clock = c
      /\ dt1.do = "drop_tomb" /\ dt1.path = p
      /\ dt2.do = "drop_tomb" /\ dt2.path = q
      /\ dc.do = "drop_clock" /\ dc.path = p
  BY <1>1 DEF pc1, pc2, pt, dt1, dt2, dc
<1>4. p \notin ts \/ ~IsOriginal(p) => KeepsApart(<<file, pc1>>, cs, ts)
  BY <1>2, <1>3 DEF KeepsApart, OnDisk, Does
<1>5. KeepsApart(<<file, dt1, pc1>>, cs, ts)
  BY <1>2, <1>3 DEF KeepsApart, OnDisk, Does
<1>6. p \in ts /\ c # EmptyClock => KeepsApart(<<pt>>, cs, ts)
  BY <1>2, <1>3 DEF KeepsApart, OnDisk, Does
<1>7. c # EmptyClock => KeepsApart(<<file, pt, dc>>, cs, ts)
  BY <1>2, <1>3 DEF KeepsApart, OnDisk, Does
<1>8. KeepsApart(<<file, dt1, dt2, pc2>>, cs, ts)
  BY <1>2, <1>3 DEF KeepsApart, OnDisk, Does
<1>9. KeepsApart(<<file, dc, dt2, pc2>>, cs, ts)
  BY <1>2, <1>3 DEF KeepsApart, OnDisk, Does
<1>. QED
  BY <1>4, <1>5, <1>6, <1>7, <1>8, <1>9 DEF pc1, pc2, pt, dt1, dt2, dc

\* What is left of a plan after its first operation still keeps the stores apart
\* as that operation leaves them.
LEMMA TailKeepsApart ==
  ASSUME NEW s, IsPlan(s), s # <<>>, NEW cs, NEW ts, NEW cs2, NEW ts2,
         KeepsApart(s, cs, ts), WillPart(s, cs, ts),
         \/ s[1].do = "put_clock" /\ cs2 = cs \cup {s[1].path} /\ ts2 = ts
         \/ s[1].do = "drop_clock" /\ cs2 = cs \ {s[1].path} /\ ts2 = ts
         \/ s[1].do = "put_tomb" /\ ts2 = ts \cup {s[1].path} /\ cs2 = cs
         \/ s[1].do = "drop_tomb" /\ ts2 = ts \ {s[1].path} /\ cs2 = cs
         \/ /\ s[1].do \notin {"put_clock", "drop_clock", "put_tomb", "drop_tomb"}
            /\ cs2 = cs /\ ts2 = ts
  PROVE  KeepsApart(Tail(s), cs2, ts2) /\ WillPart(Tail(s), cs2, ts2)
<1>. DEFINE t == Tail(s)
            n == Len(s)
<1>1. /\ n \in Nat \ {0} /\ DOMAIN s = 1..n /\ DOMAIN t = 1..(n - 1) /\ Len(t) = n - 1
      /\ \A i \in 1..(n - 1) : t[i] = s[i + 1]
  BY TailPlan
<1>. HIDE DEF t, n
<1>2. KeepsApart(t, cs2, ts2)
  <2>. SUFFICES ASSUME NEW i \in 1..(n - 1)
                PROVE  /\ t[i].do \notin {"rekey_clocks", "rekey_tombs"}
                       /\ ~OnDisk(t[i])
                       /\ t[i].do = "put_clock" /\ IsOriginal(t[i].path) =>
                            \/ t[i].path \notin ts2
                            \/ \E j \in 1..(i - 1) : Does(t[j], "drop_tomb", t[i].path)
                       /\ t[i].do = "put_tomb" =>
                            /\ t[i].clock # EmptyClock
                            /\ \A j \in DOMAIN t : t[j].do # "put_clock"
                            /\ IsOriginal(t[i].path) =>
                                 \/ t[i].path \notin cs2
                                 \/ \E j \in (i + 1)..Len(t) : Does(t[j], "drop_clock", t[i].path)
    BY <1>1 DEF KeepsApart
  <2>1. t[i] = s[i + 1] /\ i + 1 \in 1..n /\ i + 1 # 1 /\ (i + 1) - 1 = i
    BY <1>1
  <2>2. t[i].do \notin {"rekey_clocks", "rekey_tombs"} /\ ~OnDisk(t[i])
    BY <1>1, <2>1 DEF KeepsApart
  <2>3. ASSUME t[i].do = "put_clock", IsOriginal(t[i].path), t[i].path \in ts2
        PROVE  \E j \in 1..(i - 1) : Does(t[j], "drop_tomb", t[i].path)
    <3>1. s[1].do # "put_tomb"
      BY <1>1, <2>1, <2>3 DEF KeepsApart
    <3>2. t[i].path \in ts
      BY <2>3, <3>1
    <3>3. PICK j \in 1..i : Does(s[j], "drop_tomb", t[i].path)
      BY <1>1, <2>1, <2>3, <3>2 DEF KeepsApart
    <3>4. j # 1
      BY <2>3, <3>3 DEF Does
    <3>5. j - 1 \in 1..(i - 1) /\ j - 1 \in 1..(n - 1) /\ (j - 1) + 1 = j
      BY <1>1, <3>4
    <3>. QED
      BY <1>1, <3>3, <3>5
  <2>4. ASSUME t[i].do = "put_tomb"
        PROVE  t[i].clock # EmptyClock /\ \A j \in DOMAIN t : t[j].do # "put_clock"
    <3>1. t[i].clock # EmptyClock /\ \A j \in 1..n : s[j].do # "put_clock"
      BY <1>1, <2>1, <2>4 DEF KeepsApart
    <3>. QED
      BY <1>1, <3>1
  <2>5. ASSUME t[i].do = "put_tomb", IsOriginal(t[i].path), t[i].path \in cs2
        PROVE  \E j \in (i + 1)..Len(t) : Does(t[j], "drop_clock", t[i].path)
    <3>1. s[1].do # "put_clock"
      BY <1>1, <2>1, <2>5 DEF KeepsApart
    <3>2. t[i].path \in cs
      BY <2>5, <3>1
    <3>3. PICK j \in (i + 2)..n : Does(s[j], "drop_clock", t[i].path)
      BY <1>1, <2>1, <2>5, <3>2 DEF KeepsApart
    <3>4. j - 1 \in (i + 1)..Len(t) /\ j - 1 \in 1..(n - 1) /\ (j - 1) + 1 = j
      BY <1>1
    <3>. QED
      BY <1>1, <3>3, <3>4
  <2>. QED
    BY <2>2, <2>3, <2>4, <2>5
<1>3. WillPart(t, cs2, ts2)
  <2>. SUFFICES ASSUME NEW p \in cs2 \cap ts2, IsOriginal(p)
                PROVE  \E i \in DOMAIN t : Does(t[i], "drop_clock", p)
    BY DEF WillPart
  <2>1. PICK i \in 1..n : Does(s[i], "drop_clock", p) /\ i # 1
    <3>1. CASE p \in cs \cap ts
      <4>1. PICK i \in 1..n : Does(s[i], "drop_clock", p)
        BY <1>1, <3>1 DEF WillPart
      <4>. QED
        BY <4>1 DEF Does
    <3>2. CASE p \notin cs
      <4>1. s[1].do = "put_clock" /\ p = s[1].path /\ p \in ts /\ 1 \in 1..n
        BY <1>1, <3>2
      <4>. QED
        BY <1>1, <4>1 DEF KeepsApart
    <3>3. CASE p \notin ts
      <4>1. s[1].do = "put_tomb" /\ p = s[1].path /\ p \in cs /\ 1 \in 1..n
        BY <1>1, <3>3
      <4>2. PICK i \in 2..n : Does(s[i], "drop_clock", p)
        BY <1>1, <4>1 DEF KeepsApart
      <4>. QED
        BY <1>1, <4>2
    <3>. QED
      BY <3>1, <3>2, <3>3
  <2>2. i - 1 \in 1..(n - 1) /\ (i - 1) + 1 = i
    BY <1>1, <2>1
  <2>. QED
    BY <1>1, <2>1, <2>2
<1>. QED
  BY <1>2, <1>3 DEF t

\* Every decision but a mkdir's is a plan that keeps the two stores apart.
LEMMA DecideKeepsApart ==
  ASSUME TypeInv, Apart, lock = Unlocked, NEW d \in Device, NEW r \in Request,
         r.op \in {"write", "stream", "delete", "rename"}, r.clock # EmptyClock
  PROVE  KeepsApart(Decide(d, r).ops, DOMAIN clocks, DOMAIN tombs)
<1>. DEFINE live == LiveClock(r.path)
            tomb == TombClock(r.path)
            copy == ConflictPath(r.path, d)
            cs == DOMAIN clocks
            ts == DOMAIN tombs
            Keeps(o) == KeepsApart(o.ops, cs, ts)
<1>1. live \in Clock /\ tomb \in Clock /\ r.clock \in Clock
  BY StoredClockType, RequestFields DEF TypeInv, TypeOK, LiveClock, TombClock
<1>2. Merge(live, r.clock) # EmptyClock /\ Merge(tomb, r.clock) # EmptyClock
  BY <1>1, MergeNotEmpty
<1>3. \A p \in cs \cap ts : ~IsOriginal(p)
  BY DEF Apart, BothOnlyWhileDeleting, WillPart
<1>4. Tombed(r.path) <=> r.path \in ts
  BY DEF Apart, TombsAreSeen, Tombed, TombClock, ClockIn
<1>5. ~IsOriginal(copy)
  BY RequestFields, CopiesAreNotOriginal DEF TypeInv, Shape
<1>6. \A p : OnDisk(Store(d, r, p)) /\ OnDisk(RemoveFile(p)) /\ OnDisk(WriteFile(p, EmptyClock, NoData))
             /\ OnDisk(Move(r.path, p))
  BY DEF Store, OnDisk, WriteFile, Move, RemoveFile
<1>7. \A res, c, ops : KeepsApart(ops, cs, ts) => Keeps(Outcome(res, c, ops))
  BY DEF Outcome
<1>8. \A res, c : Keeps(Outcome(res, c, <<>>)) /\ Keeps(Failed)
  BY <1>7, EmptyPlanKeepsApart, Zenon DEF Failed
<1>. SUFFICES Keeps(Decide(d, r))
  OBVIOUS
<1>. HIDE DEF live, tomb, copy, cs, ts
<1>9. \A file, p, q, c : OnDisk(file) =>
         /\ p \notin ts \/ ~IsOriginal(p) => KeepsApart(<<file, PutClock(p, c)>>, cs, ts)
         /\ KeepsApart(<<file, DropTomb(p), PutClock(p, c)>>, cs, ts)
         /\ p \in ts /\ c # EmptyClock => KeepsApart(<<PutTomb(p, c)>>, cs, ts)
         /\ c # EmptyClock => KeepsApart(<<file, PutTomb(p, c), DropClock(p)>>, cs, ts)
         /\ KeepsApart(<<file, DropTomb(p), DropTomb(q), PutClock(q, c)>>, cs, ts)
         /\ KeepsApart(<<file, DropClock(p), DropTomb(q), PutClock(q, c)>>, cs, ts)
  BY <1>3, PlansOfHandlers, Zenon
<1>10. CASE r.op \in {"write", "stream"}
  <2>1. ASSUME Tombed(r.path) PROVE Keeps(WriteOverTombstone(d, r))
    <3>1. \A res, c : Keeps(Outcome(res, c,
              <<Store(d, r, r.path), DropTomb(r.path), PutClock(r.path, c)>>))
      <4>1. \A c : KeepsApart(<<Store(d, r, r.path), DropTomb(r.path), PutClock(r.path, c)>>, cs, ts)
        BY <1>6, <1>9, Zenon
      <4>. QED
        BY <1>7, <4>1, Zenon
    <3>2. \/ WriteOverTombstone(d, r) = Outcome("Stale", tomb, <<>>)
          \/ \E res, c : WriteOverTombstone(d, r) = Outcome(res, c,
                <<Store(d, r, r.path), DropTomb(r.path), PutClock(r.path, c)>>)
      BY Zenon DEF WriteOverTombstone, Revive, tomb
    <3>. QED
      BY <1>8, <3>1, <3>2
  <2>2. ASSUME ~Tombed(r.path) PROVE Keeps(WriteOverLive(d, r))
    <3>1. \A res, c, m : /\ Keeps(Outcome(res, m, <<Store(d, r, r.path), PutClock(r.path, c)>>))
                         /\ Keeps(Outcome(res, m, <<Store(d, r, copy), PutClock(copy, c)>>))
      BY <1>3, <1>4, <1>5, <1>6, <1>7, <2>2, <1>9
    <3>2. \/ WriteOverLive(d, r) = Outcome("Stale", live, <<>>)
          \/ \E c, m : WriteOverLive(d, r) =
                 Outcome("Applied", m, <<Store(d, r, r.path), PutClock(r.path, c)>>)
          \/ \E c, m : WriteOverLive(d, r) =
                 Outcome("Conflict", m, <<Store(d, r, copy), PutClock(copy, c)>>)
      BY CompareInOrder, Zenon DEF WriteOverLive, Order, live, copy
    <3>. QED
      BY <1>8, <3>1, <3>2
  <2>3. Decide(d, r) = WriteOutcome(d, r)
    BY <1>10, Zenon DEF Decide
  <2>. QED
    BY <1>8, <2>1, <2>2, <2>3 DEF WriteOutcome
<1>11. CASE r.op = "delete"
  <2>1. ASSUME Tombed(r.path)
        PROVE  Keeps(Outcome("Deleted", Merge(tomb, r.clock),
                             <<PutTomb(r.path, Merge(tomb, r.clock))>>))
    <3>1. KeepsApart(<<PutTomb(r.path, Merge(tomb, r.clock))>>, cs, ts)
      BY <1>2, <1>4, <1>6, <1>9, <2>1, Zenon
    <3>. QED
      BY <1>7, <3>1, Zenon
  <2>2. Keeps(Outcome("Deleted", Merge(live, r.clock),
              <<RemoveFile(r.path), PutTomb(r.path, Merge(live, r.clock)), DropClock(r.path)>>))
    <3>1. KeepsApart(<<RemoveFile(r.path), PutTomb(r.path, Merge(live, r.clock)),
                       DropClock(r.path)>>, cs, ts)
      BY <1>2, <1>6, <1>9, Zenon
    <3>. QED
      BY <1>7, <3>1, Zenon
  <2>3. \/ /\ Tombed(r.path)
           /\ DeleteOutcome(d, r) = Outcome("Deleted", Merge(tomb, r.clock),
                             <<PutTomb(r.path, Merge(tomb, r.clock))>>)
        \/ \E res : DeleteOutcome(d, r) = Outcome(res, live, <<>>)
        \/ DeleteOutcome(d, r) = Outcome("Deleted", Merge(live, r.clock),
              <<RemoveFile(r.path), PutTomb(r.path, Merge(live, r.clock)), DropClock(r.path)>>)
    BY CompareInOrder, Zenon DEF DeleteOutcome, DeleteAgain, Order, live, tomb
  <2>4. Decide(d, r) = DeleteOutcome(d, r)
    BY <1>11, Zenon DEF Decide
  <2>. QED
    BY <1>8, <2>1, <2>2, <2>3, <2>4
<1>12. CASE r.op = "rename"
  <2>1. \A res, c, x : Keeps(Outcome(res, c, <<WriteFile(r.to, EmptyClock, NoData), DropTomb(r.path),
                                               DropTomb(r.to), PutClock(r.to, x)>>))
    <3>1. \A x : KeepsApart(<<WriteFile(r.to, EmptyClock, NoData), DropTomb(r.path), DropTomb(r.to),
                              PutClock(r.to, x)>>, cs, ts)
      BY <1>6, <1>9, Zenon
    <3>. QED
      BY <1>7, <3>1, Zenon
  <2>2. \A res, c, x : Keeps(Outcome(res, c, <<Move(r.path, r.to), DropClock(r.path),
                                               DropTomb(r.to), PutClock(r.to, x)>>))
    <3>1. \A x : KeepsApart(<<Move(r.path, r.to), DropClock(r.path), DropTomb(r.to),
                              PutClock(r.to, x)>>, cs, ts)
      BY <1>6, <1>9, Zenon
    <3>. QED
      BY <1>7, <3>1, Zenon
  <2>3. \/ \E res, c : RenameDeleted(r) = Outcome(res, c, <<>>)
        \/ RenameDeleted(r) = Failed
        \/ \E res, c, x : RenameDeleted(r) = Outcome(res, c,
              <<WriteFile(r.to, EmptyClock, NoData), DropTomb(r.path),
                DropTomb(r.to), PutClock(r.to, x)>>)
    BY Zenon DEF RenameDeleted
  <2>4. \/ RenameOutcome(d, r) \in {RenameDeleted(r), Failed}
        \/ \E res, c : RenameOutcome(d, r) = Outcome(res, c, <<>>)
        \/ \E res, c, x : RenameOutcome(d, r) = Outcome(res, c,
              <<Move(r.path, r.to), DropClock(r.path), DropTomb(r.to), PutClock(r.to, x)>>)
    BY Zenon DEF RenameOutcome, RenameLive
  <2>5. Decide(d, r) = RenameOutcome(d, r)
    BY <1>12, Zenon DEF Decide
  <2>. QED
    BY <1>8, <2>1, <2>2, <2>3, <2>4, <2>5
<1>. QED
  BY <1>10, <1>11, <1>12

\* What one operation leaves of the paths in the two stores.
LEMMA PathsAfter ==
  ASSUME NEW op, op.do \notin {"rekey_clocks", "rekey_tombs"}
  PROVE  LET cs == DOMAIN clocks
             ts == DOMAIN tombs
             cs2 == DOMAIN ClocksAfter(op)
             ts2 == DOMAIN TombsAfter(op)
         IN \/ op.do = "put_clock" /\ cs2 = cs \cup {op.path} /\ ts2 = ts
            \/ op.do = "drop_clock" /\ cs2 = cs \ {op.path} /\ ts2 = ts
            \/ op.do = "put_tomb" /\ ts2 = ts \cup {op.path} /\ cs2 = cs
            \/ op.do = "drop_tomb" /\ ts2 = ts \ {op.path} /\ cs2 = cs
            \/ /\ op.do \notin {"put_clock", "drop_clock", "put_tomb", "drop_tomb"}
               /\ cs2 = cs /\ ts2 = ts
<1>1. CASE op.do \in {"put_clock", "put_tomb", "drop_clock", "drop_tomb"}
  BY <1>1 DEF ClocksAfter, TombsAfter, With, Without
<1>2. CASE op.do \notin {"put_clock", "put_tomb", "drop_clock", "drop_tomb"}
  <2>1. ClocksAfter(op) = clocks /\ TombsAfter(op) = tombs
    BY <1>2, Zenon DEF ClocksAfter, TombsAfter
  <2>. QED
    BY <1>2, <2>1
<1>. QED
  BY <1>1, <1>2

\* Steps that leave the stores and every plan as they are.
LEMMA ApartElsewhere ==
  ASSUME Apart, UNCHANGED <<clocks, tombs, lock, plan>>
  PROVE  Apart'
  BY ApartStays

\* What both stores have under the lock, its holder is about to part; a file
\* operation comes first, when they have nothing in common.
LEMMA NothingInBoth ==
  ASSUME TypeInv, Apart, NEW d \in Device, pc[d] = "locked", OnDisk(Head(plan[d]))
  PROVE  \A p \in DOMAIN clocks \cap DOMAIN tombs : ~IsOriginal(p)
<1>1. plan[d] # <<>> /\ IsPlan(plan[d])
  BY DEF TypeInv, TypeOK, Shape
<1>2. 1 \in DOMAIN plan[d] /\ Head(plan[d]) = plan[d][1]
  BY <1>1, TailPlan
<1>3. KeepsApart(plan[d], DOMAIN clocks, DOMAIN tombs)
  BY DEF Apart, PlansKeepApart
<1>. QED
  BY <1>2, <1>3 DEF KeepsApart

\* What a handler decides on the stores it reads keeps them apart.
LEMMA AcquireApart ==
  ASSUME TypeInv, Apart, EditsTicked, NoMkdir, NEW d \in Device, Acquire(d)
  PROVE  Apart'
<1>. DEFINE o == Decide(d, req[d])
<1>1. /\ req[d] \in Request /\ req[d].op \in Mutation /\ lock = Unlocked
      /\ UNCHANGED <<clocks, tombs>>
  BY DEF Acquire, LockFree, TypeInv, Shape, store
<1>2. /\ req[d].op \in {"write", "stream", "delete", "rename"}
      /\ req[d].clock # EmptyClock
  BY <1>1 DEF EditsTicked, NoMkdir, Mutation
<1>3. KeepsApart(o.ops, DOMAIN clocks, DOMAIN tombs)
  BY <1>1, <1>2, DecideKeepsApart
<1>. HIDE DEF o
<1>4. CASE UNCHANGED <<lock, plan>>
  BY <1>1, <1>4, ApartElsewhere
<1>5. CASE lock' = d /\ plan' = [plan EXCEPT ![d] = o.ops]
  <2>1. DOMAIN plan = Device
    BY DEF TypeInv, Shape
  <2>2. PlansKeepApart'
    <3>. SUFFICES ASSUME NEW e \in Device
                  PROVE  KeepsApart(plan'[e], DOMAIN clocks, DOMAIN tombs)
      BY <1>1 DEF PlansKeepApart
    <3>1. CASE e = d
      BY <1>3, <1>5, <2>1, <3>1
    <3>2. CASE e # d
      BY <1>5, <3>2 DEF Apart, PlansKeepApart
    <3>. QED
      BY <3>1, <3>2
  <2>3. \A s : WillPart(s, DOMAIN clocks, DOMAIN tombs)
    BY <1>1 DEF Apart, BothOnlyWhileDeleting, WillPart
  <2>4. BothOnlyWhileDeleting'
    BY <1>1, <2>3, Zenon DEF BothOnlyWhileDeleting
  <2>5. TombsAreSeen'
    BY <1>1 DEF Apart, TombsAreSeen, Tombed, TombClock, ClockIn
  <2>. QED
    BY <2>2, <2>4, <2>5 DEF Apart
<1>6. UNCHANGED <<lock, plan>> \/ (lock' = d /\ plan' = [plan EXCEPT ![d] = o.ops])
  BY Zenon DEF Acquire, o
<1>. QED
  BY <1>4, <1>5, <1>6

\* A tombstone is put with a clock that is not empty.
LEMMA TombsStaySeen ==
  ASSUME TombsAreSeen, NEW op, op.do \notin {"rekey_clocks", "rekey_tombs"},
         op.do = "put_tomb" => op.clock # EmptyClock, tombs' = TombsAfter(op)
  PROVE  TombsAreSeen'
<1>1. \/ op.do = "put_tomb" /\ \E at : tombs' = With(tombs, op.path, [clock |-> op.clock, at |-> at])
      \/ tombs' = Without(tombs, {op.path})
      \/ tombs' = tombs
  BY Zenon DEF TombsAfter
<1>2. \A p \in DOMAIN tombs : tombs[p].clock # EmptyClock
  BY DEF TombsAreSeen, Tombed, TombClock, ClockIn
<1>3. \A p \in DOMAIN tombs' : tombs'[p].clock # EmptyClock
  BY <1>1, <1>2 DEF With, Without
<1>. QED
  BY <1>3 DEF TombsAreSeen, Tombed, TombClock, ClockIn

\* One operation of a plan keeps the stores apart, or puts a tombstone beside a
\* clock that the plan is about to drop (delete_file).
LEMMA StepApart ==
  ASSUME TypeInv, Apart, NEW d \in Device, Step(d)
  PROVE  Apart'
<1>. DEFINE s == plan[d]
            op == Head(plan[d])
            cs == DOMAIN clocks
            ts == DOMAIN tombs
            cs2 == DOMAIN clocks'
            ts2 == DOMAIN tombs'
<1>1. /\ pc[d] = "locked" /\ clocks' = ClocksAfter(op) /\ tombs' = TombsAfter(op)
      /\ plan' = [plan EXCEPT ![d] = Tail(@)]
      /\ IF Tail(s) = <<>> THEN lock' = Unlocked ELSE lock' = lock
  BY DEF Step
<1>2. /\ lock = d /\ s # <<>> /\ IsPlan(s) /\ DOMAIN plan = Device
      /\ \A e \in Device \ {d} : plan[e] = <<>>
  BY <1>1 DEF TypeInv, TypeOK, Shape
<1>3. op = s[1] /\ 1 \in DOMAIN s
  BY <1>2, TailPlan
<1>4. KeepsApart(s, cs, ts) /\ WillPart(s, cs, ts)
  BY <1>2 DEF Apart, PlansKeepApart, BothOnlyWhileDeleting
<1>5. /\ op.do \notin {"rekey_clocks", "rekey_tombs"}
      /\ op.do = "put_tomb" => op.clock # EmptyClock
  BY <1>3, <1>4 DEF KeepsApart
<1>6. \/ op.do = "put_clock" /\ cs2 = cs \cup {op.path} /\ ts2 = ts
      \/ op.do = "drop_clock" /\ cs2 = cs \ {op.path} /\ ts2 = ts
      \/ op.do = "put_tomb" /\ ts2 = ts \cup {op.path} /\ cs2 = cs
      \/ op.do = "drop_tomb" /\ ts2 = ts \ {op.path} /\ cs2 = cs
      \/ /\ op.do \notin {"put_clock", "drop_clock", "put_tomb", "drop_tomb"}
         /\ cs2 = cs /\ ts2 = ts
  BY <1>1, <1>5, PathsAfter
<1>7. KeepsApart(Tail(s), cs2, ts2) /\ WillPart(Tail(s), cs2, ts2)
  <2>. HIDE DEF s, op, cs, ts, cs2, ts2
  <2>. QED
    BY <1>2, <1>3, <1>4, <1>6, TailKeepsApart
<1>8. plan'[d] = Tail(s) /\ \A e \in Device \ {d} : plan'[e] = <<>>
  BY <1>1, <1>2
<1>. HIDE DEF s, op, cs2, ts2
<1>9. PlansKeepApart'
  BY <1>7, <1>8, EmptyPlanKeepsApart DEF PlansKeepApart, cs2, ts2
<1>10. BothOnlyWhileDeleting'
  <2>1. CASE Tail(s) = <<>>
    BY <1>1, <1>7, <2>1, FileHostAssumption DEF BothOnlyWhileDeleting, cs2, ts2
  <2>2. CASE Tail(s) # <<>>
    BY <1>1, <1>2, <1>7, <1>8, <2>2, FileHostAssumption DEF BothOnlyWhileDeleting, cs2, ts2
  <2>. QED
    BY <2>1, <2>2
<1>11. TombsAreSeen'
  BY <1>1, <1>5, TombsStaySeen DEF Apart
<1>. QED
  BY <1>9, <1>10, <1>11 DEF Apart

\* A plan that fails does so in the directory, before it touches a store.
LEMMA StepFailsApart ==
  ASSUME TypeInv, Apart, NEW d \in Device, StepFails(d)
  PROVE  Apart'
<1>1. /\ pc[d] = "locked" /\ ~Possible(Head(plan[d])) /\ plan' = [plan EXCEPT ![d] = <<>>]
      /\ lock' = Unlocked /\ UNCHANGED <<clocks, tombs>>
  BY DEF StepFails, GiveUpTheLock, store
<1>2. OnDisk(Head(plan[d]))
  BY <1>1, Zenon DEF Possible, OnDisk
<1>3. \A e \in Device : plan'[e] \in {plan[e], <<>>}
  BY <1>1 DEF TypeInv, Shape
<1>. QED
  BY <1>1, <1>2, <1>3, NothingInBoth, ApartStays

\* A handler that is done, or dropped at its first operation, leaves no path in
\* both stores.
LEMMA ForgetApart ==
  ASSUME TypeInv, Apart, NEW d \in Device, Forget(d), UNCHANGED <<clocks, tombs>>,
         \/ pc[d] # "locked" /\ lock' = lock
         \/ pc[d] = "locked" /\ OnDisk(Head(plan[d])) /\ lock' = Unlocked
  PROVE  Apart'
<1>1. \A e \in Device : plan'[e] \in {plan[e], <<>>}
  BY ForgetFacts
<1>2. CASE pc[d] # "locked" /\ lock' = lock
  <2>1. lock # d /\ \A e \in Device \ {d} : plan'[e] = plan[e]
    BY <1>2, ForgetFacts DEF TypeInv, TypeOK
  <2>. QED
    BY <1>1, <1>2, <2>1, ApartStays
<1>3. CASE pc[d] = "locked" /\ OnDisk(Head(plan[d])) /\ lock' = Unlocked
  BY <1>1, <1>3, NothingInBoth, ApartStays
<1>. QED
  BY <1>2, <1>3

\* Every step but a crash keeps the stores apart.
LEMMA NextApart ==
  ASSUME NoMkdir, EditsTicked, NoCrash, TypeInv, Apart, [Next]_vars
  PROVE  Apart'
<1>1. ASSUME NEW d \in Device, EnsureParent(d) \/ Stage(d) \/ Look(d)
      PROVE  Apart'
  BY <1>1, ApartElsewhere DEF EnsureParent, Stage, Look, StatFile, StatClock, ReadFile, ListDir, store
<1>2. ASSUME NEW d \in Device, NEW r \in Request, Submit(d, r)
      PROVE  Apart'
  BY <1>2, ApartElsewhere DEF Submit, store
<1>3. ASSUME NEW d \in Device, Return(d) \/ Disconnect(d)
      PROVE  Apart'
  BY <1>3, ForgetApart
  DEF Return, Disconnect, DropBeforeLock, DropUnderLock, GiveUpTheLock, store
<1>4. ASSUME NEW op \in detached, Detached(op)
      PROVE  Apart'
  BY <1>4, ApartElsewhere DEF Detached, store, rpc
<1>5. CASE Gc
  <2>1. /\ UNCHANGED <<lock, rpc>>
        /\ DOMAIN clocks' \subseteq DOMAIN clocks
        /\ \A p \in DOMAIN tombs' : p \in DOMAIN tombs /\ tombs'[p] = tombs[p]
    BY <1>5, GcOnlyRemoves
  <2>. QED
    BY <2>1, ApartStays DEF rpc
<1>6. CASE Second \/ UNCHANGED vars
  BY <1>6, ApartElsewhere DEF Second, vars, store, rpc
<1>7. ~Crash
  BY DEF NoCrash, Crash
<1>8. ASSUME NEW d \in Device, Acquire(d) \/ Step(d) \/ StepFails(d)
      PROVE  Apart'
  BY <1>8, AcquireApart, StepApart, StepFailsApart
<1>. QED
  BY <1>1, <1>2, <1>3, <1>4, <1>5, <1>6, <1>7, <1>8, Zenon DEF Next, Serve, Handle

\* The stores are apart when the agent first starts: both are empty.
LEMMA InitApart == Init => Apart
<1>. SUFFICES ASSUME Init PROVE Apart
  OBVIOUS
<1>1. DOMAIN clocks = {} /\ DOMAIN tombs = {} /\ lock = Unlocked
      /\ \A d \in Device : plan[d] = <<>>
  BY DEF Init, EmptyMap
<1>. QED
  BY <1>1, EmptyPlanKeepsApart, FileHostAssumption
  DEF Apart, PlansKeepApart, BothOnlyWhileDeleting, WillPart, TombsAreSeen

\* The inductive invariant: a plan changes the directory before the stores,
\* drops a tombstone before it puts the clock of its path, and the clock after
\* it has put the tombstone (write_file, delete_file, rename_file).
THEOREM StoresKeptApart ==
  NoMkdir /\ EditsTicked /\ NoCrash => (Spec => []OneStoreInv)
<1>. SUFFICES ASSUME NoMkdir, EditsTicked, NoCrash PROVE Spec => []OneStoreInv
  OBVIOUS
<1>1. Init => OneStoreInv
  BY InitType, InitApart DEF OneStoreInv, Apart
<1>2. OneStoreInv /\ [Next]_vars => OneStoreInv'
  BY NextType, NextApart DEF OneStoreInv, Apart
<1>. QED
  BY <1>1, <1>2, PTL DEF Spec

\* For every set of devices and requests, and however the collector and lost
\* connections fall in, no path has both a clock and a tombstone while nobody
\* holds write_lock, as long as no directory is made, every request carries an
\* edit and the agent does not die (the comment on FileServiceImpl.tombstones).
THEOREM OneStore ==
  NoMkdir /\ EditsTicked /\ NoCrash => (Spec => []OneStorePerName)
<1>1. OneStoreInv => OneStorePerName
  BY DEF OneStoreInv, BothOnlyWhileDeleting, WillPart, OneStorePerName
<1>. QED
  BY <1>1, StoresKeptApart, PTL

-----------------------------------------------------------------------------
(* What the handlers decide.                                                *)

\* The plans of the handlers that make no directory, operation by operation
\* (write_file, write_file_stream, delete_file, rename_file).
LEMMA Decisions ==
  ASSUME TypeInv, Apart, lock = Unlocked, NEW d \in Device, NEW r \in Request,
         r.op \in {"write", "stream", "delete", "rename"}
  PROVE  LET o    == Decide(d, r)
             s    == Decide(d, r).ops
             p    == r.path
             live == Merge(LiveClock(p), r.clock)
             tomb == Merge(TombClock(p), r.clock)
             copy == ConflictPath(p, d)
         IN \/ s = <<>>
            \/ /\ r.op \in {"write", "stream"} /\ p \in DOMAIN tombs
               /\ s = <<Store(d, r, p), DropTomb(p), PutClock(p, tomb)>>
               /\ o.result \in {"Applied", "Conflict"} /\ o.clock = tomb
            \/ /\ r.op \in {"write", "stream"} /\ p \notin DOMAIN tombs
               /\ s = <<Store(d, r, p), PutClock(p, live)>>
               /\ o.result = "Applied" /\ o.clock = live
            \/ /\ r.op \in {"write", "stream"} /\ p \notin DOMAIN tombs
               /\ s = <<Store(d, r, copy), PutClock(copy, r.clock)>>
               /\ o.result = "Conflict"
            \/ /\ r.op = "delete" /\ p \in DOMAIN tombs
               /\ s = <<PutTomb(p, tomb)>>
               /\ o.result = "Deleted" /\ o.clock = tomb
            \/ /\ r.op = "delete" /\ p \notin DOMAIN tombs
               /\ s = <<RemoveFile(p), PutTomb(p, live), DropClock(p)>>
               /\ o.result = "Deleted" /\ o.clock = live
            \/ /\ r.op = "rename" /\ p \in DOMAIN tombs
               /\ s = <<WriteFile(r.to, EmptyClock, NoData), DropTomb(p), DropTomb(r.to),
                        PutClock(r.to, tomb)>>
               /\ o.result \in {"Renamed", "Conflict"} /\ o.clock = tomb
            \/ /\ r.op = "rename" /\ p \notin DOMAIN tombs
               /\ s = <<Move(p, r.to), DropClock(p), DropTomb(r.to), PutClock(r.to, live)>>
               /\ o.result = "Renamed" /\ o.clock = live
<1>. DEFINE p == r.path
            o == Decide(d, r)
            s == Decide(d, r).ops
            live == Merge(LiveClock(p), r.clock)
            tomb == Merge(TombClock(p), r.clock)
            copy == ConflictPath(p, d)
<1>1. Tombed(p) <=> p \in DOMAIN tombs
  BY DEF Apart, TombsAreSeen, Tombed, TombClock, ClockIn
<1>2. \A res, c, ops : /\ Outcome(res, c, ops).ops = ops
                       /\ Outcome(res, c, ops).result = res /\ Outcome(res, c, ops).clock = c
  BY DEF Outcome
<1>3. Failed.ops = <<>>
  BY DEF Failed, Outcome
<1>4. CASE r.op \in {"write", "stream"}
  <2>1. Decide(d, r) = WriteOutcome(d, r)
    BY <1>4, Zenon DEF Decide
  <2>2. CASE WriteOutcome(d, r) = Failed
    BY <1>3, <2>1, <2>2
  <2>3. CASE Tombed(p) /\ WriteOutcome(d, r) = WriteOverTombstone(d, r)
    <3>1. \/ \E res, c : o = Outcome(res, c, <<>>)
          \/ \E res \in {"Applied", "Conflict"} :
               o = Outcome(res, tomb, <<Store(d, r, p), DropTomb(p), PutClock(p, tomb)>>)
      BY <2>1, <2>3, Zenon DEF WriteOverTombstone, Revive
    <3>2. \/ s = <<>>
          \/ /\ s = <<Store(d, r, p), DropTomb(p), PutClock(p, tomb)>>
             /\ o.result \in {"Applied", "Conflict"} /\ o.clock = tomb
      BY <1>2, <3>1
    <3>. QED
      BY <1>1, <1>4, <2>3, <3>2, Zenon
  <2>4. CASE ~Tombed(p) /\ WriteOutcome(d, r) = WriteOverLive(d, r)
    <3>1. \/ \E res, c : o = Outcome(res, c, <<>>)
          \/ o = Outcome("Applied", live, <<Store(d, r, p), PutClock(p, live)>>)
          \/ \E c : o = Outcome("Conflict", c, <<Store(d, r, copy), PutClock(copy, r.clock)>>)
      BY CompareInOrder, <2>1, <2>4, Zenon DEF WriteOverLive, Order
    <3>2. \/ s = <<>>
          \/ /\ s = <<Store(d, r, p), PutClock(p, live)>>
             /\ o.result = "Applied" /\ o.clock = live
          \/ s = <<Store(d, r, copy), PutClock(copy, r.clock)>> /\ o.result = "Conflict"
      BY <1>2, <3>1
    <3>. QED
      BY <1>1, <1>4, <2>4, <3>2, Zenon
  <2>. QED
    BY <2>2, <2>3, <2>4, Zenon DEF WriteOutcome
<1>5. CASE r.op = "delete"
  <2>1. Decide(d, r) = DeleteOutcome(d, r)
    BY <1>5, Zenon DEF Decide
  <2>2. CASE Tombed(p)
    <3>1. o = Outcome("Deleted", tomb, <<PutTomb(p, tomb)>>)
      BY <2>1, <2>2, Zenon DEF DeleteOutcome, DeleteAgain
    <3>2. s = <<PutTomb(p, tomb)>> /\ o.result = "Deleted" /\ o.clock = tomb
      BY <1>2, <3>1
    <3>. QED
      BY <1>1, <1>5, <2>2, <3>2, Zenon
  <2>3. CASE ~Tombed(p)
    <3>1. \/ \E res, c : o = Outcome(res, c, <<>>)
          \/ o = Outcome("Deleted", live, <<RemoveFile(p), PutTomb(p, live), DropClock(p)>>)
      BY CompareInOrder, <2>1, <2>3, Zenon DEF DeleteOutcome, Order
    <3>2. \/ s = <<>>
          \/ /\ s = <<RemoveFile(p), PutTomb(p, live), DropClock(p)>>
             /\ o.result = "Deleted" /\ o.clock = live
      BY <1>2, <3>1
    <3>. QED
      BY <1>1, <1>5, <2>3, <3>2, Zenon
  <2>. QED
    BY <2>2, <2>3
<1>6. CASE r.op = "rename"
  <2>1. Decide(d, r) = RenameOutcome(d, r)
    BY <1>6, Zenon DEF Decide
  <2>2. CASE Tombed(p)
    <3>1. \/ o = Failed
          \/ \E res, c : o = Outcome(res, c, <<>>)
          \/ \E res \in {"Renamed", "Conflict"} :
               o = Outcome(res, tomb,
                     <<WriteFile(r.to, EmptyClock, NoData), DropTomb(p), DropTomb(r.to),
                       PutClock(r.to, tomb)>>)
      BY <2>1, <2>2, Zenon DEF RenameOutcome, RenameDeleted
    <3>2. \/ s = <<>>
          \/ /\ s = <<WriteFile(r.to, EmptyClock, NoData), DropTomb(p), DropTomb(r.to),
                      PutClock(r.to, tomb)>>
             /\ o.result \in {"Renamed", "Conflict"} /\ o.clock = tomb
      BY <1>2, <1>3, <3>1
    <3>. QED
      BY <1>1, <1>6, <2>2, <3>2, Zenon
  <2>3. CASE ~Tombed(p)
    <3>1. \/ o = Failed
          \/ \E res, c : o = Outcome(res, c, <<>>)
          \/ o = Outcome("Renamed", live,
                         <<Move(p, r.to), DropClock(p), DropTomb(r.to), PutClock(r.to, live)>>)
      BY <2>1, <2>3, Zenon DEF RenameOutcome, RenameLive
    <3>2. \/ s = <<>>
          \/ /\ s = <<Move(p, r.to), DropClock(p), DropTomb(r.to), PutClock(r.to, live)>>
             /\ o.result = "Renamed" /\ o.clock = live
      BY <1>2, <1>3, <3>1
    <3>. QED
      BY <1>1, <1>6, <2>3, <3>2, Zenon
  <2>. QED
    BY <2>2, <2>3
<1>. QED
  BY <1>4, <1>5, <1>6, Zenon

-----------------------------------------------------------------------------
(* Paths and the directory.                                                 *)

\* A prefix of a prefix of a path is a prefix of the path.
LEMMA PrefixOfPrefix ==
  ASSUME NEW p \in Seq(Leaf), NEW n \in 0..Len(p), NEW m \in 0..n
  PROVE  /\ SubSeq(p, 1, n) \in Seq(Leaf) /\ Len(SubSeq(p, 1, n)) = n
         /\ SubSeq(SubSeq(p, 1, n), 1, m) = SubSeq(p, 1, m)
<1>1. ASSUME NEW s \in Seq(Leaf), NEW k \in 0..Len(s)
      PROVE  /\ SubSeq(s, 1, k) \in Seq(Leaf) /\ Len(SubSeq(s, 1, k)) = k
             /\ \A i \in 1..k : SubSeq(s, 1, k)[i] = s[i]
  <2>1. k \in Nat /\ \A i \in 1..k : s[i] \in Leaf
    BY <1>1
  <2>2. /\ SubSeq(s, 1, k) \in Seq(Leaf)
        /\ Len(SubSeq(s, 1, k)) = IF 1 <= k THEN k - 1 + 1 ELSE 0
        /\ \A i \in 1..(k - 1 + 1) : SubSeq(s, 1, k)[i] = s[1 + i - 1]
    BY <2>1, SubSeqProperties
  <2>3. Len(SubSeq(s, 1, k)) = k
    BY <2>1, <2>2
  <2>4. ASSUME NEW i \in 1..k PROVE SubSeq(s, 1, k)[i] = s[i]
    <3>1. i \in 1..(k - 1 + 1) /\ 1 + i - 1 = i
      BY <2>1
    <3>. QED
      BY <2>2, <3>1
  <2>. QED
    BY <2>2, <2>3, <2>4
<1>. DEFINE q == SubSeq(p, 1, n)
<1>2. q \in Seq(Leaf) /\ Len(q) = n /\ \A i \in 1..n : q[i] = p[i]
  BY <1>1
<1>. HIDE DEF q
<1>3. m \in 0..Len(p) /\ m \in 0..Len(q) /\ m \in Nat
  BY <1>2
<1>4. /\ SubSeq(q, 1, m) \in Seq(Leaf) /\ Len(SubSeq(q, 1, m)) = m
      /\ SubSeq(p, 1, m) \in Seq(Leaf) /\ Len(SubSeq(p, 1, m)) = m
      /\ \A i \in 1..m : SubSeq(q, 1, m)[i] = q[i] /\ SubSeq(p, 1, m)[i] = p[i]
  BY <1>1, <1>2, <1>3
<1>5. \A i \in 1..m : q[i] = p[i]
  BY <1>2
<1>6. SubSeq(q, 1, m) = SubSeq(p, 1, m)
  BY <1>3, <1>4, <1>5, SeqEqual
<1>. QED
  BY <1>2, <1>6 DEF q

\* What is above a path is a path, and what is above that is above the path.
LEMMA AncestorsOfAncestors ==
  ASSUME NEW p \in Path, NEW a \in Ancestors(p)
  PROVE  a \in Path /\ Ancestors(a) \subseteq Ancestors(p) /\ a # p
<1>1. p \in Seq(Leaf) /\ Len(p) \in Nat
  BY DEF Path
<1>2. PICK n \in 0..(Len(p) - 1) : a = SubSeq(p, 1, n)
  BY DEF Ancestors
<1>3. n \in 0..Len(p) /\ a \in Seq(Leaf) /\ Len(a) = n
  BY <1>1, <1>2, PrefixOfPrefix
<1>4. \A m \in 0..(n - 1) : m \in 0..(Len(p) - 1) /\ SubSeq(a, 1, m) = SubSeq(p, 1, m)
  BY <1>1, <1>2, <1>3, PrefixOfPrefix
<1>. QED
  BY <1>1, <1>2, <1>3, <1>4 DEF Ancestors, Path

\* The parent of a path and what is above it are what is above the path.
LEMMA AncestorsOfPath ==
  ASSUME NEW p \in Path \ {Root}
  PROVE  /\ Parent(p) \in Path
         /\ Parent(p) \in Ancestors(p)
         /\ Ancestors(p) = {Parent(p)} \cup Ancestors(Parent(p))
<1>1. p \in Seq(Leaf) /\ Len(p) \in Nat \ {0}
  BY DEF Path, Root
<1>. DEFINE n == Len(p)
            q == Parent(p)
<1>2. q \in Seq(Leaf) /\ Len(q) = n - 1 /\ \A m \in 0..(n - 1) : SubSeq(q, 1, m) = SubSeq(p, 1, m)
  <2>1. n - 1 \in 0..Len(p) /\ 0 \in 0..(n - 1) /\ q = SubSeq(p, 1, n - 1)
    BY <1>1 DEF Parent
  <2>. HIDE DEF q
  <2>2. \A k \in 0..Len(p) : \A m \in 0..k :
          /\ SubSeq(p, 1, k) \in Seq(Leaf) /\ Len(SubSeq(p, 1, k)) = k
          /\ SubSeq(SubSeq(p, 1, k), 1, m) = SubSeq(p, 1, m)
    BY <1>1, PrefixOfPrefix
  <2>. HIDE DEF n
  <2>. QED
    BY <2>1, <2>2
<1>. HIDE DEF q
<1>3. Ancestors(q) = {SubSeq(p, 1, m) : m \in 0..(n - 2)}
  BY <1>1, <1>2 DEF Ancestors
<1>4. 0..(n - 1) = (0..(n - 2)) \cup {n - 1}
  BY <1>1
<1>5. Ancestors(p) = {SubSeq(p, 1, n - 1)} \cup {SubSeq(p, 1, m) : m \in 0..(n - 2)}
  BY <1>4 DEF Ancestors
<1>6. Ancestors(p) = {q} \cup Ancestors(q)
  BY <1>3, <1>5 DEF Parent, q
<1>. QED
  BY <1>2, <1>6 DEF Path, q

\* What is within a path and is not the path has it for an ancestor.
LEMMA WithinIsBelow ==
  ASSUME NEW a \in Path, NEW p \in Path, Within(a, p), p # a
  PROVE  a \in Ancestors(p)
<1>1. a \in Seq(Leaf) /\ p \in Seq(Leaf) /\ Len(a) \in Nat /\ Len(p) \in Nat
  BY DEF Path
<1>2. Len(a) <= Len(p) /\ SubSeq(p, 1, Len(a)) = a
  BY DEF Within
<1>3. Len(a) # Len(p)
  <2>1. SubSeq(p, 1, Len(p)) = p
    BY <1>1
  <2>. QED
    BY <1>2, <2>1
<1>4. Len(a) \in 0..(Len(p) - 1)
  BY <1>1, <1>2, <1>3
<1>. QED
  BY <1>2, <1>4 DEF Ancestors

\* A move of what nothing is below moves that alone.
LEMMA MovedAlone ==
  ASSUME NEW f, NEW from \in Path \cap DOMAIN f, NEW to \in Path,
         \A p \in DOMAIN f : Within(from, p) => p = from
  PROVE  Moved(f, from, to) = [q \in (DOMAIN f \ {from}) \cup {to} |->
                                 IF q = to THEN f[from] ELSE f[q]]
<1>. DEFINE source == {p \in DOMAIN f : Within(from, p)}
            target == {Rebase(p, from, to) : p \in source}
<1>1. from \in Seq(Leaf) /\ to \in Seq(Leaf) /\ Len(from) \in Nat
  BY DEF Path
<1>2. Within(from, from)
  BY <1>1 DEF Within
<1>3. source = {from}
  BY <1>2
<1>4. Rebase(from, from, to) = to
  <2>1. SubSeq(from, Len(from) + 1, Len(from)) = <<>>
    BY <1>1
  <2>2. to \o <<>> = to
    BY <1>1
  <2>. QED
    BY <2>1, <2>2 DEF Rebase
<1>5. target = {to}
  BY <1>3, <1>4
<1>6. (CHOOSE p \in source : Rebase(p, from, to) = to) = from
  BY <1>3, <1>4
<1>7. Moved(f, from, to) = [q \in (DOMAIN f \ source) \cup target |->
        IF q \in target THEN f[CHOOSE p \in source : Rebase(p, from, to) = q] ELSE f[q]]
  BY Zenon DEF Moved
<1>. HIDE DEF source, target
<1>. QED
  BY <1>3, <1>5, <1>6, <1>7

\* The copies a host makes next to a file: the staged one and the conflict copy.
LEMMA CopiedPaths ==
  ASSUME NEW p \in Path \ {Root}, NEW d \in Device, now \in Nat
  PROVE  /\ TempPath(p, d) \in Path \ {Root} /\ ~IsOriginal(TempPath(p, d))
         /\ Parent(TempPath(p, d)) = Parent(p)
         /\ ConflictPath(p, d) \in Path \ {Root}
<1>. DEFINE n == Len(p)
            S == [by : Device, at : Nat]
<1>1. /\ n \in Nat \ {0} /\ n \in 1..n /\ p \in Seq(Leaf)
      /\ p[n] \in Leaf /\ DOMAIN p = 1..n
  BY DEF Path, Root
<1>2. ASSUME NEW x \in Leaf
      PROVE  LET q == [p EXCEPT ![n] = x]
             IN q \in Path \ {Root} /\ q[Len(q)] = x /\ Parent(q) = Parent(p)
  <2>. DEFINE q == [p EXCEPT ![n] = x]
  <2>1. q \in Seq(Leaf) /\ DOMAIN q = 1..n /\ q[n] = x
    BY <1>1, ExceptSeq
  <2>2. Len(q) = n /\ q # <<>>
    BY <1>1, <2>1, LenProperties
  <2>3. Parent(q) = Parent(p)
    <3>1. n - 1 \in Nat /\ \A i \in 1..(n - 1) : q[i] = p[i] /\ p[i] \in Leaf /\ q[i] \in Leaf
      BY <1>1
    <3>. HIDE DEF q
    <3>2. /\ SubSeq(q, 1, n - 1) \in Seq(Leaf) /\ SubSeq(p, 1, n - 1) \in Seq(Leaf)
          /\ Len(SubSeq(q, 1, n - 1)) = Len(SubSeq(p, 1, n - 1))
          /\ Len(SubSeq(q, 1, n - 1)) = IF 1 <= n - 1 THEN (n - 1) - 1 + 1 ELSE 0
          /\ \A i \in 1..((n - 1) - 1 + 1) : /\ SubSeq(q, 1, n - 1)[i] = q[1 + i - 1]
                                            /\ SubSeq(p, 1, n - 1)[i] = p[1 + i - 1]
      <4>. HIDE DEF n
      <4>. QED  BY <3>1, SubSeqProperties
    <3>3. \A i \in 1..(n - 1) : SubSeq(q, 1, n - 1)[i] = SubSeq(p, 1, n - 1)[i]
      <4>. TAKE i \in 1..(n - 1)
      <4>1. i \in 1..((n - 1) - 1 + 1) /\ 1 + i - 1 = i
        BY <3>1
      <4>. QED  BY <3>1, <3>2, <4>1
    <3>4. SubSeq(q, 1, n - 1) = SubSeq(p, 1, n - 1)
      BY <3>1, <3>2, <3>3, SeqEqual
    <3>. QED
      BY <2>2, <3>4 DEF Parent
  <2>. QED
    BY <2>1, <2>2, <2>3 DEF Path, Root
<1>3. ASSUME NEW t \in Nat
      PROVE  LET x == [p[n] EXCEPT !.copies = Append(@, [by |-> d, at |-> t])]
             IN x \in Leaf /\ x.copies # <<>>
  <2>1. p[n] \in [name : STRING, copies : Seq(S)] /\ [by |-> d, at |-> t] \in S
    BY <1>1 DEF Leaf
  <2>2. /\ Append(p[n].copies, [by |-> d, at |-> t]) \in Seq(S)
        /\ Append(p[n].copies, [by |-> d, at |-> t]) # <<>>
    BY <2>1
  <2>. HIDE DEF S
  <2>3. LET x == [p[n] EXCEPT !.copies = Append(@, [by |-> d, at |-> t])]
        IN x \in [name : STRING, copies : Seq(S)] /\ x.copies # <<>>
    BY <2>1, <2>2
  <2>. QED
    BY <2>3 DEF Leaf, S
<1>4. /\ ConflictPath(p, d) =
           [p EXCEPT ![n] = [p[n] EXCEPT !.copies = Append(@, [by |-> d, at |-> now])]]
      /\ TempPath(p, d) =
           [p EXCEPT ![n] = [p[n] EXCEPT !.copies = Append(@, [by |-> d, at |-> 0])]]
  BY DEF ConflictPath, TempPath
<1>5. ConflictPath(p, d) \in Path \ {Root}
  BY <1>2, <1>3, <1>4
<1>6. /\ TempPath(p, d) \in Path \ {Root} /\ Parent(TempPath(p, d)) = Parent(p)
      /\ TempPath(p, d)[Len(TempPath(p, d))].copies # <<>>
  <2>. DEFINE x == [p[n] EXCEPT !.copies = Append(@, [by |-> d, at |-> 0])]
  <2>1. x \in Leaf /\ x.copies # <<>>
    BY <1>3
  <2>. HIDE DEF x
  <2>2. LET q == [p EXCEPT ![n] = x]
        IN q \in Path \ {Root} /\ q[Len(q)] = x /\ Parent(q) = Parent(p)
    BY <1>2, <2>1
  <2>3. TempPath(p, d) = [p EXCEPT ![n] = x]
    BY <1>4 DEF x
  <2>. QED
    BY <2>1, <2>2, <2>3
<1>. QED
  BY <1>5, <1>6 DEF IsOriginal

-----------------------------------------------------------------------------
(* RegularFiles where nothing was deleted.                                         *)

\* Nothing is below what is not a directory.
LEMMA NothingBelow ==
  ASSUME Tree, NEW from \in DOMAIN disk, ~IsDir(from)
  PROVE  \A p \in DOMAIN disk : Within(from, p) => p = from
BY WithinIsBelow DEF Tree

\* The directory stays a tree when its directories stay and what is new has a
\* parent.
LEMMA TreeStays ==
  ASSUME Tree, OnlyParents,
         \A p : p \in DOMAIN disk' /\ disk'[p].kind = "dir" <=> IsDir(p),
         \A p \in DOMAIN disk' :
           p \in DOMAIN disk \/ (p \in Path \ {Root} /\ IsDir(Parent(p)))
  PROVE  Tree' /\ OnlyParents'
<1>1. ASSUME NEW p \in DOMAIN disk'
      PROVE  p \in Path /\ \A a \in Ancestors(p) : IsDir(a)
  <2>1. CASE p \in DOMAIN disk
    BY <2>1 DEF Tree
  <2>2. CASE p \in Path \ {Root} /\ IsDir(Parent(p))
    <3>1. \A a \in Ancestors(Parent(p)) : IsDir(a)
      BY <2>2 DEF Tree, IsDir, Exists
    <3>. QED
      BY <2>2, <3>1, AncestorsOfPath
  <2>. QED
    BY <1>1, <2>1, <2>2
<1>2. Tree'
  BY <1>1 DEF Tree, IsDir, Exists
<1>3. OnlyParents'
  BY DEF OnlyParents, IsDir, Exists
<1>. QED
  BY <1>2, <1>3

\* A file that comes, goes or moves leaves the directory a tree.
LEMMA FileComes ==
  ASSUME Tree, OnlyParents, NEW p \in Path \ {Root}, ~IsDir(p), IsDir(Parent(p)),
         NEW x, x.kind = "file", disk' = With(disk, p, x)
  PROVE  Tree' /\ OnlyParents' /\ RegularFiles' \subseteq RegularFiles \cup {p}
<1>1. \A q : q \in DOMAIN disk' /\ disk'[q].kind = "dir" <=> IsDir(q)
  BY DEF IsDir, Exists, With
<1>2. RegularFiles' \subseteq RegularFiles \cup {p}
  BY DEF RegularFiles, IsFile, Exists, With
<1>3. \A q \in DOMAIN disk' : q \in DOMAIN disk \/ q = p
  BY DEF With
<1>4. \A q \in DOMAIN disk' :
        q \in DOMAIN disk \/ (q \in Path \ {Root} /\ IsDir(Parent(q)))
  BY <1>3, Zenon
<1>5. Tree' /\ OnlyParents'
  BY <1>1, <1>4, TreeStays, Zenon
<1>. QED
  BY <1>2, <1>5

LEMMA FileGoes ==
  ASSUME Tree, OnlyParents, NEW p, ~IsDir(p), disk' = Without(disk, {p})
  PROVE  Tree' /\ OnlyParents' /\ RegularFiles' = RegularFiles \ {p}
<1>1. \A q : q \in DOMAIN disk' /\ disk'[q].kind = "dir" <=> IsDir(q)
  BY DEF IsDir, Exists, Without
<1>2. RegularFiles' = RegularFiles \ {p}
  BY DEF RegularFiles, IsFile, Exists, Without
<1>3. \A q \in DOMAIN disk' : q \in DOMAIN disk 
  BY DEF Without
<1>4. \A q \in DOMAIN disk' :
        q \in DOMAIN disk \/ (q \in Path \ {Root} /\ IsDir(Parent(q)))
  BY <1>3, Zenon
<1>5. Tree' /\ OnlyParents'
  BY <1>1, <1>4, TreeStays, Zenon
<1>. QED
  BY <1>2, <1>5

LEMMA FileMoves ==
  ASSUME Tree, OnlyParents, NEW from \in DOMAIN disk, ~IsDir(from),
         NEW to \in Path \ {Root}, ~IsDir(to), IsDir(Parent(to)),
         disk' = Moved(disk, from, to)
  PROVE  /\ Tree' /\ OnlyParents' /\ RegularFiles' \subseteq RegularFiles \cup {to}
         /\ disk' = [q \in (DOMAIN disk \ {from}) \cup {to} |->
                       IF q = to THEN disk[from] ELSE disk[q]]
<1>1. from \in Path
  BY DEF Tree
<1>2. disk' = [q \in (DOMAIN disk \ {from}) \cup {to} |-> IF q = to THEN disk[from] ELSE disk[q]]
  <2>1. \A p \in DOMAIN disk : Within(from, p) => p = from
    BY NothingBelow
  <2>2. Moved(disk, from, to) = [q \in (DOMAIN disk \ {from}) \cup {to} |->
                                   IF q = to THEN disk[from] ELSE disk[q]]
    BY <1>1, <2>1, MovedAlone
  <2>. QED
    BY <2>2
<1>3. \A q : q \in DOMAIN disk' /\ disk'[q].kind = "dir" <=> IsDir(q)
  BY <1>2 DEF IsDir, Exists
<1>4. RegularFiles' \subseteq RegularFiles \cup {to}
  BY <1>2 DEF RegularFiles, IsFile, Exists
<1>5. \A q \in DOMAIN disk' : q \in DOMAIN disk \/ q = to
  BY <1>2
<1>6. \A q \in DOMAIN disk' :
        q \in DOMAIN disk \/ (q \in Path \ {Root} /\ IsDir(Parent(q)))
  BY <1>5, Zenon
<1>7. Tree' /\ OnlyParents'
  BY <1>3, <1>6, TreeStays, Zenon
<1>. QED
  BY <1>2, <1>4, <1>7

\* What a plan needs of the files and the tombstones when there are fewer.
LEMMA FewerBuried ==
  ASSUME NEW s, NEW files, NEW ts, NEW files2, NEW ts2 \in SUBSET ts, Buries(s, files, ts),
         \A p \in files2 : IsOriginal(p) => p \in files
  PROVE  Buries(s, files2, ts2)
  BY DEF Buries

\* The plans of the handlers, by the operations they are made of.
LEMMA PlansBuryOf ==
  ASSUME NEW files, NEW ts, \A p \in files \cap ts : ~IsOriginal(p)
  PROVE  /\ Buries(<<>>, files, ts)
         /\ \A file, p, q, c :
              file.do \in {"write", "move"} /\ (\A x : Makes(file, x) => x = p) =>
                /\ p \notin ts \/ ~IsOriginal(p) => Buries(<<file, PutClock(p, c)>>, files, ts)
                /\ Buries(<<file, DropTomb(p), PutClock(p, c)>>, files, ts)
                /\ Buries(<<file, DropTomb(q), DropTomb(p), PutClock(p, c)>>, files, ts)
                /\ Buries(<<file, DropClock(q), DropTomb(p), PutClock(p, c)>>, files, ts)
         /\ \A p, c :
              /\ p \in ts => Buries(<<PutTomb(p, c)>>, files, ts)
              /\ Buries(<<RemoveFile(p), PutTomb(p, c), DropClock(p)>>, files, ts)
<1>1. Buries(<<>>, files, ts)
  BY DEF Buries
<1>2. ASSUME NEW file, NEW p, NEW q, NEW c, file.do \in {"write", "move"},
             \A x : Makes(file, x) => x = p
      PROVE  /\ p \notin ts \/ ~IsOriginal(p) => Buries(<<file, PutClock(p, c)>>, files, ts)
             /\ Buries(<<file, DropTomb(p), PutClock(p, c)>>, files, ts)
             /\ Buries(<<file, DropTomb(q), DropTomb(p), PutClock(p, c)>>, files, ts)
             /\ Buries(<<file, DropClock(q), DropTomb(p), PutClock(p, c)>>, files, ts)
  <2>. DEFINE put   == PutClock(p, c)
              drop  == DropTomb(p)
              dropq == DropTomb(q)
              gone  == DropClock(q)
  <2>1. /\ put.do = "put_clock" /\ drop.do = "drop_tomb" /\ drop.path = p
        /\ dropq.do = "drop_tomb" /\ gone.do = "drop_clock"
    BY DEF PutClock, DropTomb, DropClock
  <2>2. \A x : ~Makes(put, x) /\ ~Makes(drop, x) /\ ~Makes(dropq, x) /\ ~Makes(gone, x)
    BY <2>1 DEF Makes, Does
  <2>. HIDE DEF put, drop, dropq, gone
  <2>3. p \notin ts \/ ~IsOriginal(p) => Buries(<<file, put>>, files, ts)
    BY <1>2, <2>1, <2>2 DEF Buries, OnDisk, Does, Makes
  <2>4. Buries(<<file, drop, put>>, files, ts)
    BY <1>2, <2>1, <2>2 DEF Buries, OnDisk, Does, Makes
  <2>5. Buries(<<file, dropq, drop, put>>, files, ts)
    BY <1>2, <2>1, <2>2 DEF Buries, OnDisk, Does, Makes
  <2>6. Buries(<<file, gone, drop, put>>, files, ts)
    BY <1>2, <2>1, <2>2 DEF Buries, OnDisk, Does, Makes
  <2>. QED
    BY <2>3, <2>4, <2>5, <2>6 DEF put, drop, dropq, gone
<1>3. ASSUME NEW p, NEW c
      PROVE  /\ p \in ts => Buries(<<PutTomb(p, c)>>, files, ts)
             /\ Buries(<<RemoveFile(p), PutTomb(p, c), DropClock(p)>>, files, ts)
  <2>. DEFINE remove == RemoveFile(p)
              put    == PutTomb(p, c)
              gone   == DropClock(p)
  <2>1. /\ remove.do = "remove" /\ remove.path = p /\ put.do = "put_tomb" /\ put.path = p
        /\ gone.do = "drop_clock"
    BY DEF RemoveFile, PutTomb, DropClock
  <2>. HIDE DEF remove, put, gone
  <2>2. p \in ts => Buries(<<put>>, files, ts)
    BY <2>1 DEF Buries, OnDisk, Does, Makes
  <2>3. Buries(<<remove, put, gone>>, files, ts)
    BY <2>1 DEF Buries, OnDisk, Does, Makes
  <2>. QED
    BY <2>2, <2>3 DEF remove, put, gone
<1>. QED
  BY <1>1, <1>2, <1>3

\* What is left of a plan after its first operation still leaves no file under a
\* tombstone.
LEMMA TailBuries ==
  ASSUME NEW s, IsPlan(s), s # <<>>, NEW files, NEW ts, NEW files2, NEW ts2,
         Buries(s, files, ts),
         \A p \in files2 : p \in files \/ Makes(s[1], p),
         s[1].do = "remove" => s[1].path \notin files2,
         \/ s[1].do = "put_tomb" /\ ts2 = ts \cup {s[1].path}
         \/ s[1].do = "drop_tomb" /\ ts2 = ts \ {s[1].path}
         \/ s[1].do \notin {"put_tomb", "drop_tomb"} /\ ts2 = ts
  PROVE  Buries(Tail(s), files2, ts2)
<1>. DEFINE t == Tail(s)
            n == Len(s)
<1>1. /\ n \in Nat \ {0} /\ DOMAIN s = 1..n /\ DOMAIN t = 1..(n - 1) /\ Len(t) = n - 1
      /\ \A i \in 1..(n - 1) : t[i] = s[i + 1]
  BY TailPlan
<1>. HIDE DEF t, n
<1>2. ASSUME NEW i \in 1..(n - 1)
      PROVE  /\ ~OnDisk(t[i])
             /\ t[i].do = "put_tomb" =>
                  /\ \A j \in DOMAIN t : t[j].do \notin {"write", "move"}
                  /\ IsOriginal(t[i].path) =>
                       \/ t[i].path \notin files2
                       \/ \E j \in 1..(i - 1) : Does(t[j], "remove", t[i].path)
  <2>1. t[i] = s[i + 1] /\ i + 1 \in 1..n /\ i + 1 # 1 /\ (i + 1) - 1 = i
    BY <1>1
  <2>2. ~OnDisk(t[i])
    BY <1>1, <2>1 DEF Buries
  <2>3. ASSUME t[i].do = "put_tomb"
        PROVE  /\ \A j \in DOMAIN t : t[j].do \notin {"write", "move"}
               /\ s[1].do \notin {"write", "move"}
    <3>1. \A j \in 1..n : s[j].do \notin {"write", "move"}
      BY <1>1, <2>1, <2>3 DEF Buries
    <3>. QED
      BY <1>1, <3>1
  <2>4. ASSUME t[i].do = "put_tomb", IsOriginal(t[i].path), t[i].path \in files2
        PROVE  \E j \in 1..(i - 1) : Does(t[j], "remove", t[i].path)
    <3>1. t[i].path \in files
      BY <2>3, <2>4 DEF Makes, Does
    <3>2. PICK j \in 1..i : Does(s[j], "remove", t[i].path)
      BY <1>1, <2>1, <2>4, <3>1 DEF Buries
    <3>3. j # 1
      BY <2>4, <3>2 DEF Does
    <3>4. j - 1 \in 1..(i - 1) /\ j - 1 \in 1..(n - 1) /\ (j - 1) + 1 = j
      BY <1>1, <3>3
    <3>. QED
      BY <1>1, <3>2, <3>4
  <2>. QED
    BY <2>2, <2>3, <2>4
<1>3. ASSUME NEW p \in ts2, IsOriginal(p), p \in files2 \/ \E i \in DOMAIN t : Makes(t[i], p)
      PROVE  \E i \in DOMAIN t : Does(t[i], "drop_tomb", p)
  <2>1. p \in files2
    <3>1. \A i \in 1..(n - 1) : ~Makes(t[i], p)
      BY <1>2 DEF Makes, Does, OnDisk
    <3>. QED
      BY <1>1, <1>3, <3>1
  <2>2. p \in ts
    <3>1. CASE s[1].do = "put_tomb" /\ p = s[1].path
      <4>1. 1 \in 1..n /\ \A j \in 1..0 : FALSE
        BY <1>1
      <4>2. p \notin files /\ s[1].do \notin {"write", "move"}
        BY <1>1, <1>3, <3>1, <4>1 DEF Buries
      <4>. QED
        BY <2>1, <4>2 DEF Makes, Does
    <3>. QED
      BY <3>1
  <2>3. PICK i \in 1..n : Does(s[i], "drop_tomb", p)
    <3>1. p \in files \/ Makes(s[1], p)
      BY <2>1
    <3>2. 1 \in 1..n
      BY <1>1
    <3>. QED
      BY <1>1, <1>3, <2>2, <3>1, <3>2 DEF Buries
  <2>4. i # 1
    BY <2>3 DEF Does
  <2>5. i - 1 \in 1..(n - 1) /\ (i - 1) + 1 = i
    BY <1>1, <2>4
  <2>. QED
    BY <1>1, <2>3, <2>5
<1>. QED
  BY <1>1, <1>2, <1>3 DEF Buries, t

\* Nothing that a handler moves is a directory that a write may recreate.
LEMMA NoParentMoves ==
  ASSUME MovesOnlyFiles, NEW r \in Request, NEW d \in Device
  PROVE  /\ r.op = "rename" => ~IsParent(r.path)
         /\ r.op = "stream" => ~IsParent(TempPath(r.path, d))
  BY DEF MovesOnlyFiles, IsParent

\* What is not the root and no parent is no directory.
LEMMA NotADir ==
  ASSUME OnlyParents, NEW p, p # Root, ~IsParent(p)
  PROVE  ~IsDir(p)
  BY DEF OnlyParents, IsDir, Exists

\* A staged copy that goes, or was never there, takes no directory with it
\* (TempFile::drop).
LEMMA TempGoes ==
  ASSUME TypeInv, Tree, OnlyParents, MovesOnlyFiles, NEW d \in Device, req[d] \in Request,
         disk' = WithoutTemp(disk, d)
  PROVE  Tree' /\ OnlyParents' /\ RegularFiles' \subseteq RegularFiles
<1>1. CASE req[d].op = "stream"
  <2>. DEFINE p == TempPath(req[d].path, d)
  <2>1. req[d].path \in Path \ {Root}
    BY <1>1, RequestFields DEF Mutation
  <2>2. p \in Path \ {Root} /\ ~IsParent(p)
    BY <1>1, <2>1, CopiedPaths, NoParentMoves DEF TypeInv, Shape
  <2>3. ~IsDir(p) /\ disk' = Without(disk, {p})
    BY <1>1, <2>2, NotADir DEF WithoutTemp
  <2>. HIDE DEF p
  <2>. QED
    BY <2>3, FileGoes
<1>2. CASE req[d].op # "stream"
  <2>1. disk' = disk
    BY <1>2 DEF WithoutTemp
  <2>. QED
    BY <2>1 DEF Tree, OnlyParents, RegularFiles, IsDir, IsFile, Exists
<1>. QED
  BY <1>1, <1>2

\* Steps that make no file but a staged one, add no tombstone and leave the
\* lock and the plan of its holder alone.
LEMMA GoneStays ==
  ASSUME GoneInv, Tree', OnlyParents', detached' = {},
         \A p \in RegularFiles' : IsOriginal(p) => p \in RegularFiles,
         DOMAIN tombs' \subseteq DOMAIN tombs,
         \A e \in Device : plan'[e] \in {plan[e], <<>>},
         \/ lock' = lock /\ \A e \in Device : lock = e => plan'[e] = plan[e]
         \/ lock' = Unlocked /\ \A p \in RegularFiles \cap DOMAIN tombs : ~IsOriginal(p)
  PROVE  GoneInv'
<1>. DEFINE files == RegularFiles
            files2 == RegularFiles'
            ts == DOMAIN tombs
            ts2 == DOMAIN tombs'
<1>1. \A s : Buries(s, files, ts) => Buries(s, files2, ts2)
  <2>1. ts2 \in SUBSET ts /\ \A p \in files2 : IsOriginal(p) => p \in files
    OBVIOUS
  <2>. HIDE DEF files, files2, ts, ts2
  <2>. QED
    BY <2>1, FewerBuried
<1>2. Buries(<<>>, files, ts) \/ lock' = lock
  BY PlansBuryOf, Zenon
<1>3. PlansBury'
  <2>1. ASSUME NEW e \in Device, lock' = e
        PROVE  Buries(plan'[e], files2, ts2)
    <3>1. lock = e /\ plan'[e] = plan[e]
      BY <2>1, FileHostAssumption
    <3>2. Buries(plan[e], files, ts)
      BY <3>1, Zenon DEF GoneInv, PlansBury
    <3>. QED
      BY <1>1, <3>1, <3>2, Zenon
  <2>2. ASSUME lock' = Unlocked
        PROVE  Buries(<<>>, files2, ts2)
    <3>1. Buries(<<>>, files, ts)
      BY <1>2, <2>2, Zenon DEF GoneInv, PlansBury
    <3>. QED
      BY <1>1, <3>1, Zenon
  <2>. QED
    BY <2>1, <2>2, Zenon DEF PlansBury
<1>4. \A e \in Device : Spares(plan'[e])
  <2>1. Spares(<<>>)
    BY DEF Spares
  <2>2. \A e \in Device : Spares(plan[e])
    BY DEF GoneInv
  <2>. QED
    BY <2>1, <2>2
<1>5. (\A e \in Device : Spares(plan[e]))'
  BY <1>4 DEF Spares
<1>. QED
  BY <1>3, <1>5 DEF GoneInv

\* Steps that touch neither the directory nor a plan.
LEMMA GoneElsewhere ==
  ASSUME GoneInv, UNCHANGED <<disk, lock, detached>>, \A e \in Device : plan'[e] = plan[e],
         DOMAIN tombs' \subseteq DOMAIN tombs
  PROVE  GoneInv'
<1>1. Tree' /\ OnlyParents' /\ RegularFiles' = RegularFiles
  BY DEF GoneInv, Tree, OnlyParents, RegularFiles, IsDir, IsFile, Exists
<1>. QED
  BY <1>1, GoneStays DEF GoneInv

\* A recreated parent is a directory (ensure_parent_not_tombstoned).
LEMMA EnsureParentGone ==
  ASSUME TypeInv, GoneInv, NEW d \in Device, EnsureParent(d)
  PROVE  GoneInv'
<1>. DEFINE r == req[d]
            blocked == \E p \in Ancestors(r.path) : IsFile(p)
<1>1. /\ pc[d] = "accepted" /\ r \in Request /\ r.op \in {"write", "stream"} /\ r.path \in Path
      /\ UNCHANGED <<tombs, lock, plan, detached>>
  BY RequestFields DEF EnsureParent, TypeInv, Shape, store
<1>2. CASE disk' = disk
  BY <1>1, <1>2, GoneElsewhere
<1>3. CASE /\ ~blocked
           /\ disk' = [p \in DOMAIN disk \cup Ancestors(r.path) |-> IF Exists(p) THEN disk[p] ELSE Dir]
  <2>1. \A p \in Ancestors(r.path) : p \in DOMAIN disk' /\ disk'[p].kind = "dir"
    BY <1>3 DEF TypeInv, TypeOK, IsFile, Exists, Dir
  <2>2. \A p \in Ancestors(r.path) : p \in Path /\ Ancestors(p) \subseteq Ancestors(r.path)
    BY <1>1, AncestorsOfAncestors
  <2>3. \A p \in DOMAIN disk : p \in DOMAIN disk' /\ disk'[p] = disk[p]
    BY <1>3 DEF Exists
  <2>4. Tree'
    <3>1. \A p \in DOMAIN disk' : p \in DOMAIN disk \/ p \in Ancestors(r.path)
      BY <1>3
    <3>2. \A p \in DOMAIN disk : p \in Path /\ \A a \in Ancestors(p) :
             a \in DOMAIN disk /\ disk[a].kind = "dir"
      BY DEF GoneInv, Tree, IsDir, Exists
    <3>3. \A p \in DOMAIN disk' : p \in Path /\ \A a \in Ancestors(p) :
             a \in DOMAIN disk' /\ disk'[a].kind = "dir"
      BY <2>1, <2>2, <2>3, <3>1, <3>2
    <3>. QED
      BY <3>3 DEF Tree, IsDir, Exists
  <2>5. OnlyParents'
    BY <1>1, <1>3 DEF GoneInv, OnlyParents, IsParent, IsDir, Exists
  <2>6. RegularFiles' = RegularFiles
    BY <1>3 DEF RegularFiles, IsFile, Exists, Dir
  <2>. QED
    BY <1>1, <2>4, <2>5, <2>6, GoneStays DEF GoneInv
<1>. QED
  BY <1>2, <1>3 DEF EnsureParent

\* A staged file has a name no client deletes (TempFile::new).
LEMMA StageGone ==
  ASSUME TypeInv, GoneInv, MovesOnlyFiles, NEW d \in Device, Stage(d)
  PROVE  GoneInv'
<1>. DEFINE r == req[d]
            p == TempPath(r.path, d)
<1>1. /\ r \in Request /\ r.op = "stream" /\ r.path \in Path \ {Root}
      /\ UNCHANGED <<tombs, lock, plan, detached>>
  BY RequestFields DEF Stage, TypeInv, Shape, store, Mutation
<1>2. CASE disk' = disk
  BY <1>1, <1>2, GoneElsewhere
<1>3. CASE IsDir(Parent(r.path)) /\ disk' = With(disk, p, File(r.clock, r.data))
  <2>1. /\ p \in Path \ {Root} /\ ~IsParent(p) /\ ~IsOriginal(p) /\ Parent(p) = Parent(r.path)
    BY <1>1, CopiedPaths, NoParentMoves DEF TypeInv, Shape
  <2>2. ~IsDir(p) /\ IsDir(Parent(p)) /\ File(r.clock, r.data).kind = "file"
    BY <1>3, <2>1, NotADir DEF GoneInv, File
  <2>. HIDE DEF p, r
  <2>3. Tree' /\ OnlyParents' /\ RegularFiles' \subseteq RegularFiles \cup {p}
    BY <1>3, <2>1, <2>2, FileComes DEF GoneInv
  <2>. QED
    BY <1>1, <2>1, <2>3, GoneStays DEF GoneInv
<1>. QED
  BY <1>2, <1>3 DEF Stage

\* What a plan does to the directory it does with the paths of its request.
LEMMA DecisionsSpare ==
  ASSUME TypeInv, Apart, MovesOnlyFiles, lock = Unlocked, NEW d \in Device, NEW r \in Request,
         r.op \in {"write", "stream", "delete", "rename"}
  PROVE  Spares(Decide(d, r).ops)
<1>. DEFINE copy == ConflictPath(r.path, d)
<1>1. /\ r.path \in Path \ {Root}
      /\ r.op = "rename" => r.to \in Path \ {Root}
      /\ copy \in Path \ {Root} /\ TempPath(r.path, d) \in Path \ {Root}
  BY RequestFields, CopiedPaths DEF Mutation, TypeInv, Shape
<1>2. /\ r.op = "rename" => ~IsParent(r.path)
      /\ r.op = "stream" => ~IsParent(TempPath(r.path, d))
  BY NoParentMoves
<1>. DEFINE Fits(op) == OnDisk(op) =>
              /\ op.do # "mkdir" /\ op.path \in Path \ {Root}
              /\ op.do = "move" => op.to \in Path \ {Root} /\ ~IsParent(op.path)
<1>3. \A a, b, c, e :
        /\ Spares(<<>>)
        /\ Fits(a) => Spares(<<a>>)
        /\ Fits(a) /\ Fits(b) => Spares(<<a, b>>)
        /\ Fits(a) /\ Fits(b) /\ Fits(c) => Spares(<<a, b, c>>)
        /\ Fits(a) /\ Fits(b) /\ Fits(c) /\ Fits(e) => Spares(<<a, b, c, e>>)
  BY DEF Spares
<1>4. \A p, c : Fits(PutClock(p, c)) /\ Fits(PutTomb(p, c)) /\ Fits(DropClock(p)) /\ Fits(DropTomb(p))
  BY DEF OnDisk, PutClock, PutTomb, DropClock, DropTomb
<1>5. Fits(RemoveFile(r.path))
  <2>1. RemoveFile(r.path).do = "remove" /\ RemoveFile(r.path).path = r.path
    BY DEF RemoveFile
  <2>. QED
    BY <1>1, <2>1 DEF OnDisk
<1>6. ASSUME NEW p \in {r.path, copy}, r.op \in {"write", "stream"}
      PROVE  Fits(Store(d, r, p))
  <2>1. CASE r.op = "write"
    <3>1. Store(d, r, p).do = "write" /\ Store(d, r, p).path = p
      BY <2>1 DEF Store, WriteFile
    <3>. QED
      BY <1>1, <1>6, <3>1 DEF OnDisk
  <2>2. CASE r.op = "stream"
    <3>1. /\ Store(d, r, p).do = "move" /\ Store(d, r, p).path = TempPath(r.path, d)
          /\ Store(d, r, p).to = p
      BY <2>2 DEF Store, Move
    <3>. QED
      BY <1>1, <1>2, <1>6, <2>2, <3>1 DEF OnDisk
  <2>. QED
    BY <1>6, <2>1, <2>2
<1>7. ASSUME r.op = "rename"
      PROVE  Fits(WriteFile(r.to, EmptyClock, NoData)) /\ Fits(Move(r.path, r.to))
  <2>1. /\ WriteFile(r.to, EmptyClock, NoData).do = "write"
        /\ WriteFile(r.to, EmptyClock, NoData).path = r.to
        /\ Move(r.path, r.to).do = "move" /\ Move(r.path, r.to).path = r.path
        /\ Move(r.path, r.to).to = r.to
    BY DEF WriteFile, Move
  <2>. QED
    BY <1>1, <1>2, <1>7, <2>1 DEF OnDisk
<1>. HIDE DEF Fits, copy
<1>8. LET s == Decide(d, r).ops
          p == r.path
      IN \/ s = <<>>
         \/ /\ r.op \in {"write", "stream"}
            /\ \E c : \/ s = <<Store(d, r, p), DropTomb(p), PutClock(p, c)>>
                      \/ s = <<Store(d, r, p), PutClock(p, c)>>
                      \/ s = <<Store(d, r, copy), PutClock(copy, c)>>
         \/ /\ r.op = "delete"
            /\ \E c : \/ s = <<PutTomb(p, c)>>
                      \/ s = <<RemoveFile(p), PutTomb(p, c), DropClock(p)>>
         \/ /\ r.op = "rename"
            /\ \E c : \/ s = <<WriteFile(r.to, EmptyClock, NoData), DropTomb(p), DropTomb(r.to),
                               PutClock(r.to, c)>>
                      \/ s = <<Move(p, r.to), DropClock(p), DropTomb(r.to), PutClock(r.to, c)>>
  BY Decisions, Zenon DEF copy
<1>. QED
  BY <1>3, <1>4, <1>5, <1>6, <1>7, <1>8

\* Every decision is a plan that leaves a file or a tombstone.
LEMMA DecisionsBury ==
  ASSUME TypeInv, Apart, lock = Unlocked, \A p \in RegularFiles \cap DOMAIN tombs : ~IsOriginal(p),
         NEW d \in Device, NEW r \in Request,
         r.op \in {"write", "stream", "delete", "rename"}
  PROVE  Buries(Decide(d, r).ops, RegularFiles, DOMAIN tombs)
<1>. DEFINE copy == ConflictPath(r.path, d)
            s == Decide(d, r).ops
            p == r.path
            files == RegularFiles
            ts == DOMAIN tombs
            Over(file, q) == file.do \in {"write", "move"} /\ \A x : Makes(file, x) => x = q
<1>1. ~IsOriginal(copy)
  BY RequestFields, CopiesAreNotOriginal DEF TypeInv, Shape, Mutation
<1>2. /\ \A q : Over(Store(d, r, q), q) /\ Over(WriteFile(q, EmptyClock, NoData), q)
      /\ \A q, t : Over(Move(q, t), t)
  BY DEF Store, WriteFile, Move, Makes, Does
<1>3. /\ Buries(<<>>, files, ts)
      /\ \A file, x, q, c :
           Over(file, x) =>
             /\ x \notin ts \/ ~IsOriginal(x) => Buries(<<file, PutClock(x, c)>>, files, ts)
             /\ Buries(<<file, DropTomb(x), PutClock(x, c)>>, files, ts)
             /\ Buries(<<file, DropTomb(q), DropTomb(x), PutClock(x, c)>>, files, ts)
             /\ Buries(<<file, DropClock(q), DropTomb(x), PutClock(x, c)>>, files, ts)
      /\ \A x, c :
           /\ x \in ts => Buries(<<PutTomb(x, c)>>, files, ts)
           /\ Buries(<<RemoveFile(x), PutTomb(x, c), DropClock(x)>>, files, ts)
  BY PlansBuryOf, Zenon
<1>4. \/ s = <<>>
      \/ \E c : \/ s = <<Store(d, r, p), DropTomb(p), PutClock(p, c)>>
                \/ p \notin ts /\ s = <<Store(d, r, p), PutClock(p, c)>>
                \/ s = <<Store(d, r, copy), PutClock(copy, c)>>
                \/ p \in ts /\ s = <<PutTomb(p, c)>>
                \/ s = <<RemoveFile(p), PutTomb(p, c), DropClock(p)>>
                \/ s = <<WriteFile(r.to, EmptyClock, NoData), DropTomb(p), DropTomb(r.to),
                         PutClock(r.to, c)>>
                \/ s = <<Move(p, r.to), DropClock(p), DropTomb(r.to), PutClock(r.to, c)>>
  BY Decisions, Zenon
<1>. HIDE DEF copy, s, p, files, ts, Over
<1>5. Buries(s, files, ts)
  BY <1>1, <1>2, <1>3, <1>4, Zenon
<1>. QED
  BY <1>5 DEF s, files, ts

\* While the lock is free there is no file under a tombstone; under it, before
\* the first operation, there is none either.
LEMMA NoneBuried ==
  ASSUME TypeInv, GoneInv,
         \/ lock = Unlocked
         \/ \E d \in Device : pc[d] = "locked" /\ OnDisk(Head(plan[d]))
  PROVE  \A p \in RegularFiles \cap DOMAIN tombs : ~IsOriginal(p)
<1>1. CASE lock = Unlocked
  BY <1>1 DEF GoneInv, PlansBury, Buries
<1>2. ASSUME NEW d \in Device, pc[d] = "locked", OnDisk(Head(plan[d]))
      PROVE  \A p \in RegularFiles \cap DOMAIN tombs : ~IsOriginal(p)
  <2>1. lock = d /\ plan[d] # <<>> /\ IsPlan(plan[d])
    BY <1>2, OnePlan DEF TypeInv, Shape
  <2>2. 1 \in DOMAIN plan[d] /\ Head(plan[d]) = plan[d][1]
    BY <2>1, TailPlan
  <2>. QED
    BY <1>2, <2>1, <2>2 DEF GoneInv, PlansBury, Buries
<1>. QED
  BY <1>1, <1>2

\* A decision taken while there is no file under a tombstone leaves none.
LEMMA AcquireGone ==
  ASSUME TypeInv, Apart, GoneInv, NoMkdir, MovesOnlyFiles, NEW d \in Device, Acquire(d)
  PROVE  GoneInv'
<1>. DEFINE o == Decide(d, req[d])
<1>1. /\ req[d] \in Request /\ req[d].op \in {"write", "stream", "delete", "rename"}
      /\ lock = Unlocked /\ UNCHANGED <<tombs, detached>> /\ DOMAIN plan = Device
  BY DEF Acquire, LockFree, TypeInv, Shape, NoMkdir, Mutation, store
<1>2. \A p \in RegularFiles \cap DOMAIN tombs : ~IsOriginal(p)
  BY <1>1, NoneBuried
<1>3. Buries(o.ops, RegularFiles, DOMAIN tombs) /\ Spares(o.ops)
  BY <1>1, <1>2, DecisionsBury, DecisionsSpare
<1>. HIDE DEF o
<1>4. CASE UNCHANGED <<lock, plan>> /\ disk' = WithoutTemp(disk, d)
  <2>1. Tree' /\ OnlyParents' /\ RegularFiles' \subseteq RegularFiles
    BY <1>1, <1>4, TempGoes DEF GoneInv
  <2>. QED
    BY <1>1, <1>4, <2>1, GoneStays DEF GoneInv
<1>5. CASE lock' = d /\ plan' = [plan EXCEPT ![d] = o.ops] /\ disk' = disk
  <2>1. Tree' /\ OnlyParents' /\ RegularFiles' = RegularFiles
    BY <1>5 DEF GoneInv, Tree, OnlyParents, RegularFiles, IsDir, IsFile, Exists
  <2>2. plan'[d] = o.ops /\ \A e \in Device \ {d} : plan'[e] = plan[e]
    BY <1>1, <1>5
  <2>3. PlansBury'
    <3>1. Buries(plan'[d], RegularFiles', DOMAIN tombs')
      BY <1>1, <1>3, <2>1, <2>2
    <3>. QED
      BY <1>5, <3>1, FileHostAssumption DEF PlansBury
  <2>4. \A e \in Device : Spares(plan'[e])
    BY <1>3, <2>2 DEF GoneInv
  <2>5. (\A e \in Device : Spares(plan[e]))'
    BY <2>4 DEF Spares
  <2>. QED
    BY <1>1, <2>1, <2>3, <2>5 DEF GoneInv
<1>6. \/ UNCHANGED <<lock, plan>> /\ disk' = WithoutTemp(disk, d)
      \/ lock' = d /\ plan' = [plan EXCEPT ![d] = o.ops] /\ disk' = disk
  BY Zenon DEF Acquire, o
<1>. QED
  BY <1>4, <1>5, <1>6

\* What one operation of a plan does to the files.
LEMMA FilesAfter ==
  ASSUME TypeInv, Tree, OnlyParents, NEW op, Possible(op), disk' = DiskAfter(op),
         OnDisk(op) => /\ op.do # "mkdir" /\ op.path \in Path \ {Root}
                       /\ op.do = "move" => op.to \in Path \ {Root} /\ ~IsParent(op.path)
  PROVE  /\ Tree' /\ OnlyParents'
         /\ \A p \in RegularFiles' : p \in RegularFiles \/ Makes(op, p)
         /\ op.do = "remove" => op.path \notin RegularFiles'
<1>1. CASE op.do = "write"
  <2>1. /\ IsDir(Parent(op.path)) /\ ~IsDir(op.path) /\ op.path \in Path \ {Root}
        /\ disk' = With(disk, op.path, File(op.edit, op.data))
    BY <1>1 DEF Possible, DiskAfter, OnDisk
  <2>2. File(op.edit, op.data).kind = "file"
    BY DEF File
  <2>3. Tree' /\ OnlyParents' /\ RegularFiles' \subseteq RegularFiles \cup {op.path}
    BY <2>1, <2>2, FileComes
  <2>. QED
    BY <1>1, <2>3 DEF Makes, Does
<1>2. CASE op.do = "move"
  <2>1. /\ op.path \in Path \ {Root} /\ op.to \in Path \ {Root} /\ ~IsParent(op.path)
        /\ op.path \in DOMAIN disk /\ IsDir(Parent(op.to)) /\ disk' = Moved(disk, op.path, op.to)
        /\ ~IsDir(op.path) => ~IsDir(op.to)
    BY <1>2, Zenon DEF Possible, DiskAfter, OnDisk, Exists
  <2>2. ~IsDir(op.path)
    BY <2>1, NotADir
  <2>3. Tree' /\ OnlyParents' /\ RegularFiles' \subseteq RegularFiles \cup {op.to}
    BY <2>1, <2>2, FileMoves
  <2>. QED
    BY <1>2, <2>3 DEF Makes, Does
<1>3. CASE op.do = "remove"
  <2>1. IsFile(op.path) /\ disk' = Without(disk, {op.path})
    BY <1>3 DEF Possible, DiskAfter
  <2>2. ~IsDir(op.path)
    BY <2>1 DEF IsDir, IsFile, Exists
  <2>3. Tree' /\ OnlyParents' /\ RegularFiles' = RegularFiles \ {op.path}
    BY <2>1, <2>2, FileGoes
  <2>. QED
    BY <2>3
<1>4. CASE ~OnDisk(op)
  <2>1. disk' = disk
    BY <1>4, Zenon DEF DiskAfter, OnDisk
  <2>2. Tree' /\ OnlyParents' /\ RegularFiles' = RegularFiles
    BY <2>1 DEF Tree, OnlyParents, RegularFiles, IsDir, IsFile, Exists
  <2>. QED
    BY <1>4, <2>2 DEF OnDisk
<1>. QED
  BY <1>1, <1>2, <1>3, <1>4 DEF OnDisk

\* One operation of a plan leaves no file under a tombstone that the plan does
\* not go on to drop.
LEMMA StepGone ==
  ASSUME TypeInv, Apart, GoneInv, NEW d \in Device, Step(d)
  PROVE  GoneInv'
<1>. DEFINE s == plan[d]
            op == Head(plan[d])
<1>1. /\ pc[d] = "locked" /\ Possible(op) /\ disk' = DiskAfter(op) /\ tombs' = TombsAfter(op)
      /\ plan' = [plan EXCEPT ![d] = Tail(@)] /\ detached' = detached
      /\ IF Tail(s) = <<>> THEN lock' = Unlocked ELSE lock' = lock
  BY DEF Step
<1>2. /\ lock = d /\ s # <<>> /\ IsPlan(s) /\ DOMAIN plan = Device
      /\ \A e \in Device \ {d} : plan[e] = <<>>
  BY <1>1, OnePlan DEF TypeInv, Shape
<1>3. op = s[1] /\ 1 \in DOMAIN s
  BY <1>2, TailPlan
<1>4. Spares(s) /\ Buries(s, RegularFiles, DOMAIN tombs) /\ KeepsApart(s, DOMAIN clocks, DOMAIN tombs)
  BY <1>2 DEF GoneInv, PlansBury, Apart, PlansKeepApart
<1>5. /\ op.do \notin {"rekey_clocks", "rekey_tombs"}
      /\ OnDisk(op) => /\ op.do # "mkdir" /\ op.path \in Path \ {Root}
                       /\ op.do = "move" => op.to \in Path \ {Root} /\ ~IsParent(op.path)
  <2>. HIDE DEF s, op
  <2>. QED
    BY <1>3, <1>4 DEF Spares, KeepsApart
<1>6. /\ Tree' /\ OnlyParents'
      /\ \A p \in RegularFiles' : p \in RegularFiles \/ Makes(op, p)
      /\ op.do = "remove" => op.path \notin RegularFiles'
  <2>. HIDE DEF s, op
  <2>. QED
    BY <1>1, <1>5, FilesAfter DEF GoneInv
<1>7. \/ op.do = "put_tomb" /\ DOMAIN tombs' = DOMAIN tombs \cup {op.path}
      \/ op.do = "drop_tomb" /\ DOMAIN tombs' = DOMAIN tombs \ {op.path}
      \/ op.do \notin {"put_tomb", "drop_tomb"} /\ DOMAIN tombs' = DOMAIN tombs
  <2>. HIDE DEF s, op
  <2>. QED
    BY <1>1, <1>5, PathsAfter
<1>8. Buries(Tail(s), RegularFiles', DOMAIN tombs')
  <2>1. PICK files, files2, ts, ts2 : /\ files = RegularFiles /\ files2 = RegularFiles'
                                      /\ ts = DOMAIN tombs /\ ts2 = DOMAIN tombs'
    OBVIOUS
  <2>2. /\ Buries(s, files, ts) /\ \A p \in files2 : p \in files \/ Makes(s[1], p)
        /\ s[1].do = "remove" => s[1].path \notin files2
        /\ \/ s[1].do = "put_tomb" /\ ts2 = ts \cup {s[1].path}
           \/ s[1].do = "drop_tomb" /\ ts2 = ts \ {s[1].path}
           \/ s[1].do \notin {"put_tomb", "drop_tomb"} /\ ts2 = ts
    BY <1>3, <1>4, <1>6, <1>7, <2>1, Zenon
  <2>. HIDE DEF s, op
  <2>3. Buries(Tail(s), files2, ts2)
    BY <1>2, <2>2, TailBuries
  <2>. QED
    BY <2>1, <2>3
<1>9. plan'[d] = Tail(s) /\ \A e \in Device \ {d} : plan'[e] = <<>>
  BY <1>1, <1>2
<1>10. Spares(Tail(s)) /\ Spares(<<>>)
  <2>1. DOMAIN Tail(s) = 1..(Len(s) - 1) /\ DOMAIN s = 1..Len(s) /\ Len(s) \in Nat
        /\ \A i \in 1..(Len(s) - 1) : Tail(s)[i] = s[i + 1]
    BY <1>2, TailPlan
  <2>2. \A i \in 1..(Len(s) - 1) : i + 1 \in 1..Len(s)
    BY <2>1
  <2>. HIDE DEF s
  <2>. QED
    BY <1>4, <2>1, <2>2 DEF Spares
<1>. HIDE DEF s, op
<1>11. PlansBury'
  <2>1. CASE Tail(s) = <<>>
    BY <1>1, <1>8, <2>1, FileHostAssumption DEF PlansBury
  <2>2. CASE Tail(s) # <<>>
    BY <1>1, <1>2, <1>8, <1>9, <2>2, FileHostAssumption DEF PlansBury
  <2>. QED
    BY <2>1, <2>2
<1>12. \A e \in Device : Spares(plan'[e])
  BY <1>9, <1>10
<1>13. (\A e \in Device : Spares(plan[e]))'
  BY <1>12 DEF Spares
<1>. QED
  BY <1>1, <1>6, <1>11, <1>13 DEF GoneInv

\* A plan that fails does so before it has touched the stores.
LEMMA StepFailsGone ==
  ASSUME TypeInv, GoneInv, MovesOnlyFiles, NEW d \in Device, StepFails(d)
  PROVE  GoneInv'
<1>1. /\ pc[d] = "locked" /\ req[d] \in Request
      /\ ~Possible(Head(plan[d])) /\ plan' = [plan EXCEPT ![d] = <<>>]
      /\ lock' = Unlocked /\ UNCHANGED <<tombs, detached>> /\ disk' = WithoutTemp(disk, d)
  BY DEF StepFails, GiveUpTheLock, store, TypeInv, Shape
<1>2. OnDisk(Head(plan[d]))
  BY <1>1, Zenon DEF Possible, OnDisk
<1>3. \A p \in RegularFiles \cap DOMAIN tombs : ~IsOriginal(p)
  BY <1>1, <1>2, NoneBuried
<1>4. Tree' /\ OnlyParents' /\ RegularFiles' \subseteq RegularFiles
  BY <1>1, TempGoes DEF GoneInv
<1>5. \A e \in Device : plan'[e] \in {plan[e], <<>>}
  BY <1>1 DEF TypeInv, Shape
<1>. QED
  BY <1>1, <1>3, <1>4, <1>5, GoneStays DEF GoneInv

\* Every step leaves no file under a tombstone, when nothing fails.
LEMMA NextGone ==
  ASSUME NoMkdir, MovesOnlyFiles, NoFailures, TypeInv, Apart, GoneInv, [Next]_vars
  PROVE  GoneInv'
<1>1. ASSUME NEW d \in Device, Handle(d)
      PROVE  GoneInv'
  <2>1. CASE Look(d)
    BY <2>1, GoneElsewhere DEF Look, StatFile, StatClock, ReadFile, ListDir, store
  <2>. QED
    BY <1>1, <2>1, EnsureParentGone, StageGone, AcquireGone, StepGone, StepFailsGone, Zenon
    DEF Handle
<1>2. ASSUME NEW d \in Device, NEW r \in Request, Submit(d, r)
      PROVE  GoneInv'
  BY <1>2, GoneElsewhere DEF Submit, store
<1>3. ASSUME NEW d \in Device, Return(d)
      PROVE  GoneInv'
  <2>1. /\ lock # d /\ plan[d] = <<>> /\ UNCHANGED <<disk, lock, detached, tombs>>
        /\ plan' = [plan EXCEPT ![d] = <<>>]
    BY <1>3 DEF Return, Forget, TypeInv, TypeOK, store
  <2>2. \A e \in Device : plan'[e] = plan[e]
    BY <2>1 DEF TypeInv, Shape
  <2>. QED
    BY <2>1, <2>2, GoneElsewhere
<1>4. ASSUME NEW d \in Device
      PROVE  ~Disconnect(d) /\ ~Crash
  BY DEF Disconnect, Crash, NoFailures
<1>5. detached = {}
  BY DEF GoneInv
<1>6. CASE Gc
  <2>1. UNCHANGED <<disk, lock, plan, detached>> /\ DOMAIN tombs' \subseteq DOMAIN tombs
    BY <1>6, GcOnlyRemoves DEF rpc
  <2>. QED
    BY <2>1, GoneElsewhere
<1>7. CASE Second \/ UNCHANGED vars
  BY <1>7, GoneElsewhere DEF Second, vars, store, rpc
<1>8. CASE Crash
  BY <1>8 DEF Crash, NoFailures
<1>. QED
  BY <1>1, <1>2, <1>3, <1>4, <1>5, <1>6, <1>7, <1>8 DEF Next, Serve

\* The agent starts with the files of the root and no tombstone.
LEMMA InitGone == Init => GoneInv
<1>. SUFFICES ASSUME Init PROVE GoneInv
  OBVIOUS
<1>1. /\ DOMAIN disk = {Root} \cup Served
      /\ \A p \in DOMAIN disk : disk[p].kind = IF p = Root THEN "dir" ELSE "file"
      /\ DOMAIN tombs = {} /\ lock = Unlocked /\ detached = {}
      /\ \A d \in Device : plan[d] = <<>>
  BY DEF Init, Dir, File, EmptyMap
<1>2. Tree
  <2>1. Root \in Path /\ Ancestors(Root) = {}
    BY DEF Root, Path, Ancestors
  <2>2. ASSUME NEW p \in Served
        PROVE  p \in Path /\ Ancestors(p) = {Root}
    <3>1. p \in Seq(Leaf) /\ Len(p) = 1
      BY ServedAssumption DEF Path
    <3>2. SubSeq(p, 1, 0) = <<>> /\ 0..(Len(p) - 1) = {0}
      BY <3>1
    <3>. QED
      BY <3>1, <3>2 DEF Ancestors, Path, Root
  <2>3. IsDir(Root)
    BY <1>1 DEF IsDir, Exists
  <2>. QED
    BY <1>1, <2>1, <2>2, <2>3 DEF Tree
<1>3. OnlyParents
  BY <1>1 DEF OnlyParents, IsDir, Exists
<1>4. PlansBury /\ \A d \in Device : Spares(plan[d])
  BY <1>1, FileHostAssumption DEF PlansBury, Buries, Spares
<1>. QED
  BY <1>1, <1>2, <1>3, <1>4 DEF GoneInv

\* For every set of devices and requests, and whatever the collector does: while
\* nobody holds write_lock there is no file where a tombstone says that it was
\* deleted, as long as nothing fails and directories are neither made nor moved
\* (write_file, delete_file, rename_file).
THEOREM DeletedStaysGone ==
  NoMkdir /\ EditsTicked /\ MovesOnlyFiles /\ NoFailures => (Spec => []DeletedIsGone)
<1>. SUFFICES ASSUME NoMkdir, EditsTicked, MovesOnlyFiles, NoFailures
              PROVE  Spec => []DeletedIsGone
  OBVIOUS
<1>1. NoCrash
  BY DEF NoCrash, NoFailures
<1>2. Init => OneStoreInv /\ GoneInv
  BY InitType, InitApart, InitGone DEF OneStoreInv, Apart
<1>3. OneStoreInv /\ GoneInv /\ [Next]_vars => (OneStoreInv /\ GoneInv)'
  BY <1>1, NextType, NextApart, NextGone DEF OneStoreInv, Apart
<1>4. GoneInv => DeletedIsGone
  BY DEF GoneInv, PlansBury, Buries, DeletedIsGone, RegularFiles, IsFile, Exists
<1>. QED
  BY <1>2, <1>3, <1>4, PTL DEF Spec

-----------------------------------------------------------------------------
(* What the host knows of a version.                                        *)

\* A clock has seen itself, and every clock has seen the empty one.
LEMMA LeqBounds ==
  ASSUME NEW c \in Clock
  PROVE  Leq(c, c) /\ Leq(EmptyClock, c)
  BY DEF Leq, Clock, EmptyClock

\* All that is known of a path are clocks.
LEMMA KnownType ==
  ASSUME TypeInv, NEW p
  PROVE  Known(p) \subseteq Clock
<1>1. LiveClock(p) \in Clock /\ TombClock(p) \in Clock
  BY StoredClockType DEF TypeInv, TypeOK, LiveClock, TombClock
<1>2. ASSUME NEW d \in Device
      PROVE  Pending(plan[d], p) \subseteq Clock
  BY DEF TypeInv, Shape, IsPlan, Pending, IsPut
<1>. QED
  BY <1>1, <1>2 DEF Known

\* Nothing is forgotten while the stores stay and no plan with a clock to put
\* is given up.
LEMMA NothingForgotten ==
  ASSUME TypeInv, NEW p, UNCHANGED <<clocks, tombs>>,
         \A d \in Device : Pending(plan[d], p) \subseteq Pending(plan'[d], p)
  PROVE  \A c \in Known(p) : \E c2 \in Known(p)' : Leq(c, c2)
<1>1. LiveClock(p)' = LiveClock(p) /\ TombClock(p)' = TombClock(p)
  BY DEF LiveClock, TombClock, ClockIn
<1>2. Known(p)' = {LiveClock(p), TombClock(p)} \cup UNION {Pending(plan'[d], p) : d \in Device}
  BY <1>1, Zenon DEF Known, Pending, IsPut, OnDisk
<1>3. Known(p) \subseteq Known(p)'
  BY <1>2 DEF Known
<1>4. \A c \in Known(p) : Leq(c, c)
  BY KnownType, LeqBounds, Zenon
<1>. QED
  BY <1>3, <1>4, Zenon

\* Before its file operation a plan has no clock to put that is sure to come.
LEMMA NonePending ==
  ASSUME NEW s, NEW p, s = <<>> \/ OnDisk(s[1])
  PROVE  Pending(s, p) = {}
  BY DEF Pending

\* What the stores have of p the clock c has seen.
Seen(cs, ts, p, c) == IsOriginal(p) => Leq(ClockIn(cs, p), c) /\ Leq(ClockIn(ts, p), c)

\* What is left of a write or a delete, for the path it is about.
LEMMA OvertakesIs ==
  ASSUME NEW s, NEW cs, NEW ts, NEW p, NEW c, Stores(s, p, c) \/ Deletes(s, p, c),
         Seen(cs, ts, p, c)
  PROVE  Overtakes(s, cs, ts)
<1>1. s[Len(s)].path = p
  BY SMTT(30) DEF Stores, Deletes, PutClock, PutTomb, DropClock
<1>2. PICK i \in DOMAIN s : IsPut(s[i], p) /\ s[i].clock = c
  BY DEF Stores, Deletes, PutClock, PutTomb, DropClock, DropTomb, RemoveFile, IsPut
<1>. QED
  BY <1>1, <1>2 DEF Overtakes, Seen

\* A delete that has put its tombstone.
LEMMA OvertakesDropping ==
  ASSUME NEW p, NEW cs, NEW ts, IsOriginal(p) => Leq(ClockIn(cs, p), ClockIn(ts, p))
  PROVE  Overtakes(<<DropClock(p)>>, cs, ts)
<1>1. <<DropClock(p)>>[Len(<<DropClock(p)>>)].path = p
  BY DEF DropClock
<1>. QED
  BY <1>1 DEF Overtakes

\* The shapes of what is left of a write or a delete.
LEMMA OvertakesShapes ==
  ASSUME NEW s, NEW cs, NEW ts, IsPlan(s), Overtakes(s, cs, ts)
  PROVE  \/ \E p : \E c \in Clock : Stores(s, p, c) /\ Seen(cs, ts, p, c)
         \/ \E p : \E c \in Clock : Deletes(s, p, c) /\ Seen(cs, ts, p, c)
         \/ \E p : s = <<DropClock(p)>> /\ (IsOriginal(p) => Leq(ClockIn(cs, p), ClockIn(ts, p)))
  BY DEF Overtakes, IsPlan, IsPut, Seen

\* The plan of the handler at work still overtakes what the stores say, while
\* they stay as they are.
LEMMA VersionsElsewhere ==
  ASSUME TypeInv, VersionInv, "phase" \in DOMAIN gc', UNCHANGED <<clocks, tombs>>,
         \A d \in Device : pc'[d] = "locked" =>
            pc[d] = "locked" /\ req'[d] = req[d] /\ plan'[d] = plan[d]
  PROVE  VersionInv'
  BY DEF VersionInv, OnDisk

\* What a handler decides has seen all that the host knows of the path: it
\* merges the clock of the request with the one that is stored (write_file,
\* delete_file).
LEMMA DecisionsOvertake ==
  ASSUME TypeInv, Apart, lock = Unlocked, NEW d \in Device, NEW r \in Request,
         r.op \in {"write", "stream", "delete"}, Decide(d, r).ops # <<>>
  PROVE  Overtakes(Decide(d, r).ops, clocks, tombs)
<1>. DEFINE p    == r.path
            s    == Decide(d, r).ops
            live == Merge(LiveClock(p), r.clock)
            tomb == Merge(TombClock(p), r.clock)
            copy == ConflictPath(p, d)
<1>1. /\ LiveClock(p) \in Clock /\ TombClock(p) \in Clock /\ r.clock \in Clock
      /\ p \in Path \ {Root}
  BY StoredClockType, RequestFields DEF TypeInv, TypeOK, LiveClock, TombClock, Mutation
<1>2. /\ live \in Clock /\ Leq(LiveClock(p), live)
      /\ tomb \in Clock /\ Leq(TombClock(p), tomb)
  BY <1>1, MergeType, MergeIsLub
<1>3. p \in DOMAIN tombs /\ IsOriginal(p) => LiveClock(p) = EmptyClock
  BY DEF Apart, BothOnlyWhileDeleting, WillPart, LiveClock, ClockIn
<1>4. p \notin DOMAIN tombs => TombClock(p) = EmptyClock
  BY DEF TombClock, ClockIn
<1>5. /\ p \in DOMAIN tombs => Seen(clocks, tombs, p, tomb)
      /\ p \notin DOMAIN tombs => Seen(clocks, tombs, p, live)
  BY <1>2, <1>3, <1>4, LeqBounds DEF Seen, LiveClock, TombClock
<1>6. \A c : Seen(clocks, tombs, copy, c)
  BY <1>1, CopiesAreNotOriginal DEF TypeInv, Shape, Seen
<1>7. \A q : OnDisk(Store(d, r, q))
  BY DEF Store, WriteFile, Move, OnDisk
<1>8. \/ p \in DOMAIN tombs /\ s = <<Store(d, r, p), DropTomb(p), PutClock(p, tomb)>>
      \/ p \notin DOMAIN tombs /\ s = <<Store(d, r, p), PutClock(p, live)>>
      \/ s = <<Store(d, r, copy), PutClock(copy, r.clock)>>
      \/ p \in DOMAIN tombs /\ s = <<PutTomb(p, tomb)>>
      \/ p \notin DOMAIN tombs /\ s = <<RemoveFile(p), PutTomb(p, live), DropClock(p)>>
  BY Decisions, Zenon
<1>. HIDE DEF p, s, live, tomb, copy
<1>9. CASE p \in DOMAIN tombs /\ s = <<Store(d, r, p), DropTomb(p), PutClock(p, tomb)>>
  <2>1. Stores(s, p, tomb)
    BY <1>7, <1>9 DEF Stores
  <2>. QED
    BY <1>5, <1>9, <2>1, OvertakesIs DEF s
<1>10. CASE p \notin DOMAIN tombs /\ s = <<Store(d, r, p), PutClock(p, live)>>
  <2>1. Stores(s, p, live)
    BY <1>7, <1>10 DEF Stores
  <2>. QED
    BY <1>5, <1>10, <2>1, OvertakesIs DEF s
<1>11. CASE s = <<Store(d, r, copy), PutClock(copy, r.clock)>>
  <2>1. Stores(s, copy, r.clock)
    BY <1>7, <1>11 DEF Stores
  <2>. QED
    BY <1>6, <2>1, OvertakesIs DEF s
<1>12. CASE p \in DOMAIN tombs /\ s = <<PutTomb(p, tomb)>>
  <2>1. Deletes(s, p, tomb)
    BY <1>12 DEF Deletes
  <2>. QED
    BY <1>5, <1>12, <2>1, OvertakesIs DEF s
<1>13. CASE p \notin DOMAIN tombs /\ s = <<RemoveFile(p), PutTomb(p, live), DropClock(p)>>
  <2>1. Deletes(s, p, live)
    BY <1>13 DEF Deletes
  <2>. QED
    BY <1>5, <1>13, <2>1, OvertakesIs DEF s
<1>. QED
  BY <1>8, <1>9, <1>10, <1>11, <1>12, <1>13

\* The handler that gets the lock has decided on what the stores say.
LEMMA AcquireVersions ==
  ASSUME TypeInv, Apart, VersionInv, NoMkdir, NEW d \in Device, Acquire(d)
  PROVE  VersionInv'
<1>. DEFINE r == req[d]
            s == Decide(d, r).ops
<1>1. /\ r \in Request /\ r.op \in {"write", "stream", "delete", "rename"}
      /\ lock = Unlocked /\ UNCHANGED <<clocks, tombs, req, gc>>
      /\ DOMAIN plan = Device /\ DOMAIN pc = Device
      /\ \A e \in Device : pc[e] # "locked"
  BY FileHostAssumption DEF Acquire, LockFree, TypeInv, TypeOK, Shape, NoMkdir, Mutation, store
<1>2. \/ UNCHANGED plan /\ pc' = [pc EXCEPT ![d] = "replied"]
      \/ /\ s # <<>> /\ plan' = [plan EXCEPT ![d] = s] /\ pc' = [pc EXCEPT ![d] = "locked"]
  BY Zenon DEF Acquire, Finish
<1>3. CASE UNCHANGED plan /\ pc' = [pc EXCEPT ![d] = "replied"]
  BY <1>1, <1>3, VersionsElsewhere DEF VersionInv
<1>4. CASE s # <<>> /\ plan' = [plan EXCEPT ![d] = s] /\ pc' = [pc EXCEPT ![d] = "locked"]
  <2>1. plan'[d] = s /\ \A e \in Device \ {d} : pc'[e] # "locked"
    BY <1>1, <1>4
  <2>2. r.op \in {"write", "stream", "delete"} => Overtakes(s, clocks, tombs)
    BY <1>1, <1>4, DecisionsOvertake
  <2>3. ASSUME r.op = "rename", NEW i \in DOMAIN s
        PROVE  OnDisk(s[i]) \/ s[i].path \in {r.path, r.to}
    <3>1. \/ \E c : s = <<WriteFile(r.to, EmptyClock, NoData), DropTomb(r.path), DropTomb(r.to),
                          PutClock(r.to, c)>>
          \/ \E c : s = <<Move(r.path, r.to), DropClock(r.path), DropTomb(r.to), PutClock(r.to, c)>>
      BY <1>1, <1>4, <2>3, Decisions, Zenon
    <3>. HIDE DEF s, r
    <3>. QED
      BY <3>1 DEF WriteFile, Move, DropTomb, DropClock, PutClock, OnDisk
  <2>. HIDE DEF s
  <2>. QED
    BY <1>1, <2>1, <2>2, <2>3 DEF VersionInv, OnDisk
<1>. QED
  BY <1>2, <1>3, <1>4

\* The first operation of a short plan, and those that follow.
LEMMA ShortPlans ==
  /\ \A a : Tail(<<a>>) = <<>> /\ <<a>>[1] = a
  /\ \A a, b : Tail(<<a, b>>) = <<b>> /\ <<a, b>>[1] = a
  /\ \A a, b, c : Tail(<<a, b, c>>) = <<b, c>> /\ <<a, b, c>>[1] = a
  /\ \A a, b, c, e : Tail(<<a, b, c, e>>) = <<b, c, e>> /\ <<a, b, c, e>>[1] = a
  OBVIOUS

\* What is left of a write or a delete after an operation overtakes what
\* the stores then say.
LEMMA TailOvertakes ==
  ASSUME NEW s, IsPlan(s), s # <<>>, Tail(s) # <<>>, Overtakes(s, clocks, tombs)
  PROVE  Overtakes(Tail(s), ClocksAfter(s[1]), TombsAfter(s[1]))
<1>. DEFINE t == Tail(s)
            cs == ClocksAfter(s[1])
            ts == TombsAfter(s[1])
<1>1. ASSUME NEW p, NEW c \in Clock, Stores(s, p, c), Seen(clocks, tombs, p, c)
      PROVE  Overtakes(t, cs, ts)
  <2>1. /\ t \in {<<PutClock(p, c)>>, <<DropTomb(p), PutClock(p, c)>>}
        /\ OnDisk(s[1]) \/ s[1] = DropTomb(p)
    <3>1. CASE s \in {<<PutClock(p, c)>>, <<DropTomb(p), PutClock(p, c)>>}
      <4>1. s # <<PutClock(p, c)>>
        BY ShortPlans
      <4>. QED
        BY <3>1, <4>1, ShortPlans
    <3>2. CASE OnDisk(s[1]) /\ s = <<s[1], PutClock(p, c)>>
      <4>1. PICK op : op = s[1]
        OBVIOUS
      <4>2. s = <<op, PutClock(p, c)>>
        BY <3>2, <4>1
      <4>. QED
        BY <3>2, <4>2, ShortPlans
    <3>3. CASE OnDisk(s[1]) /\ s = <<s[1], DropTomb(p), PutClock(p, c)>>
      <4>1. PICK op : op = s[1]
        OBVIOUS
      <4>2. s = <<op, DropTomb(p), PutClock(p, c)>>
        BY <3>3, <4>1
      <4>. QED
        BY <3>3, <4>2, ShortPlans
    <3>. QED
      BY <1>1, <3>1, <3>2, <3>3 DEF Stores
  <2>2. Stores(t, p, c)
    BY <2>1 DEF Stores
  <2>3. cs = clocks /\ (ts = tombs \/ ts = Without(tombs, {p}))
    <3>1. CASE OnDisk(s[1])
      BY <3>1, Zenon DEF OnDisk, ClocksAfter, TombsAfter
    <3>2. CASE s[1] = DropTomb(p)
      <4>1. s[1].do = "drop_tomb" /\ s[1].path = p
        BY <3>2 DEF DropTomb
      <4>. QED
        BY <4>1 DEF ClocksAfter, TombsAfter
    <3>. QED
      BY <2>1, <3>1, <3>2
  <2>4. ClockIn(cs, p) = ClockIn(clocks, p) /\ ClockIn(ts, p) \in {ClockIn(tombs, p), EmptyClock}
    BY <2>3 DEF ClockIn, Without
  <2>5. Seen(cs, ts, p, c)
    BY <1>1, <2>4, LeqBounds DEF Seen
  <2>. HIDE DEF t, cs, ts
  <2>. QED
    BY <2>2, <2>5, OvertakesIs
<1>2. ASSUME NEW p, NEW c \in Clock, Deletes(s, p, c), Seen(clocks, tombs, p, c)
      PROVE  Overtakes(t, cs, ts)
  <2>1. CASE s[1] = RemoveFile(p) /\ t = <<PutTomb(p, c), DropClock(p)>>
    <3>1. cs = clocks /\ ts = tombs
      BY <2>1 DEF RemoveFile, ClocksAfter, TombsAfter
    <3>2. Deletes(t, p, c)
      BY <2>1 DEF Deletes
    <3>. HIDE DEF t, cs, ts
    <3>. QED
      BY <1>2, <3>1, <3>2, OvertakesIs
  <2>2. CASE s[1] = PutTomb(p, c) /\ t = <<DropClock(p)>>
    <3>1. cs = clocks /\ \E at : ts = With(tombs, p, [clock |-> c, at |-> at])
      <4>1. s[1].do = "put_tomb" /\ s[1].path = p /\ s[1].clock = c
        BY <2>2 DEF PutTomb
      <4>. QED
        BY <4>1, Zenon DEF ClocksAfter, TombsAfter
    <3>2. ClockIn(cs, p) = ClockIn(clocks, p) /\ ClockIn(ts, p) = c
      BY <3>1 DEF ClockIn, With
    <3>. HIDE DEF t, cs, ts
    <3>. QED
      BY <1>2, <2>2, <3>2, OvertakesDropping DEF Seen
  <2>3. CASE s = <<PutTomb(p, c)>>
    BY <2>3, ShortPlans
  <2>4. CASE s = <<PutTomb(p, c), DropClock(p)>>
    BY <2>2, <2>4, ShortPlans
  <2>5. CASE s = <<RemoveFile(p), PutTomb(p, c), DropClock(p)>>
    BY <2>1, <2>5, ShortPlans
  <2>. QED
    BY <1>2, <2>3, <2>4, <2>5, Zenon DEF Deletes
<1>3. \A p : s # <<DropClock(p)>>
  BY ShortPlans
<1>4. \/ \E p : \E c \in Clock : Stores(s, p, c) /\ Seen(clocks, tombs, p, c)
      \/ \E p : \E c \in Clock : Deletes(s, p, c) /\ Seen(clocks, tombs, p, c)
  BY <1>3, OvertakesShapes, Zenon
<1>. QED
  BY <1>1, <1>2, <1>4, Zenon

\* An operation on the stores leaves what they have of the other paths.
LEMMA OthersUntouched ==
  ASSUME NEW op, op.do \notin {"rekey_clocks", "rekey_tombs"}, NEW p, op.path # p
  PROVE  /\ ClockIn(ClocksAfter(op), p) = LiveClock(p)
         /\ ClockIn(TombsAfter(op), p) = TombClock(p)
<1>1. \/ \E x : ClocksAfter(op) = With(clocks, op.path, x)
      \/ ClocksAfter(op) = Without(clocks, {op.path})
      \/ ClocksAfter(op) = clocks
  BY Zenon DEF ClocksAfter
<1>2. \/ \E x : TombsAfter(op) = With(tombs, op.path, x)
      \/ TombsAfter(op) = Without(tombs, {op.path})
      \/ TombsAfter(op) = tombs
  BY Zenon DEF TombsAfter
<1>. QED
  BY <1>1, <1>2 DEF LiveClock, TombClock, ClockIn, With, Without

\* What the plans of a write or a delete put, they put for one path.
LEMMA PendingOfShapes ==
  ASSUME NEW s, NEW p, NEW q, NEW c,
         s \in {<<PutClock(q, c)>>, <<DropTomb(q), PutClock(q, c)>>, <<PutTomb(q, c)>>,
                <<PutTomb(q, c), DropClock(q)>>, <<DropClock(q)>>}
  PROVE  Pending(s, p) \subseteq {c} /\ (Pending(s, p) # {} => p = q)
  BY DEF Pending, IsPut, PutClock, DropTomb, PutTomb, DropClock

\* One operation of a write or a delete on the stores: of its path the host then
\* knows a version that has seen all it knew before.
LEMMA UpdateKeepsVersions ==
  ASSUME TypeInv, NEW s, IsPlan(s), s # <<>>, Overtakes(s, clocks, tombs), ~OnDisk(s[1]),
         NEW p, IsOriginal(p),
         clocks' = ClocksAfter(s[1]), tombs' = TombsAfter(s[1])
  PROVE  \A c \in {LiveClock(p), TombClock(p)} \cup Pending(s, p) :
           \E c2 \in {LiveClock(p)', TombClock(p)'} \cup Pending(Tail(s), p) : Leq(c, c2)
<1>1. LiveClock(p) \in Clock /\ TombClock(p) \in Clock
  BY StoredClockType DEF TypeInv, TypeOK, LiveClock, TombClock
<1>2. /\ LiveClock(p)' = ClockIn(clocks', p) /\ TombClock(p)' = ClockIn(tombs', p)
  BY DEF LiveClock, TombClock, ClockIn
<1>3. \/ \E q : \E c \in Clock :
           /\ s \in {<<PutClock(q, c)>>, <<DropTomb(q), PutClock(q, c)>>, <<PutTomb(q, c)>>,
                     <<PutTomb(q, c), DropClock(q)>>}
           /\ Seen(clocks, tombs, q, c)
      \/ \E q : s = <<DropClock(q)>> /\ (IsOriginal(q) => Leq(LiveClock(q), TombClock(q)))
  <2>1. ASSUME NEW q, NEW c, Stores(s, q, c)
        PROVE  s \in {<<PutClock(q, c)>>, <<DropTomb(q), PutClock(q, c)>>}
    BY <2>1, Zenon DEF Stores
  <2>2. ASSUME NEW q, NEW c, Deletes(s, q, c)
        PROVE  s \in {<<PutTomb(q, c)>>, <<PutTomb(q, c), DropClock(q)>>}
    <3>1. s # <<RemoveFile(q), PutTomb(q, c), DropClock(q)>>
      BY ShortPlans DEF RemoveFile, OnDisk
    <3>. QED
      BY <2>2, <3>1, Zenon DEF Deletes
  <2>3. ASSUME NEW q, NEW c \in Clock, Stores(s, q, c) \/ Deletes(s, q, c), Seen(clocks, tombs, q, c)
        PROVE  /\ s \in {<<PutClock(q, c)>>, <<DropTomb(q), PutClock(q, c)>>, <<PutTomb(q, c)>>,
                         <<PutTomb(q, c), DropClock(q)>>}
               /\ Seen(clocks, tombs, q, c)
    BY <2>1, <2>2, <2>3
  <2>. QED
    BY <2>3, OvertakesShapes, Zenon DEF LiveClock, TombClock
<1>4. ASSUME NEW q, NEW c \in Clock, Seen(clocks, tombs, q, c),
             s \in {<<PutClock(q, c)>>, <<DropTomb(q), PutClock(q, c)>>, <<PutTomb(q, c)>>,
                    <<PutTomb(q, c), DropClock(q)>>}
      PROVE  \A x \in {LiveClock(p), TombClock(p)} \cup Pending(s, p) :
               \E c2 \in {LiveClock(p)', TombClock(p)'} \cup Pending(Tail(s), p) : Leq(x, c2)
  <2>1. Pending(s, p) \subseteq {c} /\ (Pending(s, p) # {} => p = q)
    BY <1>4, PendingOfShapes
  <2>2. s[1].path = q /\ s[1].do \in {"put_clock", "drop_tomb", "put_tomb"}
    BY <1>4, ShortPlans DEF PutClock, DropTomb, PutTomb
  <2>3. CASE p # q
    <3>1. LiveClock(p)' = LiveClock(p) /\ TombClock(p)' = TombClock(p)
      BY <1>2, <2>2, <2>3, OthersUntouched
    <3>. QED
      BY <1>1, <2>1, <2>3, <3>1, LeqBounds
  <2>4. CASE p = q
    <3>1. c \in {LiveClock(p)', TombClock(p)'} \cup Pending(Tail(s), p)
      <4>1. CASE s = <<PutClock(q, c)>>
        <5>1. s[1].do = "put_clock" /\ s[1].clock = c
          BY <4>1, ShortPlans DEF PutClock
        <5>2. clocks' = With(clocks, q, [clock |-> c, at |-> now])
          BY <2>2, <5>1, Zenon DEF ClocksAfter
        <5>. QED
          BY <1>2, <2>4, <5>2 DEF ClockIn, With
      <4>2. CASE s = <<DropTomb(q), PutClock(q, c)>>
        <5>1. Tail(s) = <<PutClock(q, c)>>
          BY <4>2, ShortPlans
        <5>2. c \in Pending(<<PutClock(q, c)>>, q)
          BY DEF Pending, IsPut, PutClock, OnDisk
        <5>. QED
          BY <2>4, <5>1, <5>2
      <4>3. CASE s \in {<<PutTomb(q, c)>>, <<PutTomb(q, c), DropClock(q)>>}
        <5>1. s[1].do = "put_tomb" /\ s[1].clock = c
          BY <4>3, ShortPlans DEF PutTomb
        <5>2. \E at : tombs' = With(tombs, q, [clock |-> c, at |-> at])
          BY <2>2, <5>1, Zenon DEF TombsAfter
        <5>. QED
          BY <1>2, <2>4, <5>2 DEF ClockIn, With
      <4>. QED
        BY <1>4, <4>1, <4>2, <4>3
    <3>2. Leq(LiveClock(p), c) /\ Leq(TombClock(p), c) /\ Leq(c, c)
      BY <1>4, <2>4, LeqBounds DEF Seen, LiveClock, TombClock
    <3>. QED
      BY <2>1, <3>1, <3>2
  <2>. QED
    BY <2>3, <2>4
<1>5. ASSUME NEW q, s = <<DropClock(q)>>, IsOriginal(q) => Leq(LiveClock(q), TombClock(q))
      PROVE  \A x \in {LiveClock(p), TombClock(p)} \cup Pending(s, p) :
               \E c2 \in {LiveClock(p)', TombClock(p)'} \cup Pending(Tail(s), p) : Leq(x, c2)
  <2>1. Pending(s, p) = {}
    BY <1>5 DEF Pending, IsPut, DropClock
  <2>2. s[1].path = q /\ s[1].do = "drop_clock"
    BY <1>5, ShortPlans DEF DropClock
  <2>3. TombClock(p)' = TombClock(p)
    <3>1. tombs' = tombs
      BY <2>2, Zenon DEF TombsAfter
    <3>. QED
      BY <3>1 DEF TombClock, ClockIn
  <2>4. CASE p # q
    <3>1. LiveClock(p)' = LiveClock(p)
      BY <1>2, <2>2, <2>4, OthersUntouched
    <3>. QED
      BY <1>1, <2>1, <2>3, <3>1, LeqBounds
  <2>5. CASE p = q
    BY <1>1, <1>5, <2>1, <2>3, <2>5, LeqBounds
  <2>. QED
    BY <2>4, <2>5
<1>. QED
  BY <1>3, <1>4, <1>5, Zenon

\* One operation forgets no version of a path that its request does not give to
\* another file.
LEMMA StepForgetsNothing ==
  ASSUME TypeInv, Apart, VersionInv, NoMkdir, NEW d \in Device, Step(d),
         NEW p, IsOriginal(p), ~Reassigned(p)
  PROVE  \A c \in Known(p) : \E c2 \in Known(p)' : Leq(c, c2)
<1>. DEFINE s == plan[d]
<1>1. /\ pc[d] = "locked" /\ s # <<>> /\ IsPlan(s)
      /\ req[d].op \in {"write", "stream", "delete", "rename"}
      /\ \A e \in Device \ {d} : plan[e] = <<>>
  BY OnePlan DEF Step, TypeInv, TypeOK, Shape, NoMkdir, Mutation
<1>2. /\ 1 \in DOMAIN s /\ Head(s) = s[1]
      /\ DOMAIN s = 1..Len(s) /\ DOMAIN Tail(s) = 1..(Len(s) - 1) /\ Len(s) \in Nat
  BY <1>1, TailPlan
<1>3. /\ clocks' = ClocksAfter(s[1]) /\ tombs' = TombsAfter(s[1])
      /\ plan'[d] = Tail(s) /\ \A e \in Device \ {d} : plan'[e] = <<>>
  BY <1>1, <1>2 DEF Step, TypeInv, Shape
<1>4. s[1].do \notin {"rekey_clocks", "rekey_tombs"}
  BY <1>2 DEF Apart, PlansKeepApart, KeepsApart
<1>5. \A t : Pending(t, p)' = Pending(t, p)
  BY DEF Pending, IsPut, OnDisk
<1>6. /\ Known(p) = {LiveClock(p), TombClock(p)} \cup Pending(s, p)
      /\ Known(p)' = {LiveClock(p)', TombClock(p)'} \cup Pending(Tail(s), p)
  <2>1. \A e \in Device \ {d} : Pending(plan[e], p) = {} /\ Pending(plan'[e], p) = {}
    BY <1>1, <1>3, NonePending
  <2>2. Known(p)' = {LiveClock(p)', TombClock(p)'} \cup UNION {Pending(plan'[e], p) : e \in Device}
    BY DEF Known, Pending, IsPut, OnDisk
  <2>3. UNION {Pending(plan[e], p) : e \in Device} = Pending(plan[d], p)
    BY <2>1
  <2>4. UNION {Pending(plan'[e], p) : e \in Device} = Pending(plan'[d], p)
    BY <2>1
  <2>5. Known(p) = {LiveClock(p), TombClock(p)} \cup Pending(s, p)
    BY <2>3, Zenon DEF Known
  <2>6. Known(p)' = {LiveClock(p)', TombClock(p)'} \cup Pending(Tail(s), p)
    BY <1>3, <2>2, <2>4
  <2>. QED
    BY <2>5, <2>6
<1>7. CASE OnDisk(s[1])
  <2>1. clocks' = clocks /\ tombs' = tombs
    BY <1>3, <1>7, Zenon DEF OnDisk, ClocksAfter, TombsAfter
  <2>2. \A e \in Device : Pending(plan[e], p) \subseteq Pending(plan'[e], p)
    BY <1>1, <1>7, NonePending
  <2>. QED
    BY <2>1, <2>2, NothingForgotten
<1>8. CASE ~OnDisk(s[1]) /\ req[d].op = "rename"
  <2>1. p \notin {req[d].path, req[d].to}
    BY <1>1, <1>8 DEF Reassigned
  <2>2. \A i \in DOMAIN s : OnDisk(s[i]) \/ s[i].path # p
    BY <1>1, <1>8, <2>1 DEF VersionInv
  <2>3. Pending(s, p) = {}
    BY <2>2 DEF Pending, IsPut, OnDisk
  <2>4. s[1].path # p
    BY <1>2, <1>8, <2>2
  <2>5. LiveClock(p)' = LiveClock(p) /\ TombClock(p)' = TombClock(p)
    BY <1>3, <1>4, <2>4, OthersUntouched DEF LiveClock, TombClock, ClockIn
  <2>6. LiveClock(p) \in Clock /\ TombClock(p) \in Clock
    BY StoredClockType DEF TypeInv, TypeOK, LiveClock, TombClock
  <2>. QED
    BY <1>6, <2>3, <2>5, <2>6, LeqBounds
<1>9. CASE ~OnDisk(s[1]) /\ req[d].op \in {"write", "stream", "delete"}
  <2>1. Overtakes(s, clocks, tombs)
    BY <1>1, <1>9 DEF VersionInv
  <2>. HIDE DEF s
  <2>2. \A c \in {LiveClock(p), TombClock(p)} \cup Pending(s, p) :
          \E c2 \in {LiveClock(p)', TombClock(p)'} \cup Pending(Tail(s), p) : Leq(c, c2)
    BY <1>1, <1>3, <1>9, <2>1, UpdateKeepsVersions
  <2>. QED
    BY <1>6, <2>2
<1>. QED
  BY <1>1, <1>7, <1>8, <1>9

\* An operation leaves a plan that overtakes the stores, or one for the paths of
\* its rename.
LEMMA StepVersions ==
  ASSUME TypeInv, VersionInv, NoMkdir, NEW d \in Device, Step(d)
  PROVE  VersionInv'
<1>. DEFINE s == plan[d]
<1>1. /\ pc[d] = "locked" /\ s # <<>> /\ IsPlan(s)
      /\ \A e \in Device \ {d} : pc[e] # "locked"
  BY OnePlan DEF Step, TypeInv, TypeOK, Shape
<1>2. /\ Head(s) = s[1] /\ Len(s) \in Nat
      /\ DOMAIN s = 1..Len(s) /\ DOMAIN Tail(s) = 1..(Len(s) - 1)
      /\ \A i \in 1..(Len(s) - 1) : Tail(s)[i] = s[i + 1]
  BY <1>1, TailPlan
<1>3. /\ clocks' = ClocksAfter(s[1]) /\ tombs' = TombsAfter(s[1])
      /\ plan'[d] = Tail(s) /\ req' = req /\ gc' = gc
      /\ \A e \in Device \ {d} : pc'[e] # "locked"
      /\ pc'[d] = "locked" => Tail(s) # <<>>
  BY <1>1, <1>2 DEF Step, TypeInv, TypeOK, Shape
<1>4. ASSUME pc'[d] = "locked", req[d].op \in {"write", "stream", "delete"}
      PROVE  Overtakes(plan'[d], clocks', tombs')
  <2>1. Overtakes(s, clocks, tombs)
    BY <1>1, <1>4 DEF VersionInv
  <2>. HIDE DEF s
  <2>2. Overtakes(Tail(s), ClocksAfter(s[1]), TombsAfter(s[1]))
    BY <1>1, <1>3, <1>4, <2>1, TailOvertakes
  <2>. QED
    BY <1>3, <2>2
<1>5. ASSUME req[d].op = "rename", NEW i \in DOMAIN plan'[d]
      PROVE  OnDisk(plan'[d][i]) \/ plan'[d][i].path \in {req[d].path, req[d].to}
  <2>1. i \in 1..(Len(s) - 1) /\ i + 1 \in DOMAIN s /\ plan'[d][i] = s[i + 1]
    BY <1>2, <1>3, <1>5
  <2>. QED
    BY <1>1, <1>5, <2>1 DEF VersionInv
<1>. HIDE DEF s
<1>6. \A e \in Device : pc'[e] = "locked" =>
        /\ req'[e].op \in {"write", "stream", "delete"} => Overtakes(plan'[e], clocks', tombs')
        /\ req'[e].op = "rename" =>
             \A i \in DOMAIN plan'[e] :
               OnDisk(plan'[e][i]) \/ plan'[e][i].path \in {req'[e].path, req'[e].to}
  BY <1>3, <1>4, <1>5
<1>. QED
  BY <1>3, <1>6 DEF VersionInv, OnDisk

\* What the collector removes it removes at the end of a batch, and goes on to
\* the next (gc_remove_batch).
LEMMA GcMoves ==
  ASSUME Gc, "phase" \in DOMAIN gc
  PROVE  "phase" \in DOMAIN gc' /\ (gc' = gc => UNCHANGED <<clocks, tombs>>)
<1>1. ASSUME NEW next \in {"entries", "cap_tombs", "cap_clocks", "idle"}, Advance(next),
             gc.phase # next
      PROVE  "phase" \in DOMAIN gc' /\ gc' # gc
  <2>1. CASE next = "idle"
    BY <1>1, <2>1 DEF Advance, NoSweep
  <2>2. CASE next # "idle"
    <3>1. DOMAIN gc' = DOMAIN gc /\ gc'.phase = next
      BY <1>1, <2>2 DEF Advance
    <3>. QED
      BY <1>1, <3>1
  <2>. QED
    BY <2>1, <2>2
<1>2. CASE CollectTombs \/ CollectClocks \/ CapTombs \/ CapClocks
  <2>1. \E next \in {"entries", "cap_tombs", "cap_clocks", "idle"} :
          Advance(next) /\ gc.phase # next
    BY <1>2 DEF CollectTombs, CollectClocks, CapTombs, CapClocks, TombsScanned, ClocksScanned,
                RemoveTombs, RemoveClocks, Skip
  <2>. QED
    BY <1>1, <2>1
<1>3. CASE SweepStarts
  BY <1>3 DEF SweepStarts, NoSweep, store
<1>4. CASE LookAtTomb \/ ListClocks \/ LookAtClock \/ LookForTomb \/ CountEntries \/ CountOrphans
  BY <1>4 DEF LookAtTomb, ListClocks, LookAtClock, LookForTomb, CountEntries, CountOrphans, store
<1>. QED
  BY <1>2, <1>3, <1>4, Zenon DEF Gc

\* It removes nothing without the lock.
LEMMA GcUnderLock ==
  ASSUME Gc
  PROVE  UNCHANGED <<clocks, tombs>> \/ LockFree
<1>1. CASE CollectTombs \/ CollectClocks \/ CapTombs \/ CapClocks
  BY <1>1 DEF CollectTombs, CollectClocks, CapTombs, CapClocks, RemoveTombs, RemoveClocks,
              Skip, store
<1>2. CASE \/ SweepStarts \/ LookAtTomb \/ ListClocks \/ LookAtClock \/ LookForTomb
           \/ CountEntries \/ CountOrphans
  BY <1>2 DEF SweepStarts, LookAtTomb, ListClocks, LookAtClock, LookForTomb, CountEntries,
              CountOrphans, store
<1>. QED
  BY <1>1, <1>2, Zenon DEF Gc

\* Steps that leave the stores, every plan and what is said of the sweep.
LEMMA VersionsStay ==
  ASSUME TypeInv, VersionInv, UNCHANGED <<clocks, tombs, gc>>,
         \A e \in Device : plan'[e] = plan[e],
         \A e \in Device : pc'[e] = "locked" => pc[e] = "locked" /\ req'[e] = req[e]
  PROVE  VersionInv' /\ \A p : \A c \in Known(p) : \E c2 \in Known(p)' : Leq(c, c2)
<1>1. VersionInv'
  BY VersionsElsewhere DEF VersionInv
<1>2. ASSUME NEW p
      PROVE  \A c \in Known(p) : \E c2 \in Known(p)' : Leq(c, c2)
  BY NothingForgotten
<1>. QED
  BY <1>1, <1>2

\* A handler that is dropped, or fails, at its file operation had stored
\* nothing of its plan.
LEMMA GivesUpNothing ==
  ASSUME TypeInv, VersionInv, NEW d \in Device, OnDisk(Head(plan[d])) \/ pc[d] # "locked",
         pc'[d] # "locked", plan'[d] = <<>>, UNCHANGED <<clocks, tombs, gc>>,
         \A e \in Device \ {d} : pc'[e] = pc[e] /\ plan'[e] = plan[e] /\ req'[e] = req[e]
  PROVE  VersionInv' /\ \A p : \A c \in Known(p) : \E c2 \in Known(p)' : Leq(c, c2)
<1>1. VersionInv'
  BY VersionsElsewhere DEF VersionInv
<1>2. ASSUME NEW p
      PROVE  \A c \in Known(p) : \E c2 \in Known(p)' : Leq(c, c2)
  <2>1. plan[d] = <<>> \/ OnDisk(plan[d][1])
    <3>1. CASE pc[d] # "locked"
      BY <3>1 DEF TypeInv, TypeOK
    <3>2. CASE pc[d] = "locked"
      <4>1. IsPlan(plan[d]) /\ plan[d] # <<>>
        BY <3>2 DEF TypeInv, TypeOK, Shape
      <4>. QED
        BY <3>2, <4>1, TailPlan
    <3>. QED
      BY <3>1, <3>2
  <2>2. \A e \in Device : Pending(plan[e], p) \subseteq Pending(plan'[e], p)
    BY <2>1, NonePending
  <2>. QED
    BY <2>2, NothingForgotten
<1>. QED
  BY <1>1, <1>2

\* Every step but a crash keeps the invariant, and forgets no version.
LEMMA NextVersions ==
  ASSUME NoMkdir, NoCrash, TypeInv, Apart, VersionInv, [Next]_vars
  PROVE  /\ VersionInv'
         /\ \A p : IsOriginal(p) /\ ~Reassigned(p) /\ gc' = gc =>
              \A c \in Known(p) : \E c2 \in Known(p)' : Leq(c, c2)
<1>. DEFINE Remembers == \A p : \A c \in Known(p) : \E c2 \in Known(p)' : Leq(c, c2)
<1>0. DOMAIN pc = Device /\ DOMAIN plan = Device /\ DOMAIN req = Device
  BY DEF TypeInv, TypeOK, Shape
<1>1. ASSUME NEW d \in Device, EnsureParent(d) \/ Stage(d) \/ Look(d)
      PROVE  VersionInv' /\ Remembers
  <2>1. /\ UNCHANGED <<clocks, tombs, gc, plan, req>>
        /\ \E to \in {"replied", "staging", "waiting", "found"} : pc' = [pc EXCEPT ![d] = to]
    BY <1>1 DEF EnsureParent, Stage, Look, StatFile, StatClock, ReadFile, ListDir, Finish, store
  <2>2. \A e \in Device : pc'[e] = "locked" => pc[e] = "locked"
    BY <1>0, <2>1
  <2>. QED
    BY <2>1, <2>2, VersionsStay
<1>2. ASSUME NEW d \in Device, NEW r \in Request, Submit(d, r)
      PROVE  VersionInv' /\ Remembers
  <2>1. /\ UNCHANGED <<clocks, tombs, gc, plan>> /\ req' = [req EXCEPT ![d] = r]
        /\ \E to \in {"accepted", "waiting"} : pc' = [pc EXCEPT ![d] = to]
    BY <1>2 DEF Submit, store
  <2>2. \A e \in Device : pc'[e] = "locked" => pc[e] = "locked" /\ req'[e] = req[e]
    BY <1>0, <2>1
  <2>. QED
    BY <2>1, <2>2, VersionsStay
<1>3. ASSUME NEW d \in Device, Return(d) \/ Disconnect(d)
      PROVE  VersionInv' /\ Remembers
  <2>1. /\ OnDisk(Head(plan[d])) \/ pc[d] # "locked"
        /\ Forget(d) /\ UNCHANGED <<clocks, tombs, gc>>
    BY <1>3 DEF Return, Disconnect, DropBeforeLock, DropUnderLock, store
  <2>2. /\ pc'[d] # "locked" /\ plan'[d] = <<>>
        /\ \A e \in Device \ {d} : pc'[e] = pc[e] /\ plan'[e] = plan[e] /\ req'[e] = req[e]
    BY <1>0, <2>1 DEF Forget
  <2>. QED
    BY <2>1, <2>2, GivesUpNothing
<1>4. ASSUME NEW d \in Device, StepFails(d)
      PROVE  VersionInv' /\ Remembers
  <2>1. OnDisk(Head(plan[d]))
    BY <1>4, Zenon DEF StepFails, Possible, OnDisk
  <2>2. /\ pc'[d] # "locked" /\ plan'[d] = <<>> /\ UNCHANGED <<clocks, tombs, gc>>
        /\ \A e \in Device \ {d} : pc'[e] = pc[e] /\ plan'[e] = plan[e] /\ req'[e] = req[e]
    BY <1>0, <1>4 DEF StepFails, Finish, store
  <2>. QED
    BY <2>1, <2>2, GivesUpNothing
<1>5. ASSUME NEW d \in Device, Acquire(d)
      PROVE  VersionInv' /\ Remembers
  <2>1. VersionInv'
    BY <1>5, AcquireVersions
  <2>2. ASSUME NEW p
        PROVE  \A c \in Known(p) : \E c2 \in Known(p)' : Leq(c, c2)
    <3>1. plan[d] = <<>> /\ UNCHANGED <<clocks, tombs>>
          /\ \A e \in Device \ {d} : plan'[e] = plan[e]
      BY <1>0, <1>5 DEF Acquire, TypeInv, TypeOK, store
    <3>2. \A e \in Device : Pending(plan[e], p) \subseteq Pending(plan'[e], p)
      BY <3>1, NonePending
    <3>. QED
      BY <3>1, <3>2, NothingForgotten
  <2>. QED
    BY <2>1, <2>2
<1>6. ASSUME NEW d \in Device, Step(d)
      PROVE  /\ VersionInv'
             /\ \A p : IsOriginal(p) /\ ~Reassigned(p) =>
                  \A c \in Known(p) : \E c2 \in Known(p)' : Leq(c, c2)
  <2>1. VersionInv'
    BY <1>6, StepVersions
  <2>2. ASSUME NEW p, IsOriginal(p), ~Reassigned(p)
        PROVE  \A c \in Known(p) : \E c2 \in Known(p)' : Leq(c, c2)
    BY <1>6, <2>2, StepForgetsNothing
  <2>. QED
    BY <2>1, <2>2
<1>7. CASE Gc
  <2>1. UNCHANGED rpc /\ lock' = lock
    BY <1>7, GcOnlyRemoves
  <2>2. "phase" \in DOMAIN gc' /\ (gc' = gc => UNCHANGED <<clocks, tombs>>)
    BY <1>7, GcMoves DEF VersionInv
  <2>3. VersionInv'
    <3>1. CASE UNCHANGED <<clocks, tombs>>
      BY <2>1, <2>2, <3>1, VersionsElsewhere DEF rpc
    <3>2. CASE LockFree
      BY <2>1, <2>2, <3>2, FileHostAssumption DEF LockFree, TypeInv, TypeOK, VersionInv, rpc
    <3>3. UNCHANGED <<clocks, tombs>> \/ LockFree
      BY <1>7, GcUnderLock
    <3>. QED
      BY <3>1, <3>2, <3>3
  <2>4. gc' = gc => Remembers
    BY <2>1, <2>2, VersionsStay DEF rpc
  <2>. QED
    BY <2>3, <2>4
<1>8. ASSUME NEW op \in detached, Detached(op)
      PROVE  VersionInv' /\ Remembers
  BY <1>8, VersionsStay DEF Detached, store, rpc
<1>9. CASE Second \/ UNCHANGED vars
  BY <1>9, VersionsStay DEF Second, vars, store, rpc
<1>10. ~Crash
  BY DEF Crash, NoCrash
<1>. QED
  BY <1>1, <1>2, <1>3, <1>4, <1>5, <1>6, <1>7, <1>8, <1>9, <1>10, Zenon DEF Next, Serve, Handle

\* The agent starts with no plan and the collector between sweeps.
LEMMA InitVersions == Init => VersionInv
  BY DEF Init, VersionInv, NoSweep

\* For every set of devices and requests, lost connections and failing file
\* operations: the host forgets no version of a path that it has acknowledged,
\* as long as neither the collector nor a rename takes the entry, no directory
\* is made, every request carries an edit and the agent does not die
\* (write_file, delete_file).
THEOREM VersionsKept ==
  NoMkdir /\ EditsTicked /\ NoCrash => (Spec => VersionsOnlyGrow)
<1>. SUFFICES ASSUME NoMkdir, EditsTicked, NoCrash PROVE Spec => VersionsOnlyGrow
  OBVIOUS
<1>1. Init => OneStoreInv /\ VersionInv
  BY InitType, InitApart, InitVersions DEF OneStoreInv, Apart
<1>2. OneStoreInv /\ VersionInv /\ [Next]_vars => (OneStoreInv /\ VersionInv)'
  BY NextType, NextApart, NextVersions DEF OneStoreInv, Apart
<1>3. OneStoreInv /\ VersionInv /\ [Next]_vars =>
        [\A p \in DOMAIN clocks \cup DOMAIN tombs :
           IsOriginal(p) /\ ~Reassigned(p) /\ gc' = gc =>
             \A c \in Known(p) : \E c2 \in Known(p)' : Leq(c, c2)]_vars
  BY NextVersions DEF OneStoreInv, Apart
<1>. QED
  BY <1>1, <1>2, <1>3, PTL DEF Spec, VersionsOnlyGrow

-----------------------------------------------------------------------------
(* Answers.                                                                 *)

LastCopy(q) == LET copies == q[Len(q)].copies IN copies[Len(copies)]

\* A copy's name ends with whose it is and of when.
LEMMA CopiesEnd ==
  ASSUME NEW p \in Path \ {Root}, NEW d \in Device, now \in Nat
  PROVE  /\ LastCopy(TempPath(p, d)) = [by |-> d, at |-> 0]
         /\ LastCopy(ConflictPath(p, d)) = [by |-> d, at |-> now]
<1>. DEFINE n == Len(p)
            S == [by : Device, at : Nat]
<1>1. /\ n \in Nat \ {0} /\ n \in DOMAIN p /\ p \in Seq(Leaf)
      /\ p[n] \in Leaf /\ DOMAIN p = 1..n
  BY DEF Path, Root
<1>2. p[n].copies \in Seq(S) /\ DOMAIN p[n] = {"name", "copies"}
  BY <1>1 DEF Leaf
<1>3. ASSUME NEW x \in S, NEW q, q = [p EXCEPT ![n] = [p[n] EXCEPT !.copies = Append(@, x)]]
      PROVE  LastCopy(q) = x
  <2>1. DOMAIN q = 1..n /\ q[n].copies = Append(p[n].copies, x)
    BY <1>1, <1>2, <1>3
  <2>2. q \in Seq({q[i] : i \in 1..n}) /\ Len(q) = n
    <3>1. q = [i \in 1..n |-> q[i]]
      BY <1>1, <1>3
    <3>. QED
      BY <1>1, <2>1, <3>1, LenProperties
  <2>3. Append(p[n].copies, x)[Len(Append(p[n].copies, x))] = x
    <3>. HIDE DEF S
    <3>. QED
      BY <1>2
  <2>. QED
    BY <2>1, <2>2, <2>3 DEF LastCopy
<1>4. /\ ConflictPath(p, d) =
           [p EXCEPT ![n] = [p[n] EXCEPT !.copies = Append(@, [by |-> d, at |-> now])]]
      /\ TempPath(p, d) =
           [p EXCEPT ![n] = [p[n] EXCEPT !.copies = Append(@, [by |-> d, at |-> 0])]]
  BY DEF ConflictPath, TempPath
<1>5. [by |-> d, at |-> 0] \in S /\ [by |-> d, at |-> now] \in S
  OBVIOUS
<1>. HIDE DEF S
<1>. QED
  BY <1>3, <1>4, <1>5

\* The files that two handlers stage are different ones, and no conflict copy.
LEMMA StagedApart ==
  ASSUME now \in Nat \ {0}, NEW p \in Path \ {Root}, NEW q \in Path \ {Root},
         NEW d \in Device, NEW e \in Device
  PROVE  /\ d # e => TempPath(p, d) # TempPath(q, e)
         /\ TempPath(p, d) # ConflictPath(q, e)
<1>1. /\ LastCopy(TempPath(p, d)) = [by |-> d, at |-> 0]
      /\ LastCopy(TempPath(q, e)) = [by |-> e, at |-> 0]
      /\ LastCopy(ConflictPath(q, e)) = [by |-> e, at |-> now]
  BY CopiesEnd
<1>2. /\ [by |-> d, at |-> 0].by = d /\ [by |-> e, at |-> 0].by = e
      /\ [by |-> d, at |-> 0].at = 0 /\ [by |-> e, at |-> now].at = now
  OBVIOUS
<1>. QED
  BY <1>1, <1>2

\* What each kind of operation does to the directory and the stores.
LEMMA Effects ==
  ASSUME NEW op
  PROVE  /\ OnDisk(op) => ClocksAfter(op) = clocks /\ TombsAfter(op) = tombs
         /\ ~OnDisk(op) => DiskAfter(op) = disk
         /\ op.do \in {"put_clock", "drop_clock"} => TombsAfter(op) = tombs
         /\ op.do \in {"put_tomb", "drop_tomb"} => ClocksAfter(op) = clocks
         /\ op.do = "put_clock" => ClockIn(ClocksAfter(op), op.path) = op.clock
         /\ op.do = "put_tomb"  => ClockIn(TombsAfter(op), op.path) = op.clock
         /\ op.do = "drop_clock" => ClockIn(ClocksAfter(op), op.path) = EmptyClock
         /\ op.do = "drop_tomb"  => ClockIn(TombsAfter(op), op.path) = EmptyClock
<1>1. /\ OnDisk(op) => ClocksAfter(op) = clocks /\ TombsAfter(op) = tombs
      /\ op.do \in {"put_clock", "drop_clock"} => TombsAfter(op) = tombs
      /\ op.do \in {"put_tomb", "drop_tomb"} => ClocksAfter(op) = clocks
  BY DEF OnDisk, ClocksAfter, TombsAfter
<1>2. ~OnDisk(op) => DiskAfter(op) = disk
  BY Zenon DEF OnDisk, DiskAfter
<1>3. ASSUME op.do = "put_clock"
      PROVE  ClockIn(ClocksAfter(op), op.path) = op.clock
  <2>1. ClocksAfter(op) = With(clocks, op.path, [clock |-> op.clock, at |-> now])
    BY <1>3, Zenon DEF ClocksAfter
  <2>. QED
    BY <2>1 DEF ClockIn, With
<1>4. ASSUME op.do = "put_tomb"
      PROVE  ClockIn(TombsAfter(op), op.path) = op.clock
  <2>1. \E at : TombsAfter(op) = With(tombs, op.path, [clock |-> op.clock, at |-> at])
    BY <1>4, Zenon DEF TombsAfter
  <2>. QED
    BY <2>1 DEF ClockIn, With
<1>5. ASSUME op.do = "drop_clock"
      PROVE  ClockIn(ClocksAfter(op), op.path) = EmptyClock
  <2>1. ClocksAfter(op) = Without(clocks, {op.path})
    BY <1>5 DEF ClocksAfter
  <2>. QED
    BY <2>1 DEF ClockIn, Without
<1>6. ASSUME op.do = "drop_tomb"
      PROVE  ClockIn(TombsAfter(op), op.path) = EmptyClock
  <2>1. TombsAfter(op) = Without(tombs, {op.path})
    BY <1>6 DEF TombsAfter
  <2>. QED
    BY <2>1 DEF ClockIn, Without
<1>. QED
  BY <1>1, <1>2, <1>3, <1>4, <1>5, <1>6

\* The parts of the operations.
LEMMA OpFields ==
  /\ \A p, c, x : LET op == WriteFile(p, c, x)
                  IN op.do = "write" /\ op.path = p /\ op.edit = c /\ op.data = x
  /\ \A p, q : LET op == Move(p, q) IN op.do = "move" /\ op.path = p /\ op.to = q
  /\ \A p : RemoveFile(p).do = "remove" /\ RemoveFile(p).path = p
  /\ \A p : DropClock(p).do = "drop_clock" /\ DropClock(p).path = p
  /\ \A p : DropTomb(p).do = "drop_tomb" /\ DropTomb(p).path = p
  /\ \A p, c : PutClock(p, c).do = "put_clock" /\ PutClock(p, c).path = p /\ PutClock(p, c).clock = c
  /\ \A p, c : PutTomb(p, c).do = "put_tomb" /\ PutTomb(p, c).path = p /\ PutTomb(p, c).clock = c
  BY DEF WriteFile, Move, RemoveFile, DropClock, DropTomb, PutClock, PutTomb

\* The operations of a plan written out.
LEMMA OpsOfShort ==
  /\ \A a : OpsOf(<<a>>) = {a}
  /\ \A a, b : OpsOf(<<a, b>>) = {a, b}
  /\ \A a, b, c : OpsOf(<<a, b, c>>) = {a, b, c}
  /\ \A a, b, c, e : OpsOf(<<a, b, c, e>>) = {a, b, c, e}
<1>1. \A a : OpsOf(<<a>>) = {a}
  BY DEF OpsOf
<1>2. \A a, b : OpsOf(<<a, b>>) = {a, b}
  BY DEF OpsOf
<1>3. \A a, b, c : OpsOf(<<a, b, c>>) = {a, b, c}
  BY DEF OpsOf
<1>4. \A a, b, c, e : OpsOf(<<a, b, c, e>>) = {a, b, c, e}
  BY DEF OpsOf
<1>. QED
  BY <1>1, <1>2, <1>3, <1>4

\* A file operation that a request decided on, when it succeeds.
LEMMA FileInPlace ==
  ASSUME Tree, OnlyParents, NEW op, Possible(op),
         op.do = "move" => op.path \in Path \ {Root} /\ op.to \in Path \ {Root} /\ ~IsParent(op.path)
  PROVE  /\ op.do = "write" => /\ op.path \in DOMAIN DiskAfter(op)
                               /\ DiskAfter(op)[op.path] = File(op.edit, op.data)
         /\ op.do = "move" => /\ op.to \in DOMAIN DiskAfter(op)
                              /\ DiskAfter(op)[op.to] = disk[op.path]
         /\ op.do = "remove" => op.path \notin DOMAIN DiskAfter(op)
<1>1. ASSUME op.do = "write"
      PROVE  /\ op.path \in DOMAIN DiskAfter(op)
             /\ DiskAfter(op)[op.path] = File(op.edit, op.data)
  <2>1. DiskAfter(op) = With(disk, op.path, File(op.edit, op.data))
    BY <1>1, Zenon DEF DiskAfter
  <2>. QED
    BY <2>1 DEF With
<1>2. ASSUME op.do = "move"
      PROVE  op.to \in DOMAIN DiskAfter(op) /\ DiskAfter(op)[op.to] = disk[op.path]
  <2>1. /\ op.path \in Path \ {Root} /\ op.to \in Path \ {Root} /\ ~IsParent(op.path)
        /\ op.path \in DOMAIN disk /\ DiskAfter(op) = Moved(disk, op.path, op.to)
    BY <1>2, Zenon DEF Possible, DiskAfter, Exists
  <2>2. \A p \in DOMAIN disk : Within(op.path, p) => p = op.path
    BY <2>1, NotADir, NothingBelow
  <2>3. /\ op.path \in Path \cap DOMAIN disk /\ op.to \in Path
        /\ DiskAfter(op) = Moved(disk, op.path, op.to)
    BY <2>1
  <2>4. ASSUME NEW from \in Path \cap DOMAIN disk, NEW to \in Path,
               \A p \in DOMAIN disk : Within(from, p) => p = from
        PROVE  to \in DOMAIN Moved(disk, from, to) /\ Moved(disk, from, to)[to] = disk[from]
    <3>1. Moved(disk, from, to) = [q \in (DOMAIN disk \ {from}) \cup {to} |->
                                     IF q = to THEN disk[from] ELSE disk[q]]
      BY <2>4, MovedAlone
    <3>. QED
      BY <3>1
  <2>. QED
    BY <2>2, <2>3, <2>4
<1>3. ASSUME op.do = "remove"
      PROVE  op.path \notin DOMAIN DiskAfter(op)
  <2>1. DiskAfter(op) = Without(disk, {op.path})
    BY <1>3, Zenon DEF DiskAfter
  <2>. QED
    BY <2>1 DEF Without
<1>. QED
  BY <1>1, <1>2, <1>3

\* A streamed write stores the copy it has staged, a write the data it carries.
StagedFor(d, r, s) ==
  r.op = "stream" /\ OnDisk(s[1]) =>
    TempPath(r.path, d) \in DOMAIN disk /\ disk[TempPath(r.path, d)] = File(r.clock, r.data)

\* What holds of a plan and its request when the handler carries out the first
\* operation.
CanStep(d, r, s) ==
  /\ Tree /\ OnlyParents /\ s # <<>> /\ Possible(s[1]) /\ StagedFor(d, r, s)
  /\ r.path \in Path \ {Root} /\ (r.op = "rename" => r.to \in Path \ {Root})
  /\ s[1].do = "move" => /\ s[1].path \in Path \ {Root} /\ s[1].to \in Path \ {Root}
                         /\ ~IsParent(s[1].path)

\* The operations of a write that applies, one after the other (write_file,
\* write_file_stream).
LEMMA ApplyingStep ==
  ASSUME NEW d \in Device, NEW r, NEW s, NEW c, CanStep(d, r, s), r.op \in {"write", "stream"},
         WillApply(d, r, s, c, disk, tombs)
  PROVE  LET f == DiskAfter(s[1])
             cs == ClocksAfter(s[1])
             ts == TombsAfter(s[1])
         IN /\ Tail(s) # <<>> => WillApply(d, r, Tail(s), c, f, ts)
            /\ Tail(s) = <<>> => /\ r.path \in DOMAIN f /\ f[r.path] = File(r.clock, r.data)
                                 /\ ClockIn(cs, r.path) = c /\ ClockIn(ts, r.path) = EmptyClock
<1>. DEFINE p == r.path
            op == Store(d, r, p)
            f == DiskAfter(s[1])
            cs == ClocksAfter(s[1])
            ts == TombsAfter(s[1])
<1>1. OnDisk(op) /\ op.do \in {"write", "move"}
  BY DEF Store, WriteFile, Move, OnDisk
<1>2. ASSUME s[1] = op
      PROVE  p \in DOMAIN f /\ f[p] = File(r.clock, r.data) /\ cs = clocks /\ ts = tombs
  <2>1. cs = clocks /\ ts = tombs
    BY <1>1, <1>2, Effects
  <2>2. CASE r.op = "write"
    <3>1. op = WriteFile(p, r.clock, r.data)
      BY <2>2 DEF Store
    <3>2. op.do = "write" /\ op.path = p /\ op.edit = r.clock /\ op.data = r.data
      BY <3>1, OpFields
    <3>3. p \in DOMAIN f /\ f[p] = File(r.clock, r.data)
      <4>. HIDE DEF op
      <4>. QED
        BY <1>2, <3>2, FileInPlace DEF CanStep
    <3>. QED
      BY <2>1, <3>3
  <2>3. CASE r.op = "stream"
    <3>1. op = Move(TempPath(p, d), p)
      BY <2>3 DEF Store
    <3>2. op.do = "move" /\ op.path = TempPath(p, d) /\ op.to = p
      BY <3>1, OpFields
    <3>3. disk[TempPath(p, d)] = File(r.clock, r.data)
      BY <1>1, <1>2, <2>3 DEF CanStep, StagedFor
    <3>4. p \in DOMAIN f /\ f[p] = disk[TempPath(p, d)]
      <4>. HIDE DEF op
      <4>. QED
        BY <1>2, <3>2, FileInPlace DEF CanStep
    <3>. QED
      BY <2>1, <3>3, <3>4
  <2>. QED
    BY <2>2, <2>3
<1>. HIDE DEF op, f, cs, ts, p
<1>3. /\ DropTomb(p).do = "drop_tomb" /\ DropTomb(p).path = p
      /\ PutClock(p, c).do = "put_clock" /\ PutClock(p, c).path = p /\ PutClock(p, c).clock = c
  BY OpFields
<1>4. ~OnDisk(DropTomb(p)) /\ ~OnDisk(PutClock(p, c))
  BY <1>3 DEF OnDisk
<1>5. DropTomb(p) # op /\ DropTomb(p) # PutClock(p, c) /\ PutClock(p, c) # op
  BY <1>1, <1>3
<1>6. /\ s \in {<<op, PutClock(p, c)>>, <<op, DropTomb(p), PutClock(p, c)>>,
                <<DropTomb(p), PutClock(p, c)>>, <<PutClock(p, c)>>}
      /\ s[1] = op \/ (p \in DOMAIN disk /\ disk[p] = File(r.clock, r.data))
      /\ ClockIn(tombs, p) # EmptyClock => DropTomb(p) \in OpsOf(s)
  BY DEF WillApply, op, p
<1>7. CASE s = <<op, PutClock(p, c)>>
  <2>1. s[1] = op /\ Tail(s) = <<PutClock(p, c)>> /\ OpsOf(s) = {op, PutClock(p, c)}
    BY <1>7, ShortPlans, OpsOfShort
  <2>2. ClockIn(ts, p) = EmptyClock /\ p \in DOMAIN f /\ f[p] = File(r.clock, r.data)
    BY <1>2, <1>5, <1>6, <2>1
  <2>. QED
    BY <2>1, <2>2 DEF WillApply, p, op, f, cs, ts
<1>8. CASE s = <<op, DropTomb(p), PutClock(p, c)>>
  <2>1. s[1] = op /\ Tail(s) = <<DropTomb(p), PutClock(p, c)>>
        /\ OpsOf(Tail(s)) = {DropTomb(p), PutClock(p, c)}
    BY <1>8, ShortPlans, OpsOfShort
  <2>2. p \in DOMAIN f /\ f[p] = File(r.clock, r.data)
    BY <1>2, <2>1
  <2>. QED
    BY <2>1, <2>2 DEF WillApply, p, op, f, cs, ts
<1>9. CASE s = <<DropTomb(p), PutClock(p, c)>>
  <2>1. s[1] = DropTomb(p) /\ Tail(s) = <<PutClock(p, c)>>
    BY <1>9, ShortPlans
  <2>2. f = disk /\ ClockIn(ts, p) = EmptyClock
    BY <1>3, <1>4, <2>1, Effects DEF f, ts
  <2>3. p \in DOMAIN f /\ f[p] = File(r.clock, r.data)
    BY <1>5, <1>6, <2>1, <2>2
  <2>. QED
    BY <2>1, <2>2, <2>3 DEF WillApply, p, op, f, cs, ts
<1>10. CASE s = <<PutClock(p, c)>>
  <2>1. s[1] = PutClock(p, c) /\ Tail(s) = <<>> /\ OpsOf(s) = {PutClock(p, c)}
    BY <1>10, ShortPlans, OpsOfShort
  <2>2. f = disk /\ ts = tombs /\ ClockIn(cs, p) = c
    BY <1>3, <1>4, <2>1, Effects DEF f, ts, cs
  <2>3. p \in DOMAIN f /\ f[p] = File(r.clock, r.data) /\ ClockIn(ts, p) = EmptyClock
    BY <1>5, <1>6, <2>1, <2>2
  <2>. QED
    BY <2>1, <2>2, <2>3 DEF p, f, cs, ts
<1>. QED
  BY <1>6, <1>7, <1>8, <1>9, <1>10

\* The operations of a delete, one after the other (delete_file).
LEMMA DeletingStep ==
  ASSUME NEW d \in Device, NEW r, NEW s, NEW c, CanStep(d, r, s), WillDelete(r, s, c, disk, tombs)
  PROVE  LET f == DiskAfter(s[1])
             ts == TombsAfter(s[1])
         IN /\ Tail(s) # <<>> => WillDelete(r, Tail(s), c, f, ts)
            /\ Tail(s) = <<>> => /\ r.path \notin DOMAIN f \/ f[r.path].kind # "file"
                                 /\ ClockIn(ts, r.path) = c
<1>. DEFINE p == r.path
            f == DiskAfter(s[1])
            ts == TombsAfter(s[1])
            gone == p \notin DOMAIN f \/ f[p].kind # "file"
<1>1. /\ RemoveFile(p).do = "remove" /\ RemoveFile(p).path = p
      /\ PutTomb(p, c).do = "put_tomb" /\ PutTomb(p, c).path = p /\ PutTomb(p, c).clock = c
      /\ DropClock(p).do = "drop_clock" /\ DropClock(p).path = p
  BY OpFields
<1>2. OnDisk(RemoveFile(p)) /\ ~OnDisk(PutTomb(p, c)) /\ ~OnDisk(DropClock(p))
  BY <1>1 DEF OnDisk
<1>3. RemoveFile(p) # PutTomb(p, c) /\ RemoveFile(p) # DropClock(p)
  BY <1>1
<1>4. /\ \/ s = <<PutTomb(p, c)>> \/ s = <<PutTomb(p, c), DropClock(p)>>
         \/ s = <<RemoveFile(p), PutTomb(p, c), DropClock(p)>>
         \/ s = <<DropClock(p)>> /\ ClockIn(tombs, p) = c
      /\ s[1] = RemoveFile(p) \/ p \notin DOMAIN disk \/ disk[p].kind # "file"
  BY DEF WillDelete, Deletes
<1>. HIDE DEF p, f, ts
<1>5. CASE s = <<RemoveFile(p), PutTomb(p, c), DropClock(p)>>
  <2>1. s[1] = RemoveFile(p) /\ Tail(s) = <<PutTomb(p, c), DropClock(p)>>
    BY <1>5, ShortPlans
  <2>2. gone
    BY <1>1, <2>1, FileInPlace DEF CanStep, f
  <2>. QED
    BY <2>1, <2>2 DEF WillDelete, Deletes, p, f, ts
<1>6. ASSUME s[1] # RemoveFile(p), ~OnDisk(s[1])
      PROVE  gone
  <2>1. f = disk
    BY <1>6, Effects DEF f
  <2>. QED
    BY <1>4, <1>6, <2>1
<1>7. CASE s = <<PutTomb(p, c), DropClock(p)>>
  <2>1. s[1] = PutTomb(p, c) /\ Tail(s) = <<DropClock(p)>>
    BY <1>7, ShortPlans
  <2>2. gone /\ ClockIn(ts, p) = c
    BY <1>1, <1>2, <1>3, <1>6, <2>1, Effects DEF ts
  <2>. QED
    BY <2>1, <2>2 DEF WillDelete, p, f, ts
<1>8. CASE s = <<PutTomb(p, c)>>
  <2>1. s[1] = PutTomb(p, c) /\ Tail(s) = <<>>
    BY <1>8, ShortPlans
  <2>2. gone /\ ClockIn(ts, p) = c
    BY <1>1, <1>2, <1>3, <1>6, <2>1, Effects DEF ts
  <2>. QED
    BY <2>1, <2>2 DEF p, f, ts
<1>9. CASE s = <<DropClock(p)>> /\ ClockIn(tombs, p) = c
  <2>1. s[1] = DropClock(p) /\ Tail(s) = <<>>
    BY <1>9, ShortPlans
  <2>2. gone /\ ClockIn(ts, p) = c
    BY <1>1, <1>2, <1>3, <1>6, <1>9, <2>1, Effects DEF ts
  <2>. QED
    BY <2>1, <2>2 DEF p, f, ts
<1>. QED
  BY <1>4, <1>5, <1>7, <1>8, <1>9

LEMMA NoneIsEmpty ==
  /\ \A a : <<a>> # <<>>
  /\ \A a, b : <<a, b>> # <<>>
  /\ \A a, b, c : <<a, b, c>> # <<>>
<1>1. \A a : Len(<<a>>) # Len(<<>>)
  OBVIOUS
<1>2. \A a, b : Len(<<a, b>>) # Len(<<>>)
  OBVIOUS
<1>3. \A a, b, c : Len(<<a, b, c>>) # Len(<<>>)
  OBVIOUS
<1>. QED
  BY <1>1, <1>2, <1>3

\* The operations of a rename, one after the other (rename_file).
LEMMA RenamingStep ==
  ASSUME NEW d \in Device, NEW r, NEW s, NEW c, CanStep(d, r, s), r.op = "rename",
         WillRename(r, s, c, disk, clocks, tombs)
  PROVE  LET f == DiskAfter(s[1])
             cs == ClocksAfter(s[1])
             ts == TombsAfter(s[1])
         IN /\ Tail(s) # <<>> => WillRename(r, Tail(s), c, f, cs, ts)
            /\ Tail(s) = <<>> => /\ r.to \in DOMAIN f
                                 /\ ClockIn(cs, r.to) = c /\ ClockIn(ts, r.to) = EmptyClock
                                 /\ r.path # r.to => ClockIn(cs, r.path) = EmptyClock
<1>. DEFINE p == r.path
            q == r.to
            f == DiskAfter(s[1])
            cs == ClocksAfter(s[1])
            ts == TombsAfter(s[1])
            mv == Move(p, q)
            wr == WriteFile(q, EmptyClock, NoData)
            dc == DropClock(p)
            dp == DropTomb(p)
            dq == DropTomb(q)
            pq == PutClock(q, c)
<1>1. /\ mv.do = "move" /\ mv.path = p /\ mv.to = q
      /\ wr.do = "write" /\ wr.path = q
      /\ dc.do = "drop_clock" /\ dc.path = p
      /\ dp.do = "drop_tomb" /\ dp.path = p
      /\ dq.do = "drop_tomb" /\ dq.path = q
      /\ pq.do = "put_clock" /\ pq.path = q /\ pq.clock = c
  BY OpFields
<1>2. /\ OnDisk(mv) /\ OnDisk(wr)
      /\ ~OnDisk(dc) /\ ~OnDisk(dp) /\ ~OnDisk(dq) /\ ~OnDisk(pq)
  BY <1>1 DEF OnDisk
<1>3. /\ dq \notin {mv, wr, dc, pq} /\ dc \notin {mv, wr, dp, dq, pq}
  BY <1>1
<1>4. /\ s \in {<<mv, dc, dq, pq>>, <<wr, dp, dq, pq>>, <<dc, dq, pq>>, <<dp, dq, pq>>,
                <<dq, pq>>, <<pq>>}
      /\ OnDisk(s[1]) \/ q \in DOMAIN disk
      /\ ClockIn(tombs, q) # EmptyClock => dq \in OpsOf(s)
      /\ p # q /\ ClockIn(clocks, p) # EmptyClock => dc \in OpsOf(s)
  BY DEF WillRename
<1>. HIDE DEF p, q, f, cs, ts, mv, wr, dc, dp, dq, pq
<1>5. ASSUME NEW x, x \in {mv, wr}, s[1] = x
      PROVE  q \in DOMAIN f /\ cs = clocks /\ ts = tombs
  BY <1>1, <1>2, <1>5, FileInPlace, Effects DEF CanStep, f, cs, ts
<1>6. ASSUME ~OnDisk(s[1])
      PROVE  q \in DOMAIN f /\ f = disk
  BY <1>4, <1>6, Effects DEF f
<1>. DEFINE goal == /\ Tail(s) # <<>> => WillRename(r, Tail(s), c, f, cs, ts)
                    /\ Tail(s) = <<>> => /\ q \in DOMAIN f
                                         /\ ClockIn(cs, q) = c /\ ClockIn(ts, q) = EmptyClock
                                         /\ p # q => ClockIn(cs, p) = EmptyClock
<1>. SUFFICES goal
  BY DEF goal, p, q, f, cs, ts
<1>7. ASSUME Tail(s) \in {<<dc, dq, pq>>, <<dp, dq, pq>>, <<dq, pq>>, <<pq>>},
             q \in DOMAIN f,
             ClockIn(ts, q) # EmptyClock => dq \in OpsOf(Tail(s)),
             p # q /\ ClockIn(cs, p) # EmptyClock => dc \in OpsOf(Tail(s))
      PROVE  goal
  <2>1. WillRename(r, Tail(s), c, f, cs, ts)
    BY <1>7 DEF WillRename, p, q, dc, dp, dq, pq
  <2>2. Tail(s) # <<>>
    BY <1>7, NoneIsEmpty
  <2>. QED
    BY <2>1, <2>2
<1>. HIDE DEF goal
<1>8. CASE s = <<mv, dc, dq, pq>>
  <2>1. s[1] = mv /\ Tail(s) = <<dc, dq, pq>> /\ OpsOf(Tail(s)) = {dc, dq, pq}
    BY <1>8, ShortPlans, OpsOfShort
  <2>2. q \in DOMAIN f
    BY <1>5, <2>1
  <2>. QED
    BY <1>7, <2>1, <2>2
<1>9. CASE s = <<wr, dp, dq, pq>>
  <2>1. /\ s[1] = wr /\ Tail(s) = <<dp, dq, pq>> /\ OpsOf(Tail(s)) = {dp, dq, pq}
        /\ OpsOf(s) = {wr, dp, dq, pq}
    BY <1>9, ShortPlans, OpsOfShort
  <2>2. q \in DOMAIN f /\ cs = clocks
    BY <1>5, <2>1
  <2>3. ~(p # q /\ ClockIn(cs, p) # EmptyClock)
    BY <1>3, <1>4, <2>1, <2>2
  <2>. QED
    BY <1>7, <2>1, <2>2, <2>3
<1>10. CASE s = <<dc, dq, pq>>
  <2>1. s[1] = dc /\ Tail(s) = <<dq, pq>> /\ OpsOf(Tail(s)) = {dq, pq}
    BY <1>10, ShortPlans, OpsOfShort
  <2>2. q \in DOMAIN f /\ ClockIn(cs, p) = EmptyClock
    BY <1>1, <1>2, <1>6, <2>1, Effects DEF cs
  <2>. QED
    BY <1>7, <2>1, <2>2
<1>11. CASE s = <<dp, dq, pq>>
  <2>1. /\ s[1] = dp /\ Tail(s) = <<dq, pq>> /\ OpsOf(Tail(s)) = {dq, pq}
        /\ OpsOf(s) = {dp, dq, pq}
    BY <1>11, ShortPlans, OpsOfShort
  <2>2. q \in DOMAIN f /\ cs = clocks
    BY <1>1, <1>2, <1>6, <2>1, Effects DEF cs
  <2>3. ~(p # q /\ ClockIn(cs, p) # EmptyClock)
    BY <1>3, <1>4, <2>1, <2>2
  <2>. QED
    BY <1>7, <2>1, <2>2, <2>3
<1>12. CASE s = <<dq, pq>>
  <2>1. s[1] = dq /\ Tail(s) = <<pq>> /\ OpsOf(s) = {dq, pq} /\ OpsOf(<<pq>>) = {pq}
    BY <1>12, ShortPlans, OpsOfShort
  <2>2. q \in DOMAIN f /\ cs = clocks /\ ClockIn(ts, q) = EmptyClock
    BY <1>1, <1>2, <1>6, <2>1, Effects DEF cs, ts
  <2>3. ~(p # q /\ ClockIn(cs, p) # EmptyClock)
    BY <1>3, <1>4, <2>1, <2>2
  <2>. QED
    BY <1>7, <2>1, <2>2, <2>3
<1>13. CASE s = <<pq>>
  <2>1. s[1] = pq /\ Tail(s) = <<>> /\ OpsOf(s) = {pq}
    BY <1>13, ShortPlans, OpsOfShort
  <2>2. q \in DOMAIN f /\ ts = tombs /\ ClockIn(cs, q) = c
    BY <1>1, <1>2, <1>6, <2>1, Effects DEF cs, ts
  <2>3. ~(p # q /\ ClockIn(clocks, p) # EmptyClock) /\ ClockIn(ts, q) = EmptyClock
    BY <1>3, <1>4, <2>1, <2>2
  <2>4. p # q => ClockIn(cs, p) = ClockIn(clocks, p)
    BY <1>1, <1>2, <2>1, OthersUntouched DEF cs, LiveClock
  <2>. QED
    BY <2>1, <2>2, <2>3, <2>4 DEF goal
<1>. QED
  BY <1>4, <1>8, <1>9, <1>10, <1>11, <1>12, <1>13

\* What a plan has to make true, it does: the answer of its handler is true
\* after its last operation.
TrueIn(r, a, f, cs, ts) ==
  /\ a.result = "Applied" => /\ r.path \in DOMAIN f /\ f[r.path] = File(r.clock, r.data)
                             /\ ClockIn(cs, r.path) = a.clock /\ ClockIn(ts, r.path) = EmptyClock
  /\ a.result = "Deleted" => /\ r.path \notin DOMAIN f \/ f[r.path].kind # "file"
                             /\ ClockIn(ts, r.path) = a.clock
  /\ a.result = "Renamed" => /\ r.to \in DOMAIN f
                             /\ ClockIn(cs, r.to) = a.clock /\ ClockIn(ts, r.to) = EmptyClock
                             /\ r.path # r.to => ClockIn(cs, r.path) = EmptyClock

LEMMA FulfilsStep ==
  ASSUME NEW d \in Device, NEW r, NEW a, NEW s, CanStep(d, r, s),
         Fulfils(d, r, a, s, disk, clocks, tombs)
  PROVE  LET f == DiskAfter(s[1])
             cs == ClocksAfter(s[1])
             ts == TombsAfter(s[1])
         IN /\ Tail(s) # <<>> => Fulfils(d, r, a, Tail(s), f, cs, ts)
            /\ Tail(s) = <<>> => TrueIn(r, a, f, cs, ts)
<1>1. CASE a.result = "Applied"
  BY <1>1, ApplyingStep DEF Fulfils, TrueIn
<1>2. CASE a.result = "Deleted"
  BY <1>2, DeletingStep DEF Fulfils, TrueIn
<1>3. CASE a.result = "Renamed"
  BY <1>3, RenamingStep DEF Fulfils, TrueIn
<1>. QED
  BY <1>1, <1>2, <1>3 DEF Fulfils, TrueIn

\* The plan a handler decides on leaves alone what the others have staged.
LEMMA DecisionsLeaveStaged ==
  ASSUME TypeInv, Apart, StagedUnnamed, now # 0, lock = Unlocked,
         NEW d \in Device, NEW r \in Request, r.op \in {"write", "stream", "delete", "rename"}
  PROVE  LeavesStaged(d, Decide(d, r).ops)
<1>. DEFINE s == Decide(d, r).ops
            p == r.path
            copy == ConflictPath(p, d)
            own == TempPath(p, d)
<1>. SUFFICES ASSUME NEW q \in Request, q.op = "stream", NEW e \in Device \ {d},
                     NEW i \in DOMAIN s, OnDisk(s[i])
              PROVE  TempPath(q.path, e) \notin Touched(s[i])
  BY DEF LeavesStaged
<1>. DEFINE temp == TempPath(q.path, e)
<1>. SUFFICES temp \notin Touched(s[i])
  OBVIOUS
<1>1. p \in Path \ {Root} /\ q.path \in Path \ {Root} /\ now \in Nat \ {0}
  BY RequestFields DEF Mutation, TypeInv, Shape
<1>2. temp \notin {p, copy, own} /\ (r.op = "rename" => temp # r.to)
  BY <1>1, StagedApart DEF StagedUnnamed
<1>3. \/ r.op \in {"write", "stream"} /\ \E x \in {p, copy} : \E c :
           s \in {<<Store(d, r, x), DropTomb(p), PutClock(x, c)>>, <<Store(d, r, x), PutClock(x, c)>>}
      \/ r.op = "delete" /\ \E c :
           s \in {<<PutTomb(p, c)>>, <<RemoveFile(p), PutTomb(p, c), DropClock(p)>>}
      \/ r.op = "rename" /\ \E c :
           s \in {<<WriteFile(r.to, EmptyClock, NoData), DropTomb(p), DropTomb(r.to),
                    PutClock(r.to, c)>>,
                  <<Move(p, r.to), DropClock(p), DropTomb(r.to), PutClock(r.to, c)>>}
      \/ s = <<>>
  BY Decisions, ZenonT(60)
<1>. HIDE DEF s, p, copy, own, temp
<1>4. ASSUME r.op \in {"write", "stream"}, NEW x \in {p, copy}, NEW c,
             s \in {<<Store(d, r, x), DropTomb(p), PutClock(x, c)>>, <<Store(d, r, x), PutClock(x, c)>>}
      PROVE  temp \notin Touched(s[i])
  <2>1. s[i] \in {Store(d, r, x), DropTomb(p), PutClock(x, c)}
    BY <1>4
  <2>2. s[i] = Store(d, r, x)
    BY <2>1 DEF OnDisk, DropTomb, PutClock
  <2>3. s[i] \in {WriteFile(x, r.clock, r.data), Move(own, x)}
    BY <2>2 DEF Store, own, p
  <2>. QED
    BY <1>2, <2>3 DEF Touched, WriteFile, Move
<1>5. ASSUME r.op = "delete", NEW c,
             s \in {<<PutTomb(p, c)>>, <<RemoveFile(p), PutTomb(p, c), DropClock(p)>>}
      PROVE  temp \notin Touched(s[i])
  <2>1. s[i] \in {RemoveFile(p), PutTomb(p, c), DropClock(p)}
    BY <1>5
  <2>. QED
    BY <1>2, <2>1 DEF Touched, RemoveFile, PutTomb, DropClock
<1>6. ASSUME r.op = "rename", NEW c,
             s \in {<<WriteFile(r.to, EmptyClock, NoData), DropTomb(p), DropTomb(r.to),
                      PutClock(r.to, c)>>,
                    <<Move(p, r.to), DropClock(p), DropTomb(r.to), PutClock(r.to, c)>>}
      PROVE  temp \notin Touched(s[i])
  <2>1. s[i] \in {WriteFile(r.to, EmptyClock, NoData), Move(p, r.to), DropTomb(p), DropTomb(r.to),
                  DropClock(p), PutClock(r.to, c)}
    BY <1>6
  <2>. QED
    BY <1>2, <1>6, <2>1 DEF Touched, WriteFile, Move, DropTomb, DropClock, PutClock
<1>7. s # <<>>
  OBVIOUS
<1>. QED
  BY <1>3, <1>4, <1>5, <1>6, <1>7

\* What a handler decides to do makes the answer it has decided on true.
LEMMA DecisionsFulfil ==
  ASSUME TypeInv, Apart, GoneInv, lock = Unlocked, NEW d \in Device, NEW r \in Request,
         r.op \in {"write", "stream", "delete", "rename"}, IsOriginal(r.path),
         Decide(d, r).ops # <<>>
  PROVE  Fulfils(d, r, Decide(d, r), Decide(d, r).ops, disk, clocks, tombs)
<1>. DEFINE o == Decide(d, r)
            s == Decide(d, r).ops
            p == r.path
            copy == ConflictPath(p, d)
            live == Merge(LiveClock(p), r.clock)
            tomb == Merge(TombClock(p), r.clock)
<1>1. p \in DOMAIN tombs => p \notin DOMAIN disk \/ disk[p].kind # "file"
  BY NoneBuried DEF RegularFiles, IsFile, Exists
<1>2. p \in DOMAIN tombs => ClockIn(clocks, p) = EmptyClock
  BY DEF Apart, BothOnlyWhileDeleting, WillPart, ClockIn
<1>3. p \notin DOMAIN tombs => ClockIn(tombs, p) = EmptyClock
  BY DEF ClockIn
<1>4. \/ /\ r.op \in {"write", "stream"} /\ p \in DOMAIN tombs
         /\ s = <<Store(d, r, p), DropTomb(p), PutClock(p, tomb)>>
         /\ o.result \in {"Applied", "Conflict"} /\ o.clock = tomb
      \/ /\ r.op \in {"write", "stream"} /\ p \notin DOMAIN tombs
         /\ s = <<Store(d, r, p), PutClock(p, live)>>
         /\ o.result = "Applied" /\ o.clock = live
      \/ o.result = "Conflict"
      \/ /\ r.op = "delete" /\ p \in DOMAIN tombs
         /\ s = <<PutTomb(p, tomb)>>
         /\ o.result = "Deleted" /\ o.clock = tomb
      \/ /\ r.op = "delete" /\ p \notin DOMAIN tombs
         /\ s = <<RemoveFile(p), PutTomb(p, live), DropClock(p)>>
         /\ o.result = "Deleted" /\ o.clock = live
      \/ /\ r.op = "rename" /\ p \in DOMAIN tombs
         /\ s = <<WriteFile(r.to, EmptyClock, NoData), DropTomb(p), DropTomb(r.to),
                  PutClock(r.to, tomb)>>
         /\ o.result \in {"Renamed", "Conflict"} /\ o.clock = tomb
      \/ /\ r.op = "rename" /\ p \notin DOMAIN tombs
         /\ s = <<Move(p, r.to), DropClock(p), DropTomb(r.to), PutClock(r.to, live)>>
         /\ o.result = "Renamed" /\ o.clock = live
  BY Decisions, Zenon
<1>. HIDE DEF o, s, live, tomb
<1>5. CASE /\ r.op \in {"write", "stream"} /\ p \in DOMAIN tombs
           /\ s = <<Store(d, r, p), DropTomb(p), PutClock(p, tomb)>>
           /\ o.result \in {"Applied", "Conflict"} /\ o.clock = tomb
  <2>1. OpsOf(s) = {Store(d, r, p), DropTomb(p), PutClock(p, tomb)} /\ s[1] = Store(d, r, p)
    BY <1>5, OpsOfShort, ShortPlans
  <2>2. WillApply(d, r, s, tomb, disk, tombs)
    BY <1>5, <2>1 DEF WillApply
  <2>. QED
    BY <1>5, <2>2 DEF Fulfils, o, s
<1>6. CASE /\ r.op \in {"write", "stream"} /\ p \notin DOMAIN tombs
           /\ s = <<Store(d, r, p), PutClock(p, live)>>
           /\ o.result = "Applied" /\ o.clock = live
  <2>1. s[1] = Store(d, r, p)
    BY <1>6, ShortPlans
  <2>2. WillApply(d, r, s, live, disk, tombs)
    BY <1>3, <1>6, <2>1 DEF WillApply
  <2>. QED
    BY <1>6, <2>2 DEF Fulfils, o, s
<1>7. CASE o.result = "Conflict"
  BY <1>7 DEF Fulfils, o, s
<1>8. CASE /\ r.op = "delete" /\ p \in DOMAIN tombs
           /\ s = <<PutTomb(p, tomb)>>
           /\ o.result = "Deleted" /\ o.clock = tomb
  <2>1. WillDelete(r, s, tomb, disk, tombs)
    BY <1>1, <1>8 DEF WillDelete, Deletes
  <2>. QED
    BY <1>8, <2>1 DEF Fulfils, o, s
<1>9. CASE /\ r.op = "delete" /\ p \notin DOMAIN tombs
           /\ s = <<RemoveFile(p), PutTomb(p, live), DropClock(p)>>
           /\ o.result = "Deleted" /\ o.clock = live
  <2>1. s[1] = RemoveFile(p)
    BY <1>9, ShortPlans
  <2>2. WillDelete(r, s, live, disk, tombs)
    BY <1>9, <2>1 DEF WillDelete, Deletes
  <2>. QED
    BY <1>9, <2>2 DEF Fulfils, o, s
<1>10. CASE /\ r.op = "rename" /\ p \in DOMAIN tombs
            /\ s = <<WriteFile(r.to, EmptyClock, NoData), DropTomb(p), DropTomb(r.to),
                     PutClock(r.to, tomb)>>
            /\ o.result \in {"Renamed", "Conflict"} /\ o.clock = tomb
  <2>1. /\ OpsOf(s) = {WriteFile(r.to, EmptyClock, NoData), DropTomb(p), DropTomb(r.to),
                       PutClock(r.to, tomb)}
        /\ s[1] = WriteFile(r.to, EmptyClock, NoData)
    BY <1>10, OpsOfShort, ShortPlans
  <2>2. OnDisk(s[1])
    BY <2>1 DEF OnDisk, WriteFile
  <2>3. WillRename(r, s, tomb, disk, clocks, tombs)
    BY <1>2, <1>10, <2>1, <2>2 DEF WillRename
  <2>. QED
    BY <1>10, <2>3 DEF Fulfils, o, s
<1>11. CASE /\ r.op = "rename" /\ p \notin DOMAIN tombs
            /\ s = <<Move(p, r.to), DropClock(p), DropTomb(r.to), PutClock(r.to, live)>>
            /\ o.result = "Renamed" /\ o.clock = live
  <2>1. /\ OpsOf(s) = {Move(p, r.to), DropClock(p), DropTomb(r.to), PutClock(r.to, live)}
        /\ s[1] = Move(p, r.to)
    BY <1>11, OpsOfShort, ShortPlans
  <2>2. OnDisk(s[1])
    BY <2>1 DEF OnDisk, Move
  <2>3. WillRename(r, s, live, disk, clocks, tombs)
    BY <1>11, <2>1, <2>2 DEF WillRename
  <2>. QED
    BY <1>11, <2>3 DEF Fulfils, o, s
<1>. QED
  BY <1>4, <1>5, <1>6, <1>7, <1>8, <1>9, <1>10, <1>11

\* What is true of one handler, and what its answer depends on.
StagedIn(d, r, f) ==
  LET p == TempPath(r.path, d) IN p \in DOMAIN f /\ f[p] = File(r.clock, r.data)

AnswersFor(d) ==
  /\ HasStaged(d) => StagedIn(d, req[d], disk)
  /\ LeavesStaged(d, plan[d])
  /\ pc[d] = "locked" /\ IsOriginal(req[d].path) =>
       Fulfils(d, req[d], reply[d], plan[d], disk, clocks, tombs)

LEMMA AnswerInvIs == AnswerInv <=> now # 0 /\ \A d \in Device : AnswersFor(d)
  BY DEF AnswerInv, AnswersFor, StagedIn, Exists

LEMMA AnswerInvIsNext == now' # 0 /\ (\A d \in Device : AnswersFor(d)') => AnswerInv'
  BY DEF AnswerInv, AnswersFor, StagedIn, Exists

\* The directory g has what f has at p, and no other file there.
Keeps(f, g, p) ==
  IF p \in DOMAIN f THEN p \in DOMAIN g /\ g[p] = f[p]
  ELSE p \notin DOMAIN g \/ g[p].kind # "file"

Named(d, r) ==
  {r.path, TempPath(r.path, d)} \cup (IF r.op = "rename" THEN {r.to} ELSE {})

LEMMA FulfilsElsewhere ==
  ASSUME NEW d, NEW r, NEW a, NEW s, NEW f, NEW g, NEW cs, NEW ts,
         Fulfils(d, r, a, s, f, cs, ts), \A p \in Named(d, r) : Keeps(f, g, p)
  PROVE  Fulfils(d, r, a, s, g, cs, ts)
<1>1. Keeps(f, g, r.path) /\ (r.op = "rename" => Keeps(f, g, r.to))
  BY DEF Named
<1>2. a.result = "Applied" => WillApply(d, r, s, a.clock, g, ts)
  BY <1>1 DEF Fulfils, WillApply, Keeps
<1>3. a.result = "Deleted" => WillDelete(r, s, a.clock, g, ts)
  BY <1>1 DEF Fulfils, WillDelete, Keeps
<1>4. a.result = "Renamed" => WillRename(r, s, a.clock, g, cs, ts)
  BY <1>1 DEF Fulfils, WillRename, Keeps
<1>. QED
  BY <1>2, <1>3, <1>4 DEF Fulfils

\* A handler to which nothing happens.
LEMMA AnswersElsewhere ==
  ASSUME NEW d \in Device, AnswersFor(d), pc'[d] = pc[d], req'[d] = req[d], plan'[d] = plan[d],
         reply'[d] = reply[d], pc[d] = "locked" => UNCHANGED <<clocks, tombs>>,
         pc[d] \in {"waiting", "locked"} => \A p \in Named(d, req[d]) : Keeps(disk, disk', p)
  PROVE  AnswersFor(d)'
<1>1. LeavesStaged(d, plan'[d])
  BY DEF AnswersFor
<1>2. ASSUME HasStaged(d)'
      PROVE  StagedIn(d, req[d], disk')
  <2>1. HasStaged(d) /\ pc[d] \in {"waiting", "locked"}
    BY <1>2 DEF HasStaged
  <2>2. StagedIn(d, req[d], disk) /\ Keeps(disk, disk', TempPath(req[d].path, d))
    BY <2>1 DEF AnswersFor, Named
  <2>. QED
    BY <2>2 DEF StagedIn, Keeps
<1>3. ASSUME pc[d] = "locked", IsOriginal(req[d].path)
      PROVE  Fulfils(d, req[d], reply[d], plan[d], disk', clocks', tombs')
  <2>1. Fulfils(d, req[d], reply[d], plan[d], disk, clocks', tombs')
    BY <1>3 DEF AnswersFor
  <2>. QED
    BY <1>3, <2>1, FulfilsElsewhere
<1>. QED
  BY <1>1, <1>2, <1>3 DEF AnswersFor

\* A handler that has nothing staged and no lock.
LEMMA NoAnswerYet ==
  ASSUME NEW d \in Device, pc'[d] # "locked", pc'[d] = "waiting" => req'[d].op # "stream",
         plan'[d] = <<>> \/ (LeavesStaged(d, plan[d]) /\ plan'[d] = plan[d])
  PROVE  AnswersFor(d)'
<1>1. LeavesStaged(d, plan'[d])
  BY DEF LeavesStaged
<1>. QED
  BY <1>1 DEF AnswersFor, HasStaged

\* A handler touches no more than the copy it stages.
LEMMA OthersKeep ==
  ASSUME TypeInv, StagedUnnamed, now # 0,
         NEW d \in Device, req[d] \in Request, req[d].op = "stream", NEW e \in Device \ {d},
         pc[e] \in {"waiting", "locked"},
         \A p : p # TempPath(req[d].path, d) => Keeps(disk, disk', p)
  PROVE  \A p \in Named(e, req[e]) : Keeps(disk, disk', p)
<1>. DEFINE temp == TempPath(req[d].path, d)
<1>1. /\ req[e] \in Request /\ req[e].path \in Path \ {Root} /\ req[d].path \in Path \ {Root}
      /\ now \in Nat \ {0}
  BY RequestFields DEF TypeInv, Shape, Mutation
<1>2. TempPath(req[e].path, e) # temp
  BY <1>1, StagedApart
<1>3. req[e].path # temp /\ (req[e].op = "rename" => req[e].to # temp)
  BY <1>1 DEF StagedUnnamed
<1>. QED
  BY <1>2, <1>3 DEF Named

LEMMA KeepsSame == \A f, p : Keeps(f, f, p)
  BY DEF Keeps

LEMMA WithoutTempKeeps ==
  ASSUME TypeInv, StagedUnnamed, now # 0,
         NEW d \in Device, req[d] \in Request, disk' = WithoutTemp(disk, d), NEW e \in Device \ {d},
         pc[e] \in {"waiting", "locked"}
  PROVE  \A p \in Named(e, req[e]) : Keeps(disk, disk', p)
<1>1. CASE req[d].op = "stream"
  <2>1. disk' = Without(disk, {TempPath(req[d].path, d)})
    BY <1>1 DEF WithoutTemp
  <2>2. \A p : p # TempPath(req[d].path, d) => Keeps(disk, disk', p)
    BY <2>1 DEF Keeps, Without
  <2>. QED
    BY <1>1, <2>2, OthersKeep
<1>2. CASE req[d].op # "stream"
  BY <1>2, KeepsSame DEF WithoutTemp
<1>. QED
  BY <1>1, <1>2

\* Look, Submit and Return change no file, and a parent is recreated where
\* there was no file; Stage writes the handler's own copy.
LEMMA BeforeLockAnswers ==
  ASSUME TypeInv, AnswerInv, StagedUnnamed,
         NEW d \in Device, EnsureParent(d) \/ Stage(d) \/ Look(d)
  PROVE  AnswerInv'
<1>1. /\ now # 0 /\ now' = now /\ \A e \in Device : AnswersFor(e)
      /\ DOMAIN pc = Device /\ DOMAIN reply = Device
      /\ UNCHANGED <<plan, req, clocks, tombs>> /\ LeavesStaged(d, plan[d])
  BY AnswerInvIs DEF EnsureParent, Stage, Look, StatFile, StatClock, ReadFile, ListDir, store,
     TypeInv, TypeOK, Shape, AnswersFor
<1>2. \A e \in Device \ {d} : pc'[e] = pc[e] /\ reply'[e] = reply[e]
  BY <1>1 DEF EnsureParent, Stage, Look, StatFile, StatClock, ReadFile, ListDir, Finish
<1>3. CASE EnsureParent(d)
  <2>1. \A p : Keeps(disk, disk', p)
    <3>1. CASE disk' = disk
      BY <3>1, KeepsSame
    <3>2. CASE disk' = [p \in DOMAIN disk \cup Ancestors(req[d].path) |->
                          IF Exists(p) THEN disk[p] ELSE Dir]
      BY <3>2 DEF Keeps, Exists, Dir
    <3>. QED
      BY <1>3, <3>1, <3>2 DEF EnsureParent
  <2>2. \A e \in Device \ {d} : AnswersFor(e)'
    BY <1>1, <1>2, <2>1, AnswersElsewhere
  <2>3. pc'[d] # "locked" /\ (pc'[d] = "waiting" => req'[d].op # "stream")
    BY <1>1, <1>3 DEF EnsureParent, Finish
  <2>4. AnswersFor(d)'
    BY <1>1, <2>3, NoAnswerYet
  <2>. QED
    BY <1>1, <2>2, <2>4, AnswerInvIsNext
<1>4. CASE Stage(d)
  <2>. DEFINE temp == TempPath(req[d].path, d)
              file == File(req[d].clock, req[d].data)
  <2>1. req[d] \in Request /\ req[d].op = "stream" /\ pc[d] = "staging"
    BY <1>4 DEF Stage, TypeInv, Shape
  <2>2. \/ disk' = disk /\ pc'[d] = "replied"
        \/ disk' = With(disk, temp, file) /\ pc'[d] = "waiting"
    BY <1>1, <1>4 DEF Stage, Finish
  <2>. HIDE DEF temp, file
  <2>3. \A p : p # temp => Keeps(disk, disk', p)
    BY <2>2 DEF Keeps, With
  <2>4. \A e \in Device \ {d} : pc[e] \in {"waiting", "locked"} =>
          \A p \in Named(e, req[e]) : Keeps(disk, disk', p)
    BY <1>1, <2>1, <2>3, OthersKeep DEF temp
  <2>5. \A e \in Device \ {d} : AnswersFor(e)'
    BY <1>1, <1>2, <2>4, AnswersElsewhere
  <2>6. AnswersFor(d)'
    <3>1. CASE pc'[d] = "replied"
      BY <1>1, <3>1, NoAnswerYet
    <3>2. CASE disk' = With(disk, temp, file) /\ pc'[d] = "waiting"
      <4>1. temp \in DOMAIN disk' /\ disk'[temp] = file
        BY <3>2 DEF With
      <4>2. StagedIn(d, req'[d], disk')
        BY <1>1, <4>1 DEF StagedIn, temp, file
      <4>. QED
        BY <1>1, <3>2, <4>2 DEF AnswersFor
    <3>. QED
      BY <2>2, <3>1, <3>2
  <2>. QED
    BY <1>1, <2>5, <2>6, AnswerInvIsNext
<1>5. CASE Look(d)
  <2>1. disk' = disk /\ pc'[d] \in {"found", "replied"}
    BY <1>1, <1>5 DEF Look, StatFile, StatClock, ReadFile, ListDir, Finish
  <2>2. \A e \in Device \ {d} : AnswersFor(e)'
    BY <1>1, <1>2, <2>1, KeepsSame, AnswersElsewhere
  <2>3. AnswersFor(d)'
    BY <1>1, <2>1, NoAnswerYet
  <2>. QED
    BY <1>1, <2>2, <2>3, AnswerInvIsNext
<1>. QED
  BY <1>3, <1>4, <1>5

\* The handler that gets the lock keeps what it has staged, and its plan makes
\* its answer true.
LEMMA AcquireAnswers ==
  ASSUME TypeInv, Apart, GoneInv, AnswerInv, NoMkdir, StagedUnnamed, NEW d \in Device, Acquire(d)
  PROVE  AnswerInv'
<1>. DEFINE r == req[d]
            o == Decide(d, r)
<1>1. /\ r \in Request /\ r.op \in {"write", "stream", "delete", "rename"}
      /\ lock = Unlocked /\ UNCHANGED <<clocks, tombs, req, now>> /\ pc[d] = "waiting"
      /\ DOMAIN plan = Device /\ DOMAIN pc = Device /\ DOMAIN reply = Device
      /\ now # 0 /\ \A e \in Device : AnswersFor(e)
  BY AnswerInvIs DEF Acquire, LockFree, TypeInv, TypeOK, Shape, NoMkdir, Mutation, store
<1>2. \/ /\ disk' = WithoutTemp(disk, d) /\ plan' = plan /\ pc' = [pc EXCEPT ![d] = "replied"]
         /\ reply' = [reply EXCEPT ![d] = Reply(o.result, o.clock)]
      \/ /\ disk' = disk /\ o.ops # <<>> /\ plan' = [plan EXCEPT ![d] = o.ops]
         /\ pc' = [pc EXCEPT ![d] = "locked"]
         /\ reply' = [reply EXCEPT ![d] = Reply(o.result, o.clock)]
  BY Zenon DEF Acquire, Finish
<1>. HIDE DEF r, o
<1>3. \A e \in Device \ {d} : /\ pc'[e] = pc[e] /\ reply'[e] = reply[e] /\ plan'[e] = plan[e]
                              /\ req'[e] = req[e]
  BY <1>1, <1>2
<1>4. CASE /\ disk' = WithoutTemp(disk, d) /\ plan' = plan
           /\ pc' = [pc EXCEPT ![d] = "replied"]
  <2>1. \A e \in Device \ {d} : AnswersFor(e)'
    BY <1>1, <1>3, <1>4, WithoutTempKeeps, AnswersElsewhere DEF r
  <2>2. AnswersFor(d)'
    BY <1>1, <1>4, NoAnswerYet DEF AnswersFor
  <2>. QED
    BY <1>1, <2>1, <2>2, AnswerInvIsNext
<1>5. CASE /\ disk' = disk /\ o.ops # <<>> /\ plan' = [plan EXCEPT ![d] = o.ops]
           /\ pc' = [pc EXCEPT ![d] = "locked"]
           /\ reply' = [reply EXCEPT ![d] = Reply(o.result, o.clock)]
  <2>1. \A e \in Device \ {d} : AnswersFor(e)'
    BY <1>1, <1>3, <1>5, KeepsSame, AnswersElsewhere
  <2>2. LeavesStaged(d, o.ops)
    BY <1>1, DecisionsLeaveStaged DEF o
  <2>3. IsOriginal(r.path) => Fulfils(d, r, reply'[d], o.ops, disk, clocks, tombs)
    <3>1. IsOriginal(r.path) => Fulfils(d, r, o, o.ops, disk, clocks, tombs)
      BY <1>1, <1>5, DecisionsFulfil DEF o
    <3>2. reply'[d].result = o.result /\ reply'[d].clock = o.clock
      BY <1>1, <1>5 DEF Reply, Answer
    <3>. QED
      BY <3>1, <3>2 DEF Fulfils
  <2>4. r.op = "stream" => StagedIn(d, r, disk)
    BY <1>1 DEF AnswersFor, HasStaged, r
  <2>5. plan'[d] = o.ops /\ req'[d] = r
    BY <1>1, <1>5 DEF r
  <2>6. AnswersFor(d)'
    BY <1>1, <1>5, <2>2, <2>3, <2>4, <2>5 DEF AnswersFor, HasStaged
  <2>. QED
    BY <1>1, <2>1, <2>6, AnswerInvIsNext
<1>. QED
  BY <1>2, <1>4, <1>5

\* One operation of a plan touches no more than it says.
LEMMA TouchesOnly ==
  ASSUME Tree, OnlyParents, NEW op, Possible(op), op.do # "mkdir",
         op.do = "move" => op.path \in Path \ {Root} /\ op.to \in Path \ {Root} /\ ~IsParent(op.path),
         NEW p, OnDisk(op) => p \notin Touched(op)
  PROVE  Keeps(disk, DiskAfter(op), p)
<1>1. CASE ~OnDisk(op)
  BY <1>1, Effects, KeepsSame
<1>2. CASE op.do = "write"
  <2>1. DiskAfter(op) = With(disk, op.path, File(op.edit, op.data)) /\ p # op.path
    BY <1>2, Zenon DEF DiskAfter, Touched, OnDisk
  <2>. QED
    BY <2>1 DEF With, Keeps
<1>3. CASE op.do = "remove"
  <2>1. DiskAfter(op) = Without(disk, {op.path}) /\ p # op.path
    BY <1>3 DEF DiskAfter, Touched, OnDisk
  <2>. QED
    BY <2>1 DEF Without, Keeps
<1>4. CASE op.do = "move"
  <2>1. /\ op.path \in Path \ {Root} /\ op.to \in Path \ {Root} /\ ~IsParent(op.path)
        /\ op.path \in DOMAIN disk /\ DiskAfter(op) = Moved(disk, op.path, op.to)
    BY <1>4, Zenon DEF Possible, DiskAfter, Exists
  <2>2. \A q \in DOMAIN disk : Within(op.path, q) => q = op.path
    BY <2>1, NotADir, NothingBelow
  <2>3. DiskAfter(op) = [q \in (DOMAIN disk \ {op.path}) \cup {op.to} |->
                           IF q = op.to THEN disk[op.path] ELSE disk[q]]
    BY <2>1, <2>2, MovedAlone
  <2>4. p # op.path /\ p # op.to
    BY <1>4 DEF Touched, OnDisk
  <2>. HIDE DEF DiskAfter
  <2>. QED
    BY <2>3, <2>4 DEF Keeps
<1>. QED
  BY <1>1, <1>2, <1>3, <1>4 DEF OnDisk

\* One operation of a plan: what is left still makes the answer true, and after
\* the last operation it is.
LEMMA StepAnswers ==
  ASSUME TypeInv, Apart, GoneInv, AnswerInv, NEW d \in Device, Step(d)
  PROVE  /\ AnswerInv'
         /\ pc'[d] = "replied" /\ IsOriginal(req[d].path) =>
              TrueIn(req[d], reply[d], disk', clocks', tombs')
<1>. DEFINE s == plan[d]
            t == Tail(plan[d])
            r == req[d]
            a == reply[d]
<1>1. /\ pc[d] = "locked" /\ lock = d /\ s # <<>> /\ IsPlan(s)
      /\ \A e \in Device \ {d} : pc[e] # "locked" /\ plan[e] = <<>>
      /\ r \in Request /\ r.path \in Path \ {Root} /\ (r.op = "rename" => r.to \in Path \ {Root})
      /\ DOMAIN pc = Device /\ DOMAIN plan = Device
      /\ now # 0 /\ \A e \in Device : AnswersFor(e)
  BY OnePlan, RequestFields, AnswerInvIs DEF Step, TypeInv, TypeOK, Shape
<1>2. /\ Head(s) = s[1] /\ Len(s) \in Nat /\ 1 \in DOMAIN s
      /\ DOMAIN s = 1..Len(s) /\ DOMAIN t = 1..(Len(s) - 1) /\ Len(t) = Len(s) - 1
      /\ \A i \in 1..(Len(s) - 1) : t[i] = s[i + 1] /\ i + 1 \in DOMAIN s
  BY <1>1, TailPlan
<1>3. /\ Possible(s[1]) /\ disk' = DiskAfter(s[1])
      /\ clocks' = ClocksAfter(s[1]) /\ tombs' = TombsAfter(s[1])
      /\ UNCHANGED <<req, reply, now>>
      /\ plan'[d] = t /\ \A e \in Device \ {d} : plan'[e] = plan[e] /\ pc'[e] = pc[e]
      /\ t = <<>> => pc'[d] = "replied"
      /\ t # <<>> => pc'[d] = "locked"
  BY <1>1, <1>2 DEF Step
<1>4. Spares(s) /\ Buries(s, RegularFiles, DOMAIN tombs)
  BY <1>1 DEF GoneInv, PlansBury
<1>. HIDE DEF s, t, r, a
<1>5. /\ s[1].do # "mkdir"
      /\ s[1].do = "move" => /\ s[1].path \in Path \ {Root} /\ s[1].to \in Path \ {Root}
                             /\ ~IsParent(s[1].path)
  BY <1>2, <1>4 DEF Spares, OnDisk
<1>6. LeavesStaged(d, s) /\ LeavesStaged(d, t)
  <2>1. LeavesStaged(d, s)
    BY <1>1 DEF AnswersFor, s
  <2>. QED
    BY <1>2, <2>1 DEF LeavesStaged
<1>7. t # <<>> => ~OnDisk(t[1])
  <2>1. ASSUME t # <<>>
        PROVE  1 \in 1..(Len(s) - 1)
    <3>1. IsPlan(t)
      BY <1>1, TailPlan DEF t, s
    <3>. QED
      BY <1>2, <2>1, <3>1, TailPlan
  <2>2. \A i \in DOMAIN s : OnDisk(s[i]) => i = 1
    BY <1>4 DEF Buries
  <2>3. t # <<>> => t[1] = s[1 + 1] /\ 1 + 1 \in DOMAIN s
    BY <1>2, <2>1
  <2>. QED
    BY <2>2, <2>3
<1>8. CanStep(d, r, s)
  <2>1. StagedFor(d, r, s)
    BY <1>1 DEF AnswersFor, HasStaged, StagedIn, StagedFor, r, s
  <2>. QED
    BY <1>1, <1>3, <1>5, <2>1 DEF CanStep, GoneInv
<1>9. ASSUME IsOriginal(r.path)
      PROVE  /\ t # <<>> => Fulfils(d, r, a, t, disk', clocks', tombs')
             /\ t = <<>> => TrueIn(r, a, disk', clocks', tombs')
  <2>1. Fulfils(d, r, a, s, disk, clocks, tombs)
    BY <1>1, <1>9 DEF AnswersFor, r, s, a
  <2>2. LET f == DiskAfter(s[1])
            cs == ClocksAfter(s[1])
            ts == TombsAfter(s[1])
        IN /\ Tail(s) # <<>> => Fulfils(d, r, a, Tail(s), f, cs, ts)
           /\ Tail(s) = <<>> => TrueIn(r, a, f, cs, ts)
    BY <1>8, <2>1, FulfilsStep
  <2>3. t = Tail(s)
    BY DEF t, s
  <2>. QED
    BY <1>3, <2>2, <2>3
<1>10. ASSUME NEW e \in Device \ {d}
       PROVE  AnswersFor(e)'
  <2>1. pc'[e] = pc[e] /\ plan'[e] = plan[e] /\ req'[e] = req[e] /\ reply'[e] = reply[e]
        /\ pc[e] # "locked"
    BY <1>1, <1>3
  <2>2. LeavesStaged(e, plan'[e])
    BY <1>1, <2>1 DEF AnswersFor
  <2>3. ASSUME HasStaged(e)
        PROVE  StagedIn(e, req[e], disk')
    <3>1. req[e] \in Request /\ req[e].op = "stream" /\ StagedIn(e, req[e], disk)
      BY <1>1, <2>3 DEF HasStaged, AnswersFor, TypeInv, Shape
    <3>2. OnDisk(s[1]) => TempPath(req[e].path, e) \notin Touched(s[1])
      BY <1>2, <1>6, <3>1 DEF LeavesStaged
    <3>3. Keeps(disk, disk', TempPath(req[e].path, e))
      BY <1>3, <1>5, <3>2, TouchesOnly DEF GoneInv
    <3>. QED
      BY <3>1, <3>3 DEF StagedIn, Keeps
  <2>. QED
    BY <2>1, <2>2, <2>3 DEF AnswersFor, HasStaged
<1>11. AnswersFor(d)'
  <2>1. pc'[d] \in {"replied", "locked"} /\ plan'[d] = t /\ req'[d] = r /\ reply'[d] = a
    BY <1>3 DEF r, a
  <2>2. ~HasStaged(d)'
    BY <1>3, <1>7, <2>1 DEF HasStaged
  <2>. QED
    BY <1>3, <1>6, <1>9, <2>1, <2>2 DEF AnswersFor
<1>. QED
  BY <1>1, <1>3, <1>9, <1>10, <1>11, AnswerInvIsNext DEF r, a

\* A handler that fails says so.
LEMMA StepFailsAnswers ==
  ASSUME TypeInv, AnswerInv, StagedUnnamed, NEW d \in Device, StepFails(d)
  PROVE  AnswerInv' /\ pc'[d] = "replied" /\ reply'[d].result = "Error"
<1>1. /\ pc[d] = "locked" /\ req[d] \in Request /\ disk' = WithoutTemp(disk, d)
      /\ now # 0 /\ \A e \in Device : AnswersFor(e)
      /\ DOMAIN pc = Device /\ DOMAIN plan = Device /\ DOMAIN reply = Device
      /\ plan' = [plan EXCEPT ![d] = <<>>] /\ pc' = [pc EXCEPT ![d] = "replied"]
      /\ reply' = [reply EXCEPT ![d] = Reply("Error", EmptyClock)]
      /\ UNCHANGED <<clocks, tombs, req, now>>
  BY AnswerInvIs DEF StepFails, Finish, store, TypeInv, TypeOK, Shape
<1>2. \A e \in Device \ {d} : /\ pc'[e] = pc[e] /\ plan'[e] = plan[e] /\ req'[e] = req[e]
                              /\ reply'[e] = reply[e]
  BY <1>1
<1>3. \A e \in Device \ {d} : AnswersFor(e)'
  BY <1>1, <1>2, WithoutTempKeeps, AnswersElsewhere
<1>4. pc'[d] = "replied" /\ plan'[d] = <<>> /\ reply'[d].result = "Error"
  BY <1>1 DEF Reply, Answer
<1>5. AnswersFor(d)'
  BY <1>4, NoAnswerYet
<1>. QED
  BY <1>1, <1>3, <1>4, <1>5, AnswerInvIsNext

\* Every step keeps the plans true to their answers, and every answer that is
\* given under the lock is true.
LEMMA NextAnswers ==
  ASSUME NoMkdir, NoFailures, StagedUnnamed, TypeInv, Apart, GoneInv, AnswerInv, [Next]_vars
  PROVE  /\ AnswerInv'
         /\ \A d \in Device : pc[d] = "locked" /\ pc'[d] = "replied" /\ IsOriginal(req[d].path) =>
              /\ req' = req
              /\ \/ reply'[d].result = "Error"
                 \/ TrueIn(req[d], reply'[d], disk', clocks', tombs')
<1>. DEFINE Answered(d) == pc[d] = "locked" /\ pc'[d] = "replied" /\ IsOriginal(req[d].path) =>
                             /\ req' = req
                             /\ \/ reply'[d].result = "Error"
                                \/ TrueIn(req[d], reply'[d], disk', clocks', tombs')
            Done == AnswerInv' /\ \A e \in Device : Answered(e)
<1>0. /\ DOMAIN pc = Device /\ DOMAIN plan = Device /\ DOMAIN req = Device /\ DOMAIN reply = Device
      /\ now # 0 /\ \A e \in Device : AnswersFor(e)
  BY AnswerInvIs DEF TypeInv, TypeOK, Shape
<1>1. ASSUME NEW d \in Device, EnsureParent(d) \/ Stage(d) \/ Look(d)
      PROVE  Done
  <2>1. pc[d] # "locked" /\ \A e \in Device \ {d} : pc'[e] = pc[e]
    BY <1>0, <1>1 DEF EnsureParent, Stage, Look, StatFile, StatClock, ReadFile, ListDir, Finish
  <2>. QED
    BY <1>1, <2>1, BeforeLockAnswers
<1>2. ASSUME NEW d \in Device, Acquire(d)
      PROVE  Done
  <2>1. \A e \in Device : pc[e] # "locked"
    BY <1>2, OnePlan DEF Acquire, LockFree
  <2>. QED
    BY <1>2, <2>1, AcquireAnswers
<1>3. ASSUME NEW d \in Device, Step(d)
      PROVE  Done
  <2>1. req' = req /\ reply' = reply /\ \A e \in Device \ {d} : pc[e] # "locked"
    BY <1>3, OnePlan DEF Step
  <2>. QED
    BY <1>3, <2>1, StepAnswers
<1>4. ASSUME NEW d \in Device, StepFails(d)
      PROVE  Done
  <2>1. req' = req /\ \A e \in Device \ {d} : pc[e] # "locked"
    BY <1>4, OnePlan DEF StepFails
  <2>. QED
    BY <1>4, <2>1, StepFailsAnswers
<1>5. ASSUME NEW d \in Device, NEW r \in Request, Submit(d, r)
      PROVE  Done
  <2>1. /\ UNCHANGED <<disk, clocks, tombs, plan, reply, now>> /\ pc[d] = "idle"
        /\ req'[d] = r /\ pc'[d] \in {"accepted", "waiting"}
        /\ pc'[d] = "waiting" => r.op # "stream"
        /\ \A e \in Device \ {d} : pc'[e] = pc[e] /\ req'[e] = req[e]
    BY <1>0, <1>5 DEF Submit, store
  <2>2. \A e \in Device \ {d} : AnswersFor(e)'
    BY <1>0, <2>1, KeepsSame, AnswersElsewhere
  <2>3. AnswersFor(d)'
    BY <1>0, <2>1, NoAnswerYet DEF AnswersFor
  <2>4. AnswerInv'
    BY <1>0, <2>1, <2>2, <2>3, AnswerInvIsNext
  <2>. QED
    BY <2>1, <2>4
<1>6. ASSUME NEW d \in Device, Return(d)
      PROVE  Done
  <2>1. /\ UNCHANGED <<disk, clocks, tombs, now>> /\ pc[d] = "replied"
        /\ pc'[d] = "idle" /\ plan'[d] = <<>>
        /\ \A e \in Device \ {d} : /\ pc'[e] = pc[e] /\ req'[e] = req[e]
                                   /\ plan'[e] = plan[e] /\ reply'[e] = reply[e]
    BY <1>0, <1>6 DEF Return, Forget, store
  <2>2. \A e \in Device \ {d} : AnswersFor(e)'
    BY <1>0, <2>1, KeepsSame, AnswersElsewhere
  <2>3. AnswersFor(d)'
    BY <2>1, NoAnswerYet
  <2>4. AnswerInv'
    BY <1>0, <2>1, <2>2, <2>3, AnswerInvIsNext
  <2>. QED
    BY <2>1, <2>4
<1>7. ASSUME Gc \/ Second \/ UNCHANGED vars
      PROVE  Done
  <2>1. UNCHANGED <<disk, pc, req, plan, reply, lock>>
    BY <1>7, GcOnlyRemoves DEF Second, vars, store, rpc
  <2>2. now' # 0
    <3>1. Gc => now' = now
      BY DEF Gc, GcStep, CollectTombs, CollectClocks, CapTombs, CapClocks, RemoveTombs, RemoveClocks,
              Skip, SweepStarts, LookAtTomb, ListClocks, LookAtClock, LookForTomb, CountEntries,
              CountOrphans
    <3>2. Second => now' = now + 1 /\ now \in Nat
      BY DEF Second, TypeInv, Shape
    <3>. QED
      BY <1>0, <1>7, <3>1, <3>2 DEF vars
  <2>3. \A e \in Device : pc[e] = "locked" => UNCHANGED <<clocks, tombs>>
    <3>1. (\E e \in Device : pc[e] = "locked") => ~LockFree
      BY FileHostAssumption, OnePlan DEF LockFree
    <3>. QED
      BY <1>7, <3>1, GcUnderLock DEF Second, vars, store
  <2>4. \A e \in Device : AnswersFor(e)'
    BY <1>0, <2>1, <2>3, KeepsSame, AnswersElsewhere
  <2>5. AnswerInv'
    BY <2>2, <2>4, AnswerInvIsNext
  <2>. QED
    BY <2>1, <2>5
<1>8. ~Crash /\ (\A d \in Device : ~Disconnect(d)) /\ (\A op \in detached : ~Detached(op))
  BY DEF Disconnect, Crash, NoFailures, GoneInv
<1>. HIDE DEF Done
<1>9. Done
  <2>1. \/ \E d \in Device : EnsureParent(d) \/ Stage(d) \/ Look(d)
        \/ \E d \in Device : Acquire(d)
        \/ \E d \in Device : Step(d)
        \/ \E d \in Device : StepFails(d)
        \/ \E d \in Device : \E r \in Request : Submit(d, r)
        \/ \E d \in Device : Return(d)
        \/ Gc \/ Second \/ UNCHANGED vars
    BY <1>8, Zenon DEF Next, Serve, Handle
  <2>. QED
    BY <1>1, <1>2, <1>3, <1>4, <1>5, <1>6, <1>7, <2>1, Zenon
<1>. QED
  BY <1>9 DEF Done

LEMMA InitAnswers == Init => AnswerInv
<1>. SUFFICES ASSUME Init PROVE AnswerInv
  OBVIOUS
<1>1. now # 0 /\ \A d \in Device : pc[d] = "idle" /\ plan[d] = <<>>
  BY DEF Init
<1>. QED
  BY <1>1 DEF AnswerInv, HasStaged, LeavesStaged

\* For every set of devices and requests, and whatever the collector does: at
\* the moment a handler gives up write_lock, what it answers is so, as long as
\* nothing fails in the middle, directories are neither made nor moved and no
\* client names a staged file (write_file, write_file_stream, delete_file,
\* rename_file).
THEOREM AnswersHold ==
  NoMkdir /\ EditsTicked /\ MovesOnlyFiles /\ NoFailures /\ StagedUnnamed =>
    (Spec => AnswersAreTrue)
<1>. SUFFICES ASSUME NoMkdir, EditsTicked, MovesOnlyFiles, NoFailures, StagedUnnamed
              PROVE  Spec => AnswersAreTrue
  OBVIOUS
<1>1. NoCrash
  BY DEF NoCrash, NoFailures
<1>. DEFINE Inv == OneStoreInv /\ GoneInv /\ AnswerInv
<1>2. Init => Inv
  BY InitType, InitApart, InitGone, InitAnswers DEF OneStoreInv, Apart
<1>3. Inv /\ [Next]_vars => Inv'
  BY <1>1, NextType, NextApart, NextGone, NextAnswers DEF OneStoreInv, Apart
<1>4. Inv /\ [Next]_vars =>
        [\A d \in Device : pc[d] = "locked" /\ pc'[d] = "replied" /\ IsOriginal(req[d].path)
                             => Truthful(d)]_vars
  <2>. SUFFICES ASSUME Inv, [Next]_vars, NEW d \in Device,
                       pc[d] = "locked", pc'[d] = "replied", IsOriginal(req[d].path)
                PROVE  Truthful(d)
    OBVIOUS
  <2>1. /\ req' = req
        /\ reply'[d].result = "Error" \/ TrueIn(req[d], reply'[d], disk', clocks', tombs')
    BY NextAnswers DEF OneStoreInv, Apart
  <2>2. CASE reply'[d].result = "Error"
    BY <2>2 DEF Truthful
  <2>3. CASE TrueIn(req[d], reply'[d], disk', clocks', tombs')
    BY <2>1, <2>3 DEF TrueIn, Truthful, Exists, IsFile, LiveClock, TombClock, Tombed
  <2>. QED
    BY <2>1, <2>2, <2>3
<1>. HIDE DEF Inv
<1>. QED
  BY <1>2, <1>3, <1>4, PTL DEF Spec, AnswersAreTrue

-----------------------------------------------------------------------------
(* The edits.                                                               *)

\* No request names a staged file, no conflict copy is one, and what is one has
\* the name of one.
LEMMA StagedNames ==
  ASSUME StagedUnnamed, now \in Nat \ {0}
  PROVE  /\ \A r \in Request : /\ r.path \notin StagedPaths
                               /\ r.op = "rename" => r.to \notin StagedPaths
         /\ \A r \in Request, d \in Device :
              r.op \in Mutation => ConflictPath(r.path, d) \notin StagedPaths
         /\ \A p \in StagedPaths : IsTemp(p)
<1>1. ASSUME NEW r \in Request
      PROVE  /\ r.path \notin StagedPaths
             /\ r.op = "rename" => r.to \notin StagedPaths
  BY DEF StagedUnnamed, StagedPaths
<1>2. ASSUME NEW r \in Request, NEW d \in Device, r.op \in Mutation
      PROVE  ConflictPath(r.path, d) \notin StagedPaths
  <2>1. r.path \in Path \ {Root}
    BY <1>2, RequestFields
  <2>2. \A q \in Request, e \in Device :
          q.op = "stream" => TempPath(q.path, e) # ConflictPath(r.path, d)
    BY <2>1, RequestFields, StagedApart DEF Mutation
  <2>. QED
    BY <2>2 DEF StagedPaths
<1>3. ASSUME NEW p \in StagedPaths
      PROVE  IsTemp(p)
  <2>1. PICK r \in Request, d \in Device : r.op = "stream" /\ p = TempPath(r.path, d)
    BY DEF StagedPaths
  <2>2. r.path \in Path \ {Root}
    BY <2>1, RequestFields DEF Mutation
  <2>3. p \in Path \ {Root} /\ ~IsOriginal(p) /\ LastCopy(p) = [by |-> d, at |-> 0]
    BY <2>1, <2>2, CopiedPaths, CopiesEnd
  <2>. QED
    BY <2>3 DEF IsTemp, IsOriginal, LastCopy
<1>. QED
  BY <1>1, <1>2, <1>3

\* The directories f and g have the same edits.
SameEdits(f, g) ==
  /\ EditsIn(g) = EditsIn(f)
  /\ \A p \in EditsIn(f) : g[p] = f[p]

\* What covers a file when no operation is left that concerns it.
LEMMA CoversPlainly ==
  ASSUME NEW rest, NEW f, NEW cs, NEW ts, NEW p,
         \A op \in rest : op.path = p => op.do \notin {"put_clock", "drop_tomb"}
  PROVE  Covers(rest, f, cs, ts, p) <=>
           Leq(f[p].edit, ClockIn(cs, p)) /\ ClockIn(ts, p) = EmptyClock
<1>1. \A op \in rest : ~Does(op, "put_clock", p)
  BY DEF Does
<1>2. DropTomb(p) \notin rest
  BY OpFields
<1>. QED
  BY <1>1, <1>2 DEF Covers

\* A file that the operation put covers, and nothing else puts a clock there.
LEMMA CoversByPut ==
  ASSUME NEW rest, NEW f, NEW cs, NEW ts, NEW p, NEW c, PutClock(p, c) \in rest,
         \A op \in rest : Does(op, "put_clock", p) => op = PutClock(p, c),
         Leq(f[p].edit, c), ClockIn(ts, p) # EmptyClock => DropTomb(p) \in rest
  PROVE  Covers(rest, f, cs, ts, p)
<1>1. Does(PutClock(p, c), "put_clock", p) /\ PutClock(p, c).clock = c
  BY OpFields DEF Does
<1>. QED
  BY <1>1 DEF Covers

\* What the handler at work has left, when it is the only one.
LEMMA RestIs ==
  ASSUME NEW pl, NEW d \in Device, \A e \in Device \ {d} : pl[e] = <<>>
  PROVE  /\ pl[d] = <<>> \/ OnDisk(pl[d][1]) => RestOf(pl) = {}
         /\ pl[d] # <<>> /\ ~OnDisk(pl[d][1]) => RestOf(pl) = OpsOf(pl[d])
<1>. DEFINE D == {e \in Device : pl[e] # <<>> /\ ~OnDisk(pl[e][1])}
<1>1. RestOf(pl) = UNION {OpsOf(pl[e]) : e \in D}
  BY DEF RestOf
<1>2. pl[d] = <<>> \/ OnDisk(pl[d][1]) => D = {}
  OBVIOUS
<1>3. pl[d] # <<>> /\ ~OnDisk(pl[d][1]) => D = {d}
  OBVIOUS
<1>. HIDE DEF D
<1>. QED
  BY <1>1, <1>2, <1>3

LEMMA NoRest ==
  ASSUME NEW pl, \A e \in Device : pl[e] = <<>>
  PROVE  RestOf(pl) = {}
BY DEF RestOf

\* The file x of the directory before is in the directory g, or its edit is one
\* that the request r of d has seen, or r renames or copies something onto it.
Lives(x, g, d, r) ==
  \/ \E y \in DOMAIN g : g[y] = disk[x]
  \/ Leq(disk[x].edit, r.clock)
  \/ IsTarget(x, r)
  \/ IsCopyOf(x, r, d)

\* The file x of the directory g was there, and not covered, before; or the
\* request r of d has put it there, a copy on a deleted name or a file that was
\* not covered at its old one.
WasBare(x, g) == x \in EditsIn(disk) /\ ~Covered(x) /\ g[x] = disk[x]

CameBare(x, g, d, r) ==
  \/ IsCopyOf(x, r, d) /\ Tombed(x)
  \/ /\ IsTarget(x, r) /\ r.path \in EditsIn(disk) /\ ~Covered(r.path)
     /\ g[x] = disk[r.path]

\* What a step does to the edits: the two properties, for the files whose names
\* are not those of staged copies.
CoveredStay ==
  \A x \in EditsIn(disk) : Covered(x) =>
    \/ \E y \in DOMAIN disk' : disk'[y] = disk[x]
    \/ \E d \in Device : lock = d /\ Lives(x, disk', d, req[d])

StayCovered ==
  \A x \in EditsIn(disk') :
    \/ Covers(RestOf(plan'), disk', clocks', tombs', x)
    \/ WasBare(x, disk')
    \/ Collected(x)
    \/ \E d \in Device : lock = d /\ CameBare(x, disk', d, req[d])

\* A step that leaves edits, stores and what is left of a plan alone.
LEMMA QuietEdits ==
  ASSUME EditInv, SameEdits(disk, disk'), UNCHANGED <<clocks, tombs>>,
         RestOf(plan') = RestOf(plan),
         \A d \in Device : pc'[d] = "locked" =>
           pc[d] = "locked" /\ plan'[d] = plan[d] /\ req'[d] = req[d]
  PROVE  EditInv' /\ CoveredStay /\ StayCovered
<1>1. \A p \in EditsIn(disk') : p \in EditsIn(disk) /\ disk'[p] = disk[p] /\ disk'[p].edit \in Clock
  BY DEF SameEdits, EditInv
<1>2. \A p \in EditsIn(disk) : p \in DOMAIN disk' /\ disk'[p] = disk[p]
  BY DEF SameEdits, EditsIn
<1>3. \A s, ts : EndsCovered(s, disk, ts) => EndsCovered(s, disk', ts)
  BY DEF EndsCovered, SameEdits
<1>4. EditInv'
  <2>1. ASSUME NEW d \in Device, pc'[d] = "locked"
        PROVE  IF OnDisk(plan'[d][1]) THEN StartsSeen(d, req'[d], plan'[d], clocks', tombs')
               ELSE EndsCovered(plan'[d], disk', tombs')
    <3>1. pc[d] = "locked" /\ plan'[d] = plan[d] /\ req'[d] = req[d]
      BY <2>1
    <3>2. IF OnDisk(plan[d][1]) THEN StartsSeen(d, req[d], plan[d], clocks, tombs)
          ELSE EndsCovered(plan[d], disk, tombs)
      BY <3>1 DEF EditInv
    <3>3. CASE OnDisk(plan[d][1])
      BY <3>1, <3>2, <3>3
    <3>4. CASE ~OnDisk(plan[d][1])
      BY <1>3, <3>1, <3>2, <3>4
    <3>. QED
      BY <3>3, <3>4
  <2>. QED
    BY <1>1, <2>1 DEF EditInv
<1>5. CoveredStay
  BY <1>2 DEF CoveredStay
<1>6. ASSUME NEW x \in EditsIn(disk')
      PROVE  Covers(RestOf(plan'), disk', clocks', tombs', x) \/ WasBare(x, disk')
  <2>1. Covers(RestOf(plan'), disk', clocks', tombs', x) <=> Covered(x)
    BY <1>1 DEF Covered, Covers
  <2>. QED
    BY <1>1, <2>1 DEF WasBare
<1>. QED
  BY <1>4, <1>5, <1>6 DEF StayCovered

\* What a handler has staged is no edit yet, and it touches no more before it
\* has the lock; a parent is recreated as a directory.
LEMMA StagingEdits ==
  ASSUME TypeInv, NEW d \in Device,
         EnsureParent(d) \/ Stage(d) \/ (req[d] \in Request /\ disk' = WithoutTemp(disk, d))
  PROVE  SameEdits(disk, disk')
<1>. DEFINE temp == TempPath(req[d].path, d)
<1>1. CASE disk' = disk
  BY <1>1 DEF SameEdits, EditsIn
<1>2. CASE disk' = [p \in DOMAIN disk \cup Ancestors(req[d].path) |->
                      IF Exists(p) THEN disk[p] ELSE Dir]
  BY <1>2 DEF SameEdits, EditsIn, Exists, Dir
<1>3. ASSUME req[d] \in Request, req[d].op = "stream",
             \/ \E x : disk' = With(disk, temp, x)
             \/ disk' = Without(disk, {temp})
      PROVE  SameEdits(disk, disk')
  <2>1. temp \in StagedPaths
    BY <1>3 DEF StagedPaths
  <2>. HIDE DEF temp
  <2>. QED
    BY <1>3, <2>1 DEF SameEdits, EditsIn, With, Without
<1>4. CASE EnsureParent(d)
  BY <1>1, <1>2, <1>4, Zenon DEF EnsureParent
<1>5. CASE Stage(d)
  <2>1. req[d] \in Request /\ req[d].op = "stream"
    BY <1>5 DEF Stage, TypeInv, Shape
  <2>2. disk' = disk \/ disk' = With(disk, temp, File(req[d].clock, req[d].data))
    BY <1>5, Zenon DEF Stage
  <2>. QED
    BY <1>1, <1>3, <2>1, <2>2
<1>6. CASE req[d] \in Request /\ disk' = WithoutTemp(disk, d)
  BY <1>1, <1>3, <1>6, Zenon DEF WithoutTemp
<1>. QED
  BY <1>4, <1>5, <1>6

\* A plan that replaces or removes a live file does so when the request has seen
\* its clock.
LEMMA DecisionsWeigh ==
  ASSUME TypeInv, Apart, lock = Unlocked, NEW d \in Device, NEW r \in Request,
         r.path \notin DOMAIN tombs, Decide(d, r).ops # <<>>
  PROVE  LET p    == r.path
             s    == Decide(d, r).ops
             live == Merge(LiveClock(p), r.clock)
             copy == ConflictPath(p, d)
         IN /\ r.op \in {"write", "stream"} =>
                 \/ s = <<Store(d, r, p), PutClock(p, live)>> /\ Leq(LiveClock(p), r.clock)
                 \/ s = <<Store(d, r, copy), PutClock(copy, r.clock)>>
            /\ r.op = "delete" => Leq(LiveClock(p), r.clock)
<1>. DEFINE p == r.path
            o == Decide(d, r)
            s == Decide(d, r).ops
            live == Merge(LiveClock(p), r.clock)
            copy == ConflictPath(p, d)
            order == Compare(r.clock, LiveClock(p))
<1>1. ~Tombed(p)
  BY DEF Tombed, TombClock, ClockIn
<1>2. r.clock \in Clock /\ LiveClock(p) \in Clock
  BY RequestFields, StoredClockType DEF TypeInv, TypeOK, LiveClock
<1>3. /\ order \in Order
      /\ order \in {"Dominates", "Equal"} => Leq(LiveClock(p), r.clock)
  BY <1>2, CompareClassifies
<1>4. \A res, c, ops : Outcome(res, c, ops).ops = ops
  BY DEF Outcome
<1>5. Failed.ops = <<>>
  BY DEF Failed, Outcome
<1>6. ASSUME r.op \in {"write", "stream"}
      PROVE  \/ s = <<Store(d, r, p), PutClock(p, live)>> /\ Leq(LiveClock(p), r.clock)
             \/ s = <<Store(d, r, copy), PutClock(copy, r.clock)>>
  <2>1. o = WriteOutcome(d, r)
    BY <1>6, Zenon DEF Decide
  <2>2. o = Failed \/ o = WriteOverLive(d, r)
    BY <1>1, <2>1, Zenon DEF WriteOutcome
  <2>3. \/ \E res, c : o = Outcome(res, c, <<>>)
        \/ /\ \E res, c : o = Outcome(res, c, <<Store(d, r, p), PutClock(p, live)>>)
           /\ order \in {"Dominates", "Equal"}
        \/ \E res, c : o = Outcome(res, c, <<Store(d, r, copy), PutClock(copy, r.clock)>>)
    <3>1. CASE o = Failed
      BY <3>1, Zenon DEF Failed
    <3>2. CASE o = WriteOverLive(d, r)
      BY <1>3, <3>2, Zenon DEF WriteOverLive, Order
    <3>. QED
      BY <2>2, <3>1, <3>2
  <2>. HIDE DEF order, live, copy, p
  <2>. QED
    BY <1>3, <1>4, <2>3
<1>7. ASSUME r.op = "delete"
      PROVE  Leq(LiveClock(p), r.clock)
  <2>1. o = DeleteOutcome(d, r)
    BY <1>7, Zenon DEF Decide
  <2>2. (\E res, c : o = Outcome(res, c, <<>>)) \/ order \in {"Dominates", "Equal"}
    BY <1>1, <1>3, <2>1, Zenon DEF DeleteOutcome, Order
  <2>. QED
    BY <1>3, <1>4, <2>2
<1>. QED
  BY <1>6, <1>7

\* The name of a conflict copy is one.
LEMMA CopyIsCopy ==
  ASSUME NEW r, r.op \in {"write", "stream"}, r.path \in Path \ {Root}, NEW d \in Device, now \in Nat
  PROVE  IsCopyOf(ConflictPath(r.path, d), r, d)
<1>. DEFINE p == r.path
            n == Len(p)
            S == [by : Device, at : Nat]
            x == [by |-> d, at |-> now]
            q == ConflictPath(p, d)
<1>1. n \in DOMAIN p /\ p \in Seq(Leaf) /\ p[n] \in Leaf /\ n = Len(p)
  BY DEF Path, Root
<1>2. p[n].copies \in Seq(S) /\ DOMAIN p[n] = {"name", "copies"} /\ x \in S
  BY <1>1 DEF Leaf
<1>3. q = [p EXCEPT ![n] = [p[n] EXCEPT !.copies = Append(@, x)]]
  BY DEF ConflictPath
<1>4. q[n].copies = Append(p[n].copies, x) /\ Len(q) = n
  BY <1>1, <1>2, <1>3
<1>5. q[n].copies # <<>> /\ q[n].copies[Len(q[n].copies)] = x
  <2>. HIDE DEF S, x, q
  <2>. QED
    BY <1>2, <1>4
<1>6. x.at = now
  OBVIOUS
<1>. QED
  BY <1>4, <1>5, <1>6, Zenon DEF IsCopyOf, ConflictPath

\* A handler that gets the lock decides on a plan that starts, or ends, as it
\* should.
LEMMA DecisionsStart ==
  ASSUME TypeInv, Apart, StagedUnnamed, now # 0, lock = Unlocked, NEW d \in Device, NEW r \in Request,
         r.op \in {"write", "stream", "delete", "rename"}, Decide(d, r).ops # <<>>
  PROVE  LET s == Decide(d, r).ops
         IN \/ OnDisk(s[1]) /\ StartsSeen(d, r, s, clocks, tombs)
            \/ /\ ~OnDisk(s[1]) /\ EndsCovered(s, disk, tombs)
               /\ \A op \in OpsOf(s) : op.do = "put_tomb"
<1>. DEFINE p == r.path
            s == Decide(d, r).ops
            live == Merge(LiveClock(p), r.clock)
            tomb == Merge(TombClock(p), r.clock)
            copy == ConflictPath(p, d)
<1>1. /\ r.clock \in Clock /\ LiveClock(p) \in Clock /\ TombClock(p) \in Clock
      /\ p \in Path \ {Root} /\ p \notin StagedPaths /\ copy \notin StagedPaths
      /\ copy \in Path \ {Root} /\ now \in Nat \ {0}
  BY RequestFields, StoredClockType, StagedNames, CopiedPaths
  DEF TypeInv, TypeOK, Shape, LiveClock, TombClock, Mutation
<1>2. /\ live \in Clock /\ Leq(LiveClock(p), live) /\ Leq(r.clock, live)
      /\ tomb \in Clock /\ Leq(r.clock, tomb) /\ Leq(r.clock, r.clock)
  BY <1>1, MergeType, MergeIsLub, LeqBounds
<1>3. /\ LiveClock(p) = ClockIn(clocks, p)
      /\ p \notin DOMAIN tombs => ClockIn(tombs, p) = EmptyClock
      /\ p \in DOMAIN tombs => ClockIn(tombs, p) # EmptyClock
  BY DEF LiveClock, TombClock, ClockIn, Apart, TombsAreSeen, Tombed
<1>4. /\ \A x : OnDisk(Store(d, r, x)) /\ OnDisk(Move(p, x)) /\ OnDisk(WriteFile(x, EmptyClock, NoData))
      /\ \A c : ~OnDisk(PutTomb(p, c))
      /\ OnDisk(RemoveFile(p))
  BY DEF Store, WriteFile, Move, PutTomb, RemoveFile, OnDisk
<1>5. r.op \in {"write", "stream"} => IsCopyOf(copy, r, d)
  BY <1>1, CopyIsCopy
<1>6. \A x, c : PutClock(x, c).path = x /\ PutClock(x, c).clock = c /\ PutTomb(x, c).clock = c
                /\ PutTomb(x, c).do = "put_tomb" /\ PutTomb(x, c).path = x
  BY OpFields
<1>. HIDE DEF p, s, live, tomb, copy
<1>7. CASE r.op \in {"write", "stream"} /\ p \in DOMAIN tombs
  <2>1. s = <<Store(d, r, p), DropTomb(p), PutClock(p, tomb)>>
    BY <1>7, Decisions DEF s, p, tomb
  <2>2. s[1] = Store(d, r, p) /\ s[Len(s)] = PutClock(p, tomb) /\ DropTomb(p) \in OpsOf(s)
    BY <2>1, OpsOfShort
  <2>3. StartsSeen(d, r, s, clocks, tombs)
    BY <1>1, <1>2, <1>3, <1>6, <1>7, <2>1, <2>2 DEF StartsSeen, p
  <2>. QED
    BY <1>4, <2>2, <2>3 DEF s
<1>8. CASE r.op \in {"write", "stream"} /\ p \notin DOMAIN tombs
  <2>1. CASE s = <<Store(d, r, p), PutClock(p, live)>> /\ Leq(LiveClock(p), r.clock)
    <3>1. s[1] = Store(d, r, p) /\ s[Len(s)] = PutClock(p, live)
      BY <2>1
    <3>2. StartsSeen(d, r, s, clocks, tombs)
      BY <1>1, <1>2, <1>3, <1>6, <1>8, <2>1, <3>1 DEF StartsSeen, p
    <3>. QED
      BY <1>4, <3>1, <3>2 DEF s
  <2>2. CASE s = <<Store(d, r, copy), PutClock(copy, r.clock)>>
    <3>1. s[1] = Store(d, r, copy) /\ s[Len(s)] = PutClock(copy, r.clock)
      BY <2>2
    <3>2. StartsSeen(d, r, s, clocks, tombs)
      BY <1>1, <1>2, <1>5, <1>6, <1>8, <2>2, <3>1 DEF StartsSeen
    <3>. QED
      BY <1>4, <3>1, <3>2 DEF s
  <2>. QED
    BY <1>8, <2>1, <2>2, DecisionsWeigh DEF s, p, live, copy
<1>9. CASE r.op = "delete" /\ p \in DOMAIN tombs
  <2>1. s = <<PutTomb(p, tomb)>>
    BY <1>9, Decisions DEF s, p, tomb
  <2>2. s[1] = PutTomb(p, tomb) /\ Len(s) = 1 /\ DOMAIN s = {1} /\ OpsOf(s) = {PutTomb(p, tomb)}
    BY <2>1, OpsOfShort
  <2>3. ~Does(PutTomb(p, tomb), "drop_tomb", p)
    BY OpFields DEF Does
  <2>4. EndsCovered(s, disk, tombs)
    BY <1>3, <1>6, <1>9, <2>2, <2>3 DEF EndsCovered
  <2>. QED
    BY <1>4, <1>6, <2>2, <2>4 DEF s
<1>10. CASE r.op = "delete" /\ p \notin DOMAIN tombs
  <2>1. s = <<RemoveFile(p), PutTomb(p, live), DropClock(p)>>
    BY <1>10, Decisions DEF s, p, live
  <2>2. s[1] = RemoveFile(p) /\ s[2] = PutTomb(p, live)
    BY <2>1
  <2>3. Leq(LiveClock(p), r.clock)
    BY <1>10, DecisionsWeigh DEF p, s
  <2>4. StartsSeen(d, r, s, clocks, tombs)
    BY <1>3, <1>6, <1>10, <2>1, <2>2, <2>3 DEF StartsSeen, p
  <2>. QED
    BY <1>4, <2>2, <2>4 DEF s
<1>11. CASE r.op = "rename" /\ p \notin DOMAIN tombs
  <2>1. s = <<Move(p, r.to), DropClock(p), DropTomb(r.to), PutClock(r.to, live)>>
    BY <1>11, Decisions DEF s, p, live
  <2>2. s[1] = Move(p, r.to) /\ s[Len(s)] = PutClock(r.to, live)
    BY <2>1
  <2>3. StartsSeen(d, r, s, clocks, tombs)
    BY <1>2, <1>3, <1>6, <1>11, <2>1, <2>2 DEF StartsSeen, p
  <2>. QED
    BY <1>4, <2>2, <2>3 DEF s
<1>12. CASE r.op = "rename" /\ p \in DOMAIN tombs
  <2>1. s = <<WriteFile(r.to, EmptyClock, NoData), DropTomb(p), DropTomb(r.to), PutClock(r.to, tomb)>>
    BY <1>12, Decisions DEF s, p, tomb
  <2>2. s[1] = WriteFile(r.to, EmptyClock, NoData) /\ s[Len(s)] = PutClock(r.to, tomb)
    BY <2>1
  <2>3. StartsSeen(d, r, s, clocks, tombs)
    BY <1>6, <1>12, <2>1, <2>2 DEF StartsSeen, p
  <2>. QED
    BY <1>4, <2>2, <2>3 DEF s
<1>. QED
  BY <1>7, <1>8, <1>9, <1>10, <1>11, <1>12 DEF s

\* What a file operation of a plan leaves in the directory.
LEMMA DiskAfterIs ==
  ASSUME Tree, OnlyParents, NEW op, Possible(op),
         op.do = "move" => op.path \in Path \ {Root} /\ op.to \in Path \ {Root} /\ ~IsParent(op.path)
  PROVE  /\ op.do = "write" => DiskAfter(op) = With(disk, op.path, File(op.edit, op.data))
         /\ op.do = "move" => DiskAfter(op) = With(Without(disk, {op.path}), op.to, disk[op.path])
         /\ op.do = "remove" => DiskAfter(op) = Without(disk, {op.path})
<1>1. op.do = "write" => DiskAfter(op) = With(disk, op.path, File(op.edit, op.data))
  BY Zenon DEF DiskAfter
<1>2. op.do = "remove" => DiskAfter(op) = Without(disk, {op.path})
  BY Zenon DEF DiskAfter
<1>3. ASSUME op.do = "move"
      PROVE  DiskAfter(op) = With(Without(disk, {op.path}), op.to, disk[op.path])
  <2>1. /\ op.path \in Path \ {Root} /\ op.to \in Path \ {Root} /\ ~IsParent(op.path)
        /\ op.path \in DOMAIN disk /\ DiskAfter(op) = Moved(disk, op.path, op.to)
    BY <1>3, Zenon DEF Possible, DiskAfter, Exists
  <2>2. \A p \in DOMAIN disk : Within(op.path, p) => p = op.path
    BY <2>1, NotADir, NothingBelow
  <2>3. ASSUME NEW from \in Path \cap DOMAIN disk, NEW to \in Path,
               \A p \in DOMAIN disk : Within(from, p) => p = from
        PROVE  Moved(disk, from, to) = With(Without(disk, {from}), to, disk[from])
    <3>1. Moved(disk, from, to) = [q \in (DOMAIN disk \ {from}) \cup {to} |->
                                     IF q = to THEN disk[from] ELSE disk[q]]
      BY <2>3, MovedAlone
    <3>. QED
      BY <3>1 DEF With, Without
  <2>. QED
    BY <2>1, <2>2, <2>3
<1>. QED
  BY <1>1, <1>2, <1>3

\* What holds of the directory g and of what is left, t, once the file operation
\* of the request r of d is done.
Begun(g, t, d, r) ==
  /\ \A x \in EditsIn(g) : g[x].edit \in Clock
  /\ EndsCovered(t, g, tombs)
  /\ \A x \in EditsIn(disk) : Covers({}, disk, clocks, tombs, x) => Lives(x, g, d, r)
  /\ \A x \in EditsIn(g) :
       \/ Covers(OpsOf(t), g, clocks, tombs, x)
       \/ /\ x \in EditsIn(disk) /\ ~Covers({}, disk, clocks, tombs, x)
          /\ g[x] = disk[x]
       \/ IsCopyOf(x, r, d) /\ Tombed(x)
       \/ /\ IsTarget(x, r) /\ r.path \in EditsIn(disk)
          /\ ~Covers({}, disk, clocks, tombs, r.path) /\ g[x] = disk[r.path]

\* The file operation leaves a file of content x at q, moved from a or new, and
\* all that is left to put is the clock c there.
LEMMA PlacedEdits ==
  ASSUME EditInv, NEW d, NEW r, NEW a, NEW q, NEW x, NEW c, NEW t,
         x.kind = "file" /\ q \notin StagedPaths => x.edit \in Clock,
         EndsCovered(t, With(Without(disk, {a}), q, x), tombs),
         PutClock(q, c) \in OpsOf(t),
         \A op \in OpsOf(t) : op.do = "put_clock" => op = PutClock(q, c),
         \A op \in OpsOf(t) : op.path \in EditsIn(disk) \ {a, q} => op.do # "put_clock",
         a = q \/ a \in StagedPaths \/ x = disk[a],
         q \in EditsIn(disk) /\ Covers({}, disk, clocks, tombs, q) =>
           Leq(disk[q].edit, r.clock) \/ IsTarget(q, r) \/ IsCopyOf(q, r, d),
         \/ /\ x.kind = "file" /\ q \notin StagedPaths => Leq(x.edit, c)
            /\ \/ ClockIn(tombs, q) # EmptyClock => DropTomb(q) \in OpsOf(t)
               \/ IsCopyOf(q, r, d) /\ Tombed(q)
         \/ /\ IsTarget(q, r) /\ a = r.path /\ a \in EditsIn(disk) /\ x = disk[a]
            /\ ~Covers({}, disk, clocks, tombs, a)
  PROVE  Begun(With(Without(disk, {a}), q, x), t, d, r)
<1>. DEFINE g == With(Without(disk, {a}), q, x)
<1>1. q \in DOMAIN g /\ g[q] = x
  BY DEF With
<1>2. \A y \in DOMAIN disk : y \notin {a, q} => y \in DOMAIN g /\ g[y] = disk[y]
  BY DEF With, Without
<1>3. \A y \in EditsIn(g) : y # q => y \in EditsIn(disk) \ {a, q} /\ g[y] = disk[y]
  BY DEF EditsIn, With, Without
<1>4. q \in EditsIn(g) => x.kind = "file" /\ q \notin StagedPaths
  BY <1>1 DEF EditsIn
<1>. HIDE DEF g
<1>5. \A y \in EditsIn(g) : g[y].edit \in Clock
  BY <1>1, <1>3, <1>4 DEF EditInv
<1>6. ASSUME NEW y \in EditsIn(disk), Covers({}, disk, clocks, tombs, y)
      PROVE  Lives(y, g, d, r)
  <2>1. y \in DOMAIN disk /\ y \notin StagedPaths
    BY DEF EditsIn
  <2>2. CASE y \notin {a, q}
    BY <1>2, <2>1, <2>2 DEF Lives
  <2>3. CASE y = q
    BY <1>6, <2>3 DEF Lives
  <2>4. CASE y = a /\ y # q
    BY <1>1, <2>1, <2>4 DEF Lives
  <2>. QED
    BY <2>2, <2>3, <2>4
<1>7. ASSUME NEW y \in EditsIn(g), y # q
      PROVE  \/ Covers(OpsOf(t), g, clocks, tombs, y)
             \/ /\ y \in EditsIn(disk) /\ ~Covers({}, disk, clocks, tombs, y)
                /\ g[y] = disk[y]
  <2>1. y \in EditsIn(disk) \ {a, q} /\ g[y] = disk[y]
    BY <1>3, <1>7
  <2>2. ASSUME Covers({}, disk, clocks, tombs, y)
        PROVE  Covers(OpsOf(t), g, clocks, tombs, y)
    <3>1. Leq(disk[y].edit, ClockIn(clocks, y)) /\ ClockIn(tombs, y) = EmptyClock
      BY <2>2, CoversPlainly
    <3>2. \A op \in OpsOf(t) : ~Does(op, "put_clock", y)
      BY <2>1 DEF Does
    <3>. QED
      BY <2>1, <3>1, <3>2 DEF Covers
  <2>. QED
    BY <2>1, <2>2
<1>8. ASSUME q \in EditsIn(g)
      PROVE  \/ Covers(OpsOf(t), g, clocks, tombs, q)
             \/ IsCopyOf(q, r, d) /\ Tombed(q)
             \/ /\ IsTarget(q, r) /\ r.path \in EditsIn(disk)
                /\ ~Covers({}, disk, clocks, tombs, r.path) /\ g[q] = disk[r.path]
  <2>1. ASSUME Leq(x.edit, c), ClockIn(tombs, q) # EmptyClock => DropTomb(q) \in OpsOf(t)
        PROVE  Covers(OpsOf(t), g, clocks, tombs, q)
    <3>1. Leq(g[q].edit, c) /\ \A op \in OpsOf(t) : Does(op, "put_clock", q) => op = PutClock(q, c)
      BY <1>1, <2>1 DEF Does
    <3>. QED
      BY <2>1, <3>1, CoversByPut
  <2>. QED
    BY <1>1, <1>4, <1>8, <2>1
<1>. QED
  BY <1>5, <1>6, <1>7, <1>8 DEF Begun, g

\* The clock and the tombstone that a write puts and drops.
PutsLast(q, c, t) == t = <<PutClock(q, c)>> \/ t = <<DropTomb(q), PutClock(q, c)>>

LEMMA WriteEnds ==
  ASSUME NEW q, NEW c, NEW t, NEW f, NEW ts, PutsLast(q, c, t)
  PROVE  /\ EndsCovered(t, f, ts)
         /\ PutClock(q, c) \in OpsOf(t)
         /\ \A op \in OpsOf(t) : op.path = q /\ (op.do = "put_clock" => op = PutClock(q, c))
         /\ t = <<DropTomb(q), PutClock(q, c)>> => DropTomb(q) \in OpsOf(t)
<1>1. /\ PutClock(q, c).do = "put_clock" /\ PutClock(q, c).path = q
      /\ DropTomb(q).do = "drop_tomb" /\ DropTomb(q).path = q
  BY OpFields
<1>2. CASE t = <<PutClock(q, c)>>
  <2>1. OpsOf(t) = {PutClock(q, c)} /\ DOMAIN t = {1} /\ Len(t) = 1
    BY <1>2, OpsOfShort
  <2>2. t # <<DropTomb(q), PutClock(q, c)>>
    BY <1>2
  <2>. QED
    BY <1>1, <2>1, <2>2 DEF EndsCovered
<1>3. CASE t = <<DropTomb(q), PutClock(q, c)>>
  <2>1. /\ OpsOf(t) = {DropTomb(q), PutClock(q, c)} /\ DOMAIN t = {1, 2} /\ Len(t) = 2
        /\ t[1] = DropTomb(q)
    BY <1>3, OpsOfShort
  <2>. QED
    BY <1>1, <2>1 DEF EndsCovered
<1>. QED
  BY <1>2, <1>3 DEF PutsLast

\* The write or stream at work puts its file in place.
LEMMA BeginWrite ==
  ASSUME EditInv, NEW d \in Device, NEW r, NEW s, CanStep(d, r, s),
         r.op \in {"write", "stream"}, r.clock \in Clock, TypeInv,
         r.op = "stream" => TempPath(r.path, d) \in StagedPaths,
         NEW q, NEW c, NEW t, PutsLast(q, c, t),
         s[1] = Store(d, r, q), Tail(s) = t, Leq(r.clock, c),
         \/ IsCopyOf(q, r, d)
         \/ IF ClockIn(tombs, q) = EmptyClock THEN Leq(ClockIn(clocks, q), r.clock)
                                            ELSE DropTomb(q) \in OpsOf(t),
         NEW g, g = DiskAfter(s[1])
  PROVE  Begun(g, t, d, r)
<1>. DEFINE x == File(r.clock, r.data)
<1>1. /\ s[1].do = "write" => g = With(disk, s[1].path, File(s[1].edit, s[1].data))
      /\ s[1].do = "move" => g = With(Without(disk, {s[1].path}), s[1].to, disk[s[1].path])
  BY DiskAfterIs DEF CanStep
<1>2. PICK a : g = With(Without(disk, {a}), q, x) /\ (a = q \/ a \in StagedPaths)
  <2>1. CASE r.op = "write"
    <3>1. s[1].do = "write" /\ s[1].path = q /\ s[1].edit = r.clock /\ s[1].data = r.data
      BY <2>1, OpFields DEF Store
    <3>2. g = With(disk, q, x)
      BY <1>1, <3>1
    <3>3. With(disk, q, x) = With(Without(disk, {q}), q, x)
      BY DEF With, Without
    <3>. QED
      BY <3>2, <3>3
  <2>2. CASE r.op = "stream"
    <3>1. s[1].do = "move" /\ s[1].path = TempPath(r.path, d) /\ s[1].to = q
      BY <2>2, OpFields DEF Store
    <3>2. OnDisk(s[1])
      BY <3>1, Zenon DEF OnDisk
    <3>3. StagedFor(d, r, s)
      BY Zenon DEF CanStep
    <3>4. disk[TempPath(r.path, d)] = x
      BY <2>2, <3>2, <3>3, Zenon DEF StagedFor
    <3>5. g = With(Without(disk, {TempPath(r.path, d)}), q, x)
      BY <1>1, <3>1, <3>4
    <3>. QED
      BY <2>2, <3>5
  <2>. QED
    BY <2>1, <2>2
<1>3. x.edit = r.clock
  BY DEF File
<1>. HIDE DEF x
<1>4. /\ EndsCovered(t, g, tombs) /\ PutClock(q, c) \in OpsOf(t)
      /\ \A op \in OpsOf(t) : op.path = q /\ (op.do = "put_clock" => op = PutClock(q, c))
  BY WriteEnds, Zenon
<1>5. ASSUME q \in EditsIn(disk), Covers({}, disk, clocks, tombs, q), ~IsCopyOf(q, r, d)
      PROVE  Leq(disk[q].edit, r.clock)
  <2>1. Leq(disk[q].edit, ClockIn(clocks, q)) /\ ClockIn(tombs, q) = EmptyClock
    BY <1>5, CoversPlainly
  <2>2. disk[q].edit \in Clock /\ ClockIn(clocks, q) \in Clock
    BY <1>5, StoredClockType DEF EditInv, TypeInv, TypeOK
  <2>. QED
    BY <1>5, <2>1, <2>2, LeqTransitive
<1>6. \/ ClockIn(tombs, q) # EmptyClock => DropTomb(q) \in OpsOf(t)
      \/ IsCopyOf(q, r, d) /\ Tombed(q)
  BY DEF Tombed, TombClock
<1>7. \A op \in OpsOf(t) : op.path \in EditsIn(disk) \ {a, q} => op.do # "put_clock"
  BY <1>4
<1>8. q \in EditsIn(disk) /\ Covers({}, disk, clocks, tombs, q) =>
        Leq(disk[q].edit, r.clock) \/ IsTarget(q, r) \/ IsCopyOf(q, r, d)
  BY <1>5
<1>9. Begun(With(Without(disk, {a}), q, x), t, d, r)
  <2>1. x.edit \in Clock /\ Leq(x.edit, c)
    BY <1>3
  <2>2. EndsCovered(t, With(Without(disk, {a}), q, x), tombs)
    BY <1>2, <1>4
  <2>. QED
    BY <1>2, <1>4, <1>6, <1>7, <1>8, <2>1, <2>2, PlacedEdits, Zenon
<1>. QED
  BY <1>2, <1>9

\* The delete at work removes its file.
LEMMA BeginDelete ==
  ASSUME EditInv, TypeInv, NEW d, NEW r, r.clock \in Clock, NEW p, NEW c, NEW t,
         t = <<PutTomb(p, c), DropClock(p)>>, Leq(ClockIn(clocks, p), r.clock),
         NEW g, g = Without(disk, {p})
  PROVE  Begun(g, t, d, r)
<1>1. \A x \in EditsIn(g) : x \in EditsIn(disk) \ {p} /\ g[x] = disk[x]
  BY DEF EditsIn, Without
<1>2. \A x \in EditsIn(disk) : x # p => x \in DOMAIN g /\ g[x] = disk[x]
  BY DEF EditsIn, Without
<1>3. /\ OpsOf(t) = {PutTomb(p, c), DropClock(p)} /\ DOMAIN t = {1, 2}
      /\ t[1] = PutTomb(p, c) /\ t[2] = DropClock(p)
  BY OpsOfShort
<1>4. \A op \in OpsOf(t) : op.path = p /\ op.do \in {"put_tomb", "drop_clock"}
  BY <1>3, OpFields
<1>5. p \notin EditsIn(g)
  BY <1>1
<1>6. EndsCovered(t, g, tombs)
  <2>1. \A i \in DOMAIN t : t[i].do # "put_clock"
    BY <1>3, OpFields
  <2>. QED
    BY <1>4, <1>5, <2>1 DEF EndsCovered
<1>7. ASSUME NEW x \in EditsIn(disk), Covers({}, disk, clocks, tombs, x)
      PROVE  Lives(x, g, d, r)
  <2>1. Leq(disk[x].edit, ClockIn(clocks, x))
    BY <1>7, CoversPlainly
  <2>2. disk[x].edit \in Clock /\ ClockIn(clocks, x) \in Clock
    BY StoredClockType DEF EditInv, TypeInv, TypeOK
  <2>3. x = p => Leq(disk[x].edit, r.clock)
    BY <2>1, <2>2, LeqTransitive
  <2>. QED
    BY <1>2, <2>3 DEF Lives
<1>8. ASSUME NEW x \in EditsIn(g)
      PROVE  Covers(OpsOf(t), g, clocks, tombs, x) <=> Covers({}, disk, clocks, tombs, x)
  <2>1. Covers(OpsOf(t), g, clocks, tombs, x) <=>
          Leq(g[x].edit, ClockIn(clocks, x)) /\ ClockIn(tombs, x) = EmptyClock
    BY <1>4, CoversPlainly
  <2>2. Covers({}, disk, clocks, tombs, x) <=>
          Leq(disk[x].edit, ClockIn(clocks, x)) /\ ClockIn(tombs, x) = EmptyClock
    BY CoversPlainly
  <2>. QED
    BY <1>1, <2>1, <2>2
<1>. QED
  BY <1>1, <1>6, <1>7, <1>8 DEF Begun, EditInv

\* The rename at work moves the file or, when there is none, writes an empty one.
LEMMA BeginRename ==
  ASSUME EditInv, TypeInv, NEW d, NEW r, r.op = "rename", NEW p, p = r.path, NEW to, to = r.to,
         NEW c \in Clock, NEW t, NEW a, NEW x,
         \/ /\ t = <<DropClock(p), DropTomb(to), PutClock(to, c)>> /\ a = p /\ x = disk[a]
            /\ a \in DOMAIN disk /\ a \notin StagedPaths /\ Leq(ClockIn(clocks, p), c)
         \/ /\ t = <<DropTomb(p), DropTomb(to), PutClock(to, c)>> /\ a = to
            /\ x.edit \in Clock /\ Leq(x.edit, c),
         NEW g, g = With(Without(disk, {a}), to, x)
  PROVE  Begun(g, t, d, r)
<1>1. /\ DOMAIN t = {1, 2, 3} /\ Len(t) = 3 /\ t[3] = PutClock(to, c) /\ t[2] = DropTomb(to)
      /\ \/ a = p /\ t[1] = DropClock(p) /\ OpsOf(t) = {DropClock(p), DropTomb(to), PutClock(to, c)}
         \/ a = to /\ t[1] = DropTomb(p) /\ OpsOf(t) = {DropTomb(p), DropTomb(to), PutClock(to, c)}
  BY OpsOfShort
<1>2. /\ PutClock(to, c) \in OpsOf(t) /\ DropTomb(to) \in OpsOf(t)
      /\ \A op \in OpsOf(t) : op.do # "put_tomb" /\ (op.do = "put_clock" => op = PutClock(to, c))
      /\ \A op \in OpsOf(t) : op.do = "drop_clock" => op.path = p /\ a = p
      /\ PutClock(to, c).path = to /\ PutClock(to, c).do = "put_clock"
  BY <1>1, OpFields
<1>3. p # to /\ a = p => p \notin EditsIn(g)
  BY DEF EditsIn, With, Without
<1>4. EndsCovered(t, g, tombs)
  <2>1. \A i \in DOMAIN t : t[i].do = "put_clock" => i = Len(t)
    BY <1>1, OpFields
  <2>2. \A op \in OpsOf(t) : op.do = "drop_clock" /\ op.path \in EditsIn(g) =>
          \E o \in OpsOf(t) : Does(o, "put_clock", op.path)
    BY <1>2, <1>3 DEF Does
  <2>. QED
    BY <1>2, <2>1, <2>2 DEF EndsCovered
<1>5. x.kind = "file" /\ to \notin StagedPaths => x.edit \in Clock
  BY DEF EditInv, EditsIn
<1>6. IsTarget(to, r)
  BY DEF IsTarget
<1>7. \/ /\ x.kind = "file" /\ to \notin StagedPaths => Leq(x.edit, c)
         /\ ClockIn(tombs, to) # EmptyClock => DropTomb(to) \in OpsOf(t)
      \/ /\ IsTarget(to, r) /\ a = r.path /\ a \in EditsIn(disk) /\ x = disk[a]
         /\ ~Covers({}, disk, clocks, tombs, a)
  <2>1. CASE x.edit \in Clock /\ Leq(x.edit, c)
    BY <1>2, <2>1
  <2>2. CASE /\ a = p /\ x = disk[a] /\ a \in DOMAIN disk /\ a \notin StagedPaths
             /\ Leq(ClockIn(clocks, p), c)
    <3>1. CASE x.kind = "file"
      <4>1. a \in EditsIn(disk)
        BY <2>2, <3>1 DEF EditsIn
      <4>2. x.edit \in Clock /\ ClockIn(clocks, p) \in Clock
        BY <2>2, <4>1, StoredClockType DEF EditInv, TypeInv, TypeOK
      <4>3. Covers({}, disk, clocks, tombs, a) => Leq(x.edit, ClockIn(clocks, p))
        BY <2>2, CoversPlainly
      <4>. QED
        BY <1>2, <1>6, <2>2, <4>1, <4>2, <4>3, LeqTransitive
    <3>2. CASE x.kind # "file"
      BY <1>2, <3>2
    <3>. QED
      BY <3>1, <3>2
  <2>. QED
    BY <2>1, <2>2
<1>8. \A op \in OpsOf(t) : op.path \in EditsIn(disk) \ {a, to} => op.do # "put_clock"
  BY <1>2
<1>9. a = to \/ a \in StagedPaths \/ x = disk[a]
  OBVIOUS
<1>10. EndsCovered(t, With(Without(disk, {a}), to, x), tombs)
  BY <1>4
<1>11. Begun(With(Without(disk, {a}), to, x), t, d, r)
  BY <1>2, <1>5, <1>6, <1>7, <1>8, <1>9, <1>10, PlacedEdits, Zenon
<1>. QED
  BY <1>11

\* The file operation of a plan that starts as it should keeps the edits.
LEMMA BeginEdits ==
  ASSUME EditInv, TypeInv, NEW d \in Device, NEW r, NEW s, CanStep(d, r, s), OnDisk(s[1]), IsPlan(s),
         StartsSeen(d, r, s, clocks, tombs), r.clock \in Clock, r.path \notin StagedPaths,
         r.op = "stream" => TempPath(r.path, d) \in StagedPaths,
         NEW g, g = DiskAfter(s[1])
  PROVE  Begun(g, Tail(s), d, r)
<1>1. /\ s[1].do = "write" => g = With(disk, s[1].path, File(s[1].edit, s[1].data))
      /\ s[1].do = "move" => g = With(Without(disk, {s[1].path}), s[1].to, disk[s[1].path])
      /\ s[1].do = "remove" => g = Without(disk, {s[1].path})
  BY DiskAfterIs DEF CanStep
<1>2. PICK c, q, y, p : c = s[Len(s)].clock /\ q = s[Len(s)].path /\ y = s[2].clock /\ p = r.path
  OBVIOUS
<1>3. CASE /\ r.op \in {"write", "stream"} /\ Leq(r.clock, c)
           /\ \/ s = <<Store(d, r, q), PutClock(q, c)>>
              \/ s = <<Store(d, r, q), DropTomb(q), PutClock(q, c)>>
           /\ \/ IsCopyOf(q, r, d)
              \/ q = p /\ IF ClockIn(tombs, p) = EmptyClock THEN Leq(ClockIn(clocks, p), r.clock)
                                                         ELSE DropTomb(p) \in OpsOf(s)
  <2>1. s[1] = Store(d, r, q)
    BY <1>3
  <2>2. PICK t : /\ Tail(s) = t
                 /\ \/ t = <<PutClock(q, c)>> /\ s = <<Store(d, r, q), PutClock(q, c)>>
                    \/ t = <<DropTomb(q), PutClock(q, c)>>
    <3>1. \/ Tail(s) = <<PutClock(q, c)>> /\ s = <<Store(d, r, q), PutClock(q, c)>>
          \/ Tail(s) = <<DropTomb(q), PutClock(q, c)>>
      <4>1. CASE s = <<Store(d, r, q), PutClock(q, c)>>
        BY <4>1, ShortPlans
      <4>2. CASE s = <<Store(d, r, q), DropTomb(q), PutClock(q, c)>>
        BY <4>2, ShortPlans
      <4>. QED
        BY <1>3, <4>1, <4>2
    <3>. QED
      BY <3>1, Zenon
  <2>3. DropTomb(q) \in OpsOf(s) => DropTomb(q) \in OpsOf(t)
    <3>1. CASE t = <<PutClock(q, c)>> /\ s = <<Store(d, r, q), PutClock(q, c)>>
      <4>1. OpsOf(s) = {Store(d, r, q), PutClock(q, c)}
        BY <3>1, OpsOfShort
      <4>2. DropTomb(q).do = "drop_tomb" /\ Store(d, r, q).do # "drop_tomb" /\ PutClock(q, c).do # "drop_tomb"
        BY OpFields DEF Store
      <4>. QED
        BY <4>1, <4>2
    <3>2. CASE t = <<DropTomb(q), PutClock(q, c)>>
      BY <3>2, OpsOfShort
    <3>. QED
      BY <2>2, <3>1, <3>2
  <2>4. \/ IsCopyOf(q, r, d)
        \/ IF ClockIn(tombs, q) = EmptyClock THEN Leq(ClockIn(clocks, q), r.clock)
                                           ELSE DropTomb(q) \in OpsOf(t)
    BY <1>3, <2>3
  <2>5. PutsLast(q, c, t)
    BY <2>2 DEF PutsLast
  <2>6. r.op \in {"write", "stream"} /\ Leq(r.clock, c)
    BY <1>3
  <2>7. Begun(g, t, d, r)
    BY <2>1, <2>2, <2>4, <2>5, <2>6, BeginWrite, Zenon
  <2>. QED
    BY <2>2, <2>7
<1>4. CASE /\ r.op = "delete" /\ s = <<RemoveFile(p), PutTomb(p, y), DropClock(p)>>
           /\ Leq(ClockIn(clocks, p), r.clock)
  <2>1. s[1] = RemoveFile(p) /\ Tail(s) = <<PutTomb(p, y), DropClock(p)>>
    BY <1>4, ShortPlans
  <2>2. s[1].do = "remove" /\ s[1].path = p
    BY <2>1, OpFields
  <2>3. g = Without(disk, {p})
    BY <1>1, <2>2
  <2>. QED
    BY <1>4, <2>1, <2>3, BeginDelete
<1>5. CASE /\ r.op = "rename" /\ Leq(ClockIn(clocks, p), c)
           /\ s = <<Move(p, r.to), DropClock(p), DropTomb(r.to), PutClock(r.to, c)>>
  <2>1. s[1] = Move(p, r.to) /\ Tail(s) = <<DropClock(p), DropTomb(r.to), PutClock(r.to, c)>>
    BY <1>5, ShortPlans
  <2>2. s[1].do = "move" /\ s[1].path = p /\ s[1].to = r.to
    BY <2>1, OpFields
  <2>3. g = With(Without(disk, {p}), r.to, disk[p])
    BY <1>1, <2>2
  <2>4. p \in DOMAIN disk /\ p \notin StagedPaths
    BY <1>2, <2>2, Zenon DEF CanStep, Possible, Exists
  <2>5. c \in Clock
    <3>1. 4 \in DOMAIN s /\ s[4] = PutClock(r.to, c)
      BY <1>5
    <3>. QED
      BY <3>1, OpFields DEF IsPlan
  <2>6. PICK t : t = Tail(s)
    OBVIOUS
  <2>7. t = <<DropClock(p), DropTomb(r.to), PutClock(r.to, c)>>
    BY <2>1, <2>6
  <2>8. Begun(g, t, d, r)
    BY <1>2, <1>5, <2>3, <2>4, <2>5, <2>7, BeginRename, Zenon
  <2>. QED
    BY <2>6, <2>8
<1>6. CASE /\ r.op = "rename"
           /\ s = <<WriteFile(r.to, EmptyClock, NoData), DropTomb(p), DropTomb(r.to), PutClock(r.to, c)>>
  <2>1. /\ s[1] = WriteFile(r.to, EmptyClock, NoData)
        /\ Tail(s) = <<DropTomb(p), DropTomb(r.to), PutClock(r.to, c)>>
    BY <1>6, ShortPlans
  <2>2. s[1].do = "write" /\ s[1].path = r.to /\ s[1].edit = EmptyClock /\ s[1].data = NoData
    BY <2>1, OpFields
  <2>3. With(disk, r.to, File(EmptyClock, NoData)) = With(Without(disk, {r.to}), r.to, File(EmptyClock, NoData))
    BY DEF With, Without
  <2>4. g = With(Without(disk, {r.to}), r.to, File(EmptyClock, NoData))
    BY <1>1, <2>2, <2>3
  <2>5. c \in Clock
    <3>1. 4 \in DOMAIN s /\ s[4] = PutClock(r.to, c)
      BY <1>6
    <3>. QED
      BY <3>1, OpFields DEF IsPlan
  <2>6. File(EmptyClock, NoData).edit \in Clock /\ Leq(File(EmptyClock, NoData).edit, c)
    BY <2>5, LeqBounds, EmptyClockType DEF File
  <2>7. PICK t : t = Tail(s)
    OBVIOUS
  <2>8. t = <<DropTomb(p), DropTomb(r.to), PutClock(r.to, c)>>
    BY <2>1, <2>7
  <2>9. Begun(g, t, d, r)
    BY <1>2, <1>6, <2>4, <2>5, <2>6, <2>8, BeginRename, Zenon
  <2>. QED
    BY <2>7, <2>9
<1>. QED
  BY <1>2, <1>3, <1>4, <1>5, <1>6, Zenon DEF StartsSeen

\* The other operations of a plan uncover nothing, and what is left of it will
\* uncover nothing.
LEMMA GoOnEdits ==
  ASSUME NEW s, IsPlan(s), s # <<>>, ~OnDisk(s[1]),
         s[1].do \notin {"rekey_clocks", "rekey_tombs"},
         s[1].do = "put_tomb" => s[1].clock # EmptyClock,
         EndsCovered(s, disk, tombs)
  PROVE  /\ EndsCovered(Tail(s), disk, TombsAfter(s[1]))
         /\ \A p \in EditsIn(disk) :
              Covers(OpsOf(s), disk, clocks, tombs, p) =>
                Covers(OpsOf(Tail(s)), disk, ClocksAfter(s[1]), TombsAfter(s[1]), p)
<1>. DEFINE op == s[1]
            t == Tail(s)
            cs == ClocksAfter(s[1])
            ts == TombsAfter(s[1])
<1>1. /\ Len(s) \in Nat \ {0} /\ DOMAIN s = 1..Len(s)
      /\ Len(t) = Len(s) - 1 /\ DOMAIN t = 1..(Len(s) - 1)
      /\ \A i \in 1..(Len(s) - 1) : t[i] = s[i + 1]
  BY TailPlan
<1>. HIDE DEF t
<1>2. op \in OpsOf(s) /\ OpsOf(t) \subseteq OpsOf(s)
  <2>1. 1 \in DOMAIN s /\ \A i \in DOMAIN t : i + 1 \in DOMAIN s /\ t[i] = s[i + 1]
    BY <1>1
  <2>. QED
    BY <2>1 DEF OpsOf
<1>3. \A x \in OpsOf(s) : x = op \/ x \in OpsOf(t)
  <2>1. \A i \in DOMAIN s : i = 1 \/ (i - 1 \in DOMAIN t /\ t[i - 1] = s[i])
    BY <1>1
  <2>. QED
    BY <2>1 DEF OpsOf
<1>4. op.do = "put_clock" => OpsOf(t) = {}
  <2>1. op.do = "put_clock" => Len(s) = 1
    BY <1>1 DEF EndsCovered, op
  <2>2. Len(s) = 1 => DOMAIN t = {}
    BY <1>1
  <2>. QED
    BY <2>1, <2>2 DEF OpsOf
<1>5. \A p : /\ op.path # p => ClockIn(cs, p) = ClockIn(clocks, p) /\ ClockIn(ts, p) = ClockIn(tombs, p)
             /\ op.do \notin {"put_clock", "drop_clock"} => cs = clocks
             /\ op.do \notin {"put_tomb", "drop_tomb"} => ts = tombs
             /\ Does(op, "put_clock", p) => ClockIn(cs, p) = op.clock
             /\ Does(op, "put_tomb", p) => ClockIn(ts, p) = op.clock
             /\ Does(op, "drop_tomb", p) => ClockIn(ts, p) = EmptyClock
  <2>1. \A p : op.path # p => ClockIn(cs, p) = ClockIn(clocks, p) /\ ClockIn(ts, p) = ClockIn(tombs, p)
    BY DEF ClocksAfter, TombsAfter, ClockIn, With, Without
  <2>2. /\ op.do \notin {"put_clock", "drop_clock"} => cs = clocks
        /\ op.do \notin {"put_tomb", "drop_tomb"} => ts = tombs
    BY DEF ClocksAfter, TombsAfter
  <2>. QED
    BY <2>1, <2>2, Effects DEF Does
<1>6. \A p : DropTomb(p).do = "drop_tomb" /\ DropTomb(p).path = p
  BY OpFields
<1>. HIDE DEF op, cs, ts
<1>7. ASSUME NEW i \in DOMAIN t, t[i].do = "put_clock"
      PROVE  i = Len(t)
  <2>1. i + 1 \in DOMAIN s /\ s[i + 1].do = "put_clock" /\ i \in Int
    BY <1>1, <1>7
  <2>2. i + 1 = Len(s)
    BY <2>1 DEF EndsCovered
  <2>. QED
    BY <1>1, <2>1, <2>2
<1>8. ASSUME NEW x \in OpsOf(t), x.path \in EditsIn(disk)
      PROVE  /\ x.do = "drop_clock" => \E o \in OpsOf(t) : Does(o, "put_clock", x.path)
             /\ x.do = "put_tomb" => /\ ClockIn(ts, x.path) # EmptyClock
                                     /\ \A o \in OpsOf(t) : ~Does(o, "drop_tomb", x.path)
  <2>1. ASSUME x.do = "drop_clock"
        PROVE  \E o \in OpsOf(t) : Does(o, "put_clock", x.path)
    <3>1. PICK o \in OpsOf(s) : Does(o, "put_clock", x.path)
      BY <1>2, <1>8, <2>1 DEF EndsCovered
    <3>. QED
      BY <1>3, <1>4, <3>1 DEF Does
  <2>2. ASSUME x.do = "put_tomb"
        PROVE  /\ ClockIn(ts, x.path) # EmptyClock
               /\ \A o \in OpsOf(t) : ~Does(o, "drop_tomb", x.path)
    <3>1. ClockIn(tombs, x.path) # EmptyClock /\ \A o \in OpsOf(s) : ~Does(o, "drop_tomb", x.path)
      BY <1>2, <1>8, <2>2 DEF EndsCovered
    <3>2. ClockIn(ts, x.path) # EmptyClock
      BY <1>2, <1>5, <3>1 DEF Does, op
    <3>. QED
      BY <1>2, <3>1, <3>2
  <2>. QED
    BY <2>1, <2>2
<1>9. EndsCovered(t, disk, ts)
  BY <1>7, <1>8 DEF EndsCovered
<1>10. ASSUME NEW p \in EditsIn(disk), Covers(OpsOf(s), disk, clocks, tombs, p)
       PROVE  Covers(OpsOf(t), disk, cs, ts, p)
  <2>1. ~Does(op, "put_tomb", p)
    <3>1. Does(op, "put_tomb", p) =>
            ClockIn(tombs, p) # EmptyClock /\ \A o \in OpsOf(s) : ~Does(o, "drop_tomb", p)
      BY <1>2, <1>10 DEF EndsCovered, Does
    <3>. QED
      BY <1>6, <1>10, <3>1 DEF Covers, Does
  <2>2. ClockIn(ts, p) # EmptyClock => DropTomb(p) \in OpsOf(t)
    <3>1. SUFFICES ASSUME ClockIn(ts, p) # EmptyClock
                   PROVE  DropTomb(p) \in OpsOf(t)
      OBVIOUS
    <3>2. ClockIn(tombs, p) # EmptyClock /\ op # DropTomb(p)
      BY <1>5, <1>6, <2>1, <3>1 DEF Does
    <3>. QED
      BY <1>3, <1>10, <3>2 DEF Covers
  <2>3. \A o \in OpsOf(t) : Does(o, "put_clock", p) => Leq(disk[p].edit, o.clock)
    BY <1>2, <1>10 DEF Covers
  <2>4. ASSUME \A o \in OpsOf(t) : ~Does(o, "put_clock", p)
        PROVE  Leq(disk[p].edit, ClockIn(cs, p))
    <3>1. CASE Does(op, "put_clock", p)
      <4>1. Leq(disk[p].edit, op.clock)
        BY <1>2, <1>10, <3>1 DEF Covers
      <4>. QED
        BY <1>5, <3>1, <4>1
    <3>2. CASE ~Does(op, "put_clock", p)
      <4>1. \A o \in OpsOf(s) : ~Does(o, "put_clock", p)
        BY <1>3, <2>4, <3>2
      <4>2. Leq(disk[p].edit, ClockIn(clocks, p))
        BY <1>10, <4>1 DEF Covers
      <4>3. ~Does(op, "drop_clock", p)
        BY <1>2, <1>10, <4>1 DEF EndsCovered, Does
      <4>. QED
        BY <1>5, <3>2, <4>2, <4>3 DEF Does
    <3>. QED
      BY <3>1, <3>2
  <2>. QED
    BY <2>2, <2>3, <2>4 DEF Covers
<1>. QED
  BY <1>9, <1>10 DEF op, t, cs, ts

\* What holds of the handler that carries out an operation.
LEMMA StepFacts ==
  ASSUME TypeInv, GoneInv, AnswerInv, NEW d \in Device, Step(d)
  PROVE  LET s == plan[d] IN
         /\ pc[d] = "locked" /\ lock = d /\ IsPlan(s) /\ s # <<>> /\ CanStep(d, req[d], s)
         /\ Tail(s) # <<>> => ~OnDisk(Tail(s)[1])
         /\ disk' = DiskAfter(s[1]) /\ clocks' = ClocksAfter(s[1]) /\ tombs' = TombsAfter(s[1])
         /\ req' = req /\ plan'[d] = Tail(s)
         /\ IF Tail(s) = <<>> THEN lock' = Unlocked /\ pc'[d] = "replied" ELSE lock' = d
         /\ \A e \in Device \ {d} : pc[e] # "locked" /\ pc'[e] = pc[e]
<1>. DEFINE s == plan[d]
            t == Tail(plan[d])
            r == req[d]
<1>1. /\ pc[d] = "locked" /\ lock = d /\ s # <<>> /\ IsPlan(s)
      /\ \A e \in Device \ {d} : pc[e] # "locked"
      /\ r \in Request /\ r.path \in Path \ {Root} /\ (r.op = "rename" => r.to \in Path \ {Root})
      /\ DOMAIN pc = Device /\ DOMAIN plan = Device
      /\ \A e \in Device : AnswersFor(e)
  BY OnePlan, RequestFields, AnswerInvIs DEF Step, TypeInv, TypeOK, Shape
<1>2. /\ Head(s) = s[1] /\ Len(s) \in Nat \ {0} /\ DOMAIN s = 1..Len(s)
      /\ Len(t) = Len(s) - 1 /\ IsPlan(t)
      /\ \A i \in 1..(Len(s) - 1) : t[i] = s[i + 1]
  BY <1>1, TailPlan
<1>3. /\ Possible(s[1]) /\ disk' = DiskAfter(s[1])
      /\ clocks' = ClocksAfter(s[1]) /\ tombs' = TombsAfter(s[1])
      /\ req' = req /\ plan'[d] = t /\ \A e \in Device \ {d} : pc'[e] = pc[e]
      /\ IF t = <<>> THEN lock' = Unlocked /\ pc'[d] = "replied" ELSE lock' = d
  BY <1>1, <1>2 DEF Step
<1>4. Spares(s) /\ Buries(s, RegularFiles, DOMAIN tombs)
  BY <1>1 DEF GoneInv, PlansBury
<1>. HIDE DEF s, t, r
<1>5. /\ 1 \in DOMAIN s
      /\ s[1].do = "move" => /\ s[1].path \in Path \ {Root} /\ s[1].to \in Path \ {Root}
                             /\ ~IsParent(s[1].path)
  BY <1>2, <1>4 DEF Spares, OnDisk
<1>6. t # <<>> => ~OnDisk(t[1])
  <2>1. t # <<>> => t[1] = s[2] /\ 2 \in DOMAIN s
    BY <1>2, TailPlan
  <2>. QED
    BY <1>4, <2>1 DEF Buries
<1>7. CanStep(d, r, s)
  <2>1. StagedFor(d, r, s)
    BY <1>1 DEF AnswersFor, HasStaged, StagedIn, StagedFor, r, s
  <2>. QED
    BY <1>1, <1>3, <1>5, <2>1 DEF CanStep, GoneInv
<1>. QED
  BY <1>1, <1>3, <1>6, <1>7 DEF s, t, r

\* One operation of a plan keeps every covered edit, but one that the request has
\* seen, renames something onto or puts a copy over, and uncovers none but as the
\* request may.
LEMMA StepEdits ==
  ASSUME TypeInv, Apart, GoneInv, AnswerInv, EditInv, StagedUnnamed, NEW d \in Device, Step(d)
  PROVE  EditInv' /\ CoveredStay /\ StayCovered
<1>. DEFINE s == plan[d]
            t == Tail(plan[d])
            r == req[d]
<1>1. /\ pc[d] = "locked" /\ lock = d /\ IsPlan(s) /\ s # <<>> /\ CanStep(d, r, s)
      /\ t # <<>> => ~OnDisk(t[1])
      /\ disk' = DiskAfter(s[1]) /\ clocks' = ClocksAfter(s[1]) /\ tombs' = TombsAfter(s[1])
      /\ req' = req /\ plan'[d] = t
      /\ IF t = <<>> THEN lock' = Unlocked /\ pc'[d] = "replied" ELSE lock' = d
      /\ \A e \in Device \ {d} : pc[e] # "locked" /\ pc'[e] = pc[e]
  BY StepFacts
<1>2. /\ r \in Request /\ r.clock \in Clock /\ r.path \notin StagedPaths
      /\ r.op = "stream" => TempPath(r.path, d) \in StagedPaths
  <2>1. r \in Request /\ now \in Nat \ {0}
    BY <1>1 DEF TypeInv, Shape, AnswerInv
  <2>. QED
    BY <2>1, RequestFields, StagedNames DEF StagedPaths
<1>3. /\ s[1].do \notin {"rekey_clocks", "rekey_tombs"}
      /\ s[1].do = "put_tomb" => s[1].clock # EmptyClock
  BY <1>1, TailPlan DEF Apart, PlansKeepApart, KeepsApart
<1>4. IF OnDisk(s[1]) THEN StartsSeen(d, r, s, clocks, tombs) ELSE EndsCovered(s, disk, tombs)
  BY <1>1 DEF EditInv
<1>5. \A e \in Device \ {d} : plan[e] = <<>> /\ plan'[e] = <<>>
  BY <1>1 DEF TypeInv, TypeOK, Shape, Step
<1>6. RestOf(plan) = IF OnDisk(s[1]) THEN {} ELSE OpsOf(s)
  BY <1>1, <1>5, RestIs
<1>7. RestOf(plan') = OpsOf(t)
  <2>1. CASE t = <<>>
    <3>1. RestOf(plan') = {}
      BY <1>1, <1>5, <2>1, NoRest
    <3>2. OpsOf(t) = {}
      BY <2>1 DEF OpsOf
    <3>. QED
      BY <3>1, <3>2
  <2>2. CASE t # <<>>
    BY <1>1, <1>5, <2>2, RestIs
  <2>. QED
    BY <2>1, <2>2
<1>. HIDE DEF s, t, r
<1>8. ASSUME \A x \in EditsIn(disk') : disk'[x].edit \in Clock, EndsCovered(t, disk', tombs')
      PROVE  EditInv'
  <2>1. ASSUME NEW e \in Device, pc'[e] = "locked"
        PROVE  IF OnDisk(plan'[e][1]) THEN StartsSeen(e, req'[e], plan'[e], clocks', tombs')
               ELSE EndsCovered(plan'[e], disk', tombs')
    <3>1. e = d /\ t # <<>>
      BY <1>1, <2>1
    <3>. QED
      BY <1>1, <1>8, <3>1
  <2>. QED
    BY <1>8, <2>1 DEF EditInv
<1>9. CASE OnDisk(s[1])
  <2>1. clocks' = clocks /\ tombs' = tombs
    BY <1>1, <1>9, Effects
  <2>2. Begun(disk', t, d, r)
    BY <1>1, <1>2, <1>4, <1>9, BeginEdits DEF s, t, r
  <2>3. \A x : Covered(x) <=> Covers({}, disk, clocks, tombs, x)
    BY <1>6, <1>9 DEF Covered
  <2>4. EditInv'
    BY <1>8, <2>1, <2>2 DEF Begun
  <2>5. CoveredStay
    BY <1>1, <2>2, <2>3 DEF Begun, CoveredStay, r
  <2>6. ASSUME NEW x \in EditsIn(disk')
        PROVE  \/ Covers(RestOf(plan'), disk', clocks', tombs', x)
               \/ WasBare(x, disk') \/ CameBare(x, disk', d, r)
    BY <1>7, <2>1, <2>2, <2>3 DEF Begun, WasBare, CameBare
  <2>. QED
    BY <1>1, <2>4, <2>5, <2>6 DEF StayCovered, r
<1>10. CASE ~OnDisk(s[1])
  <2>1. disk' = disk
    BY <1>1, <1>10, Effects
  <2>2. /\ EndsCovered(t, disk, tombs')
        /\ \A x \in EditsIn(disk) : Covers(OpsOf(s), disk, clocks, tombs, x) =>
             Covers(OpsOf(t), disk, clocks', tombs', x)
    BY <1>1, <1>3, <1>4, <1>10, GoOnEdits DEF s, t
  <2>3. EditInv'
    BY <1>8, <2>1, <2>2 DEF EditInv
  <2>4. CoveredStay
    BY <2>1 DEF CoveredStay, EditsIn
  <2>5. ASSUME NEW x \in EditsIn(disk')
        PROVE  Covers(RestOf(plan'), disk', clocks', tombs', x) \/ WasBare(x, disk')
    BY <1>6, <1>7, <1>10, <2>1, <2>2 DEF Covered, WasBare
  <2>. QED
    BY <2>3, <2>4, <2>5 DEF StayCovered
<1>. QED
  BY <1>9, <1>10

\* The handler that gets the lock starts with a plan that keeps the edits, or
\* gives it up with its staged copy.
LEMMA AcquireEdits ==
  ASSUME TypeInv, Apart, AnswerInv, EditInv, NoMkdir, StagedUnnamed, NEW d \in Device, Acquire(d)
  PROVE  EditInv' /\ CoveredStay /\ StayCovered
<1>. DEFINE r == req[d]
            s == Decide(d, req[d]).ops
<1>1. /\ r \in Request /\ r.op \in {"write", "stream", "delete", "rename"}
      /\ lock = Unlocked /\ UNCHANGED <<clocks, tombs, req, now>> /\ now # 0
      /\ DOMAIN plan = Device /\ DOMAIN pc = Device
      /\ \A e \in Device : pc[e] # "locked" /\ plan[e] = <<>>
  BY OnePlan DEF Acquire, LockFree, TypeInv, TypeOK, Shape, NoMkdir, Mutation, store, AnswerInv
<1>2. \/ disk' = WithoutTemp(disk, d) /\ plan' = plan /\ pc' = [pc EXCEPT ![d] = "replied"]
      \/ /\ disk' = disk /\ s # <<>> /\ plan' = [plan EXCEPT ![d] = s]
         /\ pc' = [pc EXCEPT ![d] = "locked"]
  BY Zenon DEF Acquire, Finish
<1>3. RestOf(plan) = {}
  BY <1>1, NoRest
<1>4. CASE disk' = WithoutTemp(disk, d) /\ plan' = plan /\ pc' = [pc EXCEPT ![d] = "replied"]
  <2>1. SameEdits(disk, disk')
    BY <1>1, <1>4, StagingEdits
  <2>2. \A e \in Device : pc'[e] # "locked"
    BY <1>1, <1>4
  <2>. QED
    BY <1>1, <1>4, <2>1, <2>2, QuietEdits
<1>5. CASE /\ disk' = disk /\ s # <<>> /\ plan' = [plan EXCEPT ![d] = s]
           /\ pc' = [pc EXCEPT ![d] = "locked"]
  <2>1. \/ OnDisk(s[1]) /\ StartsSeen(d, r, s, clocks, tombs)
        \/ /\ ~OnDisk(s[1]) /\ EndsCovered(s, disk, tombs)
           /\ \A op \in OpsOf(s) : op.do = "put_tomb"
    BY <1>1, <1>5, DecisionsStart
  <2>. HIDE DEF r, s
  <2>2. /\ plan'[d] = s /\ req'[d] = r
        /\ \A e \in Device \ {d} : pc'[e] # "locked" /\ plan'[e] = <<>>
    BY <1>1, <1>5 DEF r
  <2>3. RestOf(plan') = IF OnDisk(s[1]) THEN {} ELSE OpsOf(s)
    BY <1>5, <2>2, RestIs
  <2>4. EditInv'
    <3>1. ASSUME NEW e \in Device, pc'[e] = "locked"
          PROVE  IF OnDisk(plan'[e][1]) THEN StartsSeen(e, req'[e], plan'[e], clocks', tombs')
                 ELSE EndsCovered(plan'[e], disk', tombs')
      BY <1>1, <1>5, <2>1, <2>2, <3>1
    <3>. QED
      BY <1>5, <3>1 DEF EditInv
  <2>5. CoveredStay
    BY <1>5 DEF CoveredStay, EditsIn
  <2>6. ASSUME NEW x \in EditsIn(disk')
        PROVE  Covers(RestOf(plan'), disk', clocks', tombs', x) \/ WasBare(x, disk')
    <3>1. \A op \in RestOf(plan') : op.do = "put_tomb"
      BY <2>1, <2>3
    <3>2. Covers(RestOf(plan'), disk, clocks, tombs, x) <=>
            Leq(disk[x].edit, ClockIn(clocks, x)) /\ ClockIn(tombs, x) = EmptyClock
      BY <3>1, CoversPlainly
    <3>3. Covers({}, disk, clocks, tombs, x) <=>
            Leq(disk[x].edit, ClockIn(clocks, x)) /\ ClockIn(tombs, x) = EmptyClock
      BY CoversPlainly
    <3>. QED
      BY <1>1, <1>3, <1>5, <2>6, <3>2, <3>3 DEF WasBare, Covered
  <2>. QED
    BY <2>4, <2>5, <2>6 DEF StayCovered
<1>. QED
  BY <1>2, <1>4, <1>5

\* A handler that fails has done nothing to any edit.
LEMMA StepFailsEdits ==
  ASSUME TypeInv, EditInv, NEW d \in Device, StepFails(d)
  PROVE  EditInv' /\ CoveredStay /\ StayCovered
<1>1. /\ pc[d] = "locked" /\ req[d] \in Request /\ disk' = WithoutTemp(disk, d)
      /\ DOMAIN pc = Device /\ DOMAIN plan = Device
      /\ plan[d] # <<>> /\ IsPlan(plan[d]) /\ ~Possible(Head(plan[d]))
      /\ pc' = [pc EXCEPT ![d] = "replied"] /\ UNCHANGED <<clocks, tombs>>
      /\ plan' = [plan EXCEPT ![d] = <<>>]
      /\ \A e \in Device \ {d} : pc[e] # "locked" /\ plan[e] = <<>>
  BY OnePlan DEF StepFails, Finish, store, TypeInv, TypeOK, Shape
<1>2. SameEdits(disk, disk')
  BY <1>1, StagingEdits
<1>3. OnDisk(plan[d][1])
  <2>1. ~Possible(plan[d][1])
    BY <1>1, TailPlan
  <2>. QED
    BY <2>1, Zenon DEF Possible, OnDisk
<1>4. RestOf(plan) = {}
  BY <1>1, <1>3, RestIs
<1>5. RestOf(plan') = {}
  BY <1>1, NoRest
<1>6. \A e \in Device : pc'[e] # "locked"
  BY <1>1
<1>. QED
  BY <1>1, <1>2, <1>4, <1>5, <1>6, QuietEdits

\* The collector takes clocks and tombstones while nobody is at work.
LEMMA GcEdits ==
  ASSUME TypeInv, EditInv, Gc
  PROVE  EditInv' /\ CoveredStay /\ StayCovered
<1>1. /\ UNCHANGED <<disk, lock, pc, req, plan>>
      /\ \A p \in DOMAIN clocks' : p \in DOMAIN clocks /\ clocks'[p] = clocks[p]
      /\ \A p \in DOMAIN tombs' : p \in DOMAIN tombs /\ tombs'[p] = tombs[p]
  BY GcOnlyRemoves DEF rpc
<1>2. SameEdits(disk, disk')
  BY <1>1 DEF SameEdits, EditsIn
<1>3. CASE UNCHANGED <<clocks, tombs>>
  BY <1>1, <1>2, <1>3, QuietEdits
<1>4. CASE LockFree
  <2>1. \A e \in Device : pc'[e] # "locked" /\ plan[e] = <<>>
    <3>1. \A e \in Device : lock # e
      BY <1>4, FileHostAssumption DEF LockFree
    <3>. QED
      BY <1>1, <3>1 DEF TypeInv, TypeOK
  <2>2. RestOf(plan) = {} /\ RestOf(plan') = {}
    BY <1>1, <2>1, NoRest
  <2>3. EditInv'
    BY <1>1, <1>2, <2>1 DEF EditInv, SameEdits
  <2>4. CoveredStay
    BY <1>1 DEF CoveredStay, EditsIn
  <2>5. ASSUME NEW x \in EditsIn(disk')
        PROVE  Covers(RestOf(plan'), disk', clocks', tombs', x) \/ WasBare(x, disk') \/ Collected(x)
    <3>1. SUFFICES ASSUME Covered(x), ~Collected(x)
                   PROVE  Covers({}, disk, clocks', tombs', x)
      BY <1>1, <1>2, <2>2 DEF WasBare, SameEdits
    <3>2. Leq(disk[x].edit, ClockIn(clocks, x)) /\ ClockIn(tombs, x) = EmptyClock
      BY <2>2, <3>1, CoversPlainly DEF Covered
    <3>3. ClockIn(clocks', x) = ClockIn(clocks, x)
      BY <1>1, <1>4, <3>1 DEF Collected, LockFree, ClockIn
    <3>4. ClockIn(tombs', x) = EmptyClock
      BY <1>1, <3>2 DEF ClockIn
    <3>. QED
      BY <3>2, <3>3, <3>4, CoversPlainly
  <2>. QED
    BY <2>3, <2>4, <2>5 DEF StayCovered
<1>. QED
  BY <1>3, <1>4, GcUnderLock

\* Every step does to the edits what the two properties say.
LEMMA NextEdits ==
  ASSUME NoMkdir, NoFailures, StagedUnnamed, TypeInv, Apart, GoneInv, AnswerInv, EditInv, [Next]_vars
  PROVE  EditInv' /\ CoveredStay /\ StayCovered
<1>. DEFINE Done == EditInv' /\ CoveredStay /\ StayCovered
<1>0. DOMAIN pc = Device /\ DOMAIN plan = Device /\ DOMAIN req = Device
  BY DEF TypeInv, TypeOK, Shape
<1>1. ASSUME NEW d \in Device, EnsureParent(d) \/ Stage(d)
      PROVE  Done
  <2>1. /\ UNCHANGED <<clocks, tombs, plan, req>>
        /\ pc'[d] # "locked" /\ \A e \in Device \ {d} : pc'[e] = pc[e]
    BY <1>0, <1>1 DEF EnsureParent, Stage, Finish, store
  <2>2. SameEdits(disk, disk')
    BY <1>1, StagingEdits
  <2>. QED
    BY <2>1, <2>2, QuietEdits
<1>2. ASSUME UNCHANGED disk
      PROVE  SameEdits(disk, disk')
  BY <1>2 DEF SameEdits, EditsIn
<1>3. ASSUME NEW d \in Device, Look(d)
      PROVE  Done
  <2>1. /\ UNCHANGED <<disk, clocks, tombs, plan, req>>
        /\ pc'[d] # "locked" /\ \A e \in Device \ {d} : pc'[e] = pc[e]
    BY <1>0, <1>3 DEF Look, StatFile, StatClock, ReadFile, ListDir, Finish, store
  <2>. QED
    BY <1>2, <2>1, QuietEdits
<1>4. ASSUME NEW d \in Device, Acquire(d)
      PROVE  Done
  BY <1>4, AcquireEdits
<1>5. ASSUME NEW d \in Device, Step(d)
      PROVE  Done
  BY <1>5, StepEdits
<1>6. ASSUME NEW d \in Device, StepFails(d)
      PROVE  Done
  BY <1>6, StepFailsEdits
<1>7. ASSUME NEW d \in Device, NEW r \in Request, Submit(d, r)
      PROVE  Done
  <2>1. /\ UNCHANGED <<disk, clocks, tombs, plan>>
        /\ pc'[d] # "locked" /\ \A e \in Device \ {d} : pc'[e] = pc[e] /\ req'[e] = req[e]
    BY <1>0, <1>7 DEF Submit, store
  <2>. QED
    BY <1>2, <2>1, QuietEdits
<1>8. ASSUME NEW d \in Device, Return(d)
      PROVE  Done
  <2>1. /\ UNCHANGED <<disk, clocks, tombs>> /\ pc[d] = "replied" /\ pc'[d] # "locked"
        /\ \A e \in Device \ {d} : pc'[e] = pc[e] /\ req'[e] = req[e]
        /\ plan' = [plan EXCEPT ![d] = <<>>]
    BY <1>0, <1>8 DEF Return, Forget, store
  <2>2. \A e \in Device : plan'[e] = plan[e]
    BY <1>0, <2>1 DEF TypeInv, TypeOK
  <2>3. RestOf(plan') = RestOf(plan)
    BY <2>2 DEF RestOf
  <2>. QED
    BY <1>2, <2>1, <2>2, <2>3, QuietEdits
<1>9. ASSUME Gc
      PROVE  Done
  BY <1>9, GcEdits
<1>10. ASSUME Second \/ UNCHANGED vars
      PROVE  Done
  <2>1. UNCHANGED <<disk, clocks, tombs, lock, pc, req, plan>>
    BY <1>10 DEF Second, vars, store, rpc
  <2>. QED
    BY <1>2, <2>1, QuietEdits
<1>11. ~Crash /\ (\A d \in Device : ~Disconnect(d)) /\ (\A op \in detached : ~Detached(op))
  BY DEF Disconnect, Crash, NoFailures, GoneInv
<1>. HIDE DEF Done
<1>12. Done
  <2>1. \/ \E d \in Device : EnsureParent(d) \/ Stage(d)
        \/ \E d \in Device : Look(d)
        \/ \E d \in Device : Acquire(d)
        \/ \E d \in Device : Step(d)
        \/ \E d \in Device : StepFails(d)
        \/ \E d \in Device : \E r \in Request : Submit(d, r)
        \/ \E d \in Device : Return(d)
        \/ Gc \/ Second \/ UNCHANGED vars
    BY <1>11, Zenon DEF Next, Serve, Handle
  <2>. QED
    BY <1>1, <1>3, <1>4, <1>5, <1>6, <1>7, <1>8, <1>9, <1>10, <2>1, Zenon
<1>. QED
  BY <1>12 DEF Done

LEMMA InitEdits == Init => EditInv
<1>. SUFFICES ASSUME Init PROVE EditInv
  OBVIOUS
<1>1. \A p \in EditsIn(disk) : disk[p].edit \in Clock
  BY EmptyClockType DEF Init, EditsIn, Dir, File
<1>2. \A d \in Device : pc[d] # "locked"
  BY DEF Init
<1>. QED
  BY <1>1, <1>2 DEF EditInv

\* The inductive invariant behind the two properties, and what each step does.
GuardInv == OneStoreInv /\ GoneInv /\ AnswerInv /\ EditInv

LEMMA GuardSteps ==
  ASSUME NoMkdir, EditsTicked, MovesOnlyFiles, NoFailures, StagedUnnamed
  PROVE  /\ Init => GuardInv
         /\ GuardInv /\ [Next]_vars => GuardInv' /\ CoveredStay /\ StayCovered
<1>1. NoCrash
  BY DEF NoCrash, NoFailures
<1>2. Init => GuardInv
  BY InitType, InitApart, InitGone, InitAnswers, InitEdits DEF OneStoreInv, Apart, GuardInv
<1>3. GuardInv /\ [Next]_vars => GuardInv' /\ CoveredStay /\ StayCovered
  BY <1>1, NextType, NextApart, NextGone, NextAnswers, NextEdits DEF OneStoreInv, Apart, GuardInv
<1>. QED
  BY <1>2, <1>3

\* A file that is not a staged copy, by its name, holds an edit for good.
LEMMA NamedEdits ==
  ASSUME StagedUnnamed, GuardInv, NEW f, NEW p \in DOMAIN f, f[p].kind = "file", ~IsTemp(p)
  PROVE  p \in EditsIn(f)
<1>1. now \in Nat \ {0}
  BY DEF GuardInv, OneStoreInv, TypeInv, Shape, AnswerInv
<1>. QED
  BY <1>1, StagedNames DEF EditsIn

\* For every set of devices and requests: no edit that the host can weigh goes,
\* whatever the collector has done, but to a request that has seen it, that
\* renames something onto it or that puts its conflict copy there, as long as
\* nothing fails in the middle, directories are neither made nor moved and no
\* client names a staged file (write_file, write_file_stream, delete_file,
\* rename_file).
THEOREM CoveredEditsKept ==
  NoMkdir /\ EditsTicked /\ MovesOnlyFiles /\ NoFailures /\ StagedUnnamed =>
    (Spec => CoveredEditsSurvive)
<1>. SUFFICES ASSUME NoMkdir, EditsTicked, MovesOnlyFiles, NoFailures, StagedUnnamed
              PROVE  Spec => CoveredEditsSurvive
  OBVIOUS
<1>1. Init => GuardInv
  BY GuardSteps
<1>2. GuardInv /\ [Next]_vars => GuardInv'
  BY GuardSteps
<1>3. GuardInv /\ [Next]_vars =>
        [\A p \in DOMAIN disk : IsFile(p) /\ ~IsTemp(p) /\ Covered(p) =>
           \/ \E q \in DOMAIN disk' : disk'[q] = disk[p]
           \/ \E d \in Device : /\ lock = d
                                /\ \/ Leq(disk[p].edit, req[d].clock)
                                   \/ IsTarget(p, req[d]) \/ IsCopyOf(p, req[d], d)]_vars
  <2>. SUFFICES ASSUME GuardInv, [Next]_vars, NEW p \in DOMAIN disk,
                       IsFile(p), ~IsTemp(p), Covered(p)
                PROVE  \/ \E q \in DOMAIN disk' : disk'[q] = disk[p]
                       \/ \E d \in Device : /\ lock = d
                                            /\ \/ Leq(disk[p].edit, req[d].clock)
                                               \/ IsTarget(p, req[d]) \/ IsCopyOf(p, req[d], d)
    OBVIOUS
  <2>1. p \in EditsIn(disk)
    BY NamedEdits DEF IsFile
  <2>2. CoveredStay
    BY GuardSteps
  <2>. QED
    BY <2>1, <2>2 DEF CoveredStay, Lives
<1>. QED
  BY <1>1, <1>2, <1>3, PTL DEF Spec, CoveredEditsSurvive

\* For every set of devices and requests: the host is left with an edit that it
\* cannot weigh by a batch of the collector, or by a conflict copy on a name that
\* was deleted, and by nothing else, as long as nothing fails in the middle,
\* directories are neither made nor moved and no client names a staged file
\* (write_file, write_file_stream, delete_file, rename_file, gc_remove_batch).
THEOREM EditsKeptCovered ==
  NoMkdir /\ EditsTicked /\ MovesOnlyFiles /\ NoFailures /\ StagedUnnamed =>
    (Spec => EditsStayCovered)
<1>. SUFFICES ASSUME NoMkdir, EditsTicked, MovesOnlyFiles, NoFailures, StagedUnnamed
              PROVE  Spec => EditsStayCovered
  OBVIOUS
<1>1. Init => GuardInv
  BY GuardSteps
<1>2. GuardInv /\ [Next]_vars => GuardInv'
  BY GuardSteps
<1>3. GuardInv /\ [Next]_vars =>
        [\A p \in DOMAIN disk' : IsFile(p)' /\ ~IsTemp(p) =>
           \/ Covered(p)'
           \/ IsFile(p) /\ ~Covered(p) /\ disk'[p] = disk[p]
           \/ Collected(p)
           \/ \E d \in Device :
                /\ lock = d
                /\ \/ FollowsTo(p, req[d], plan[d])
                   \/ IsCopyOf(p, req[d], d) /\ Tombed(p)
                   \/ LET q == req[d].path IN
                        IsTarget(p, req[d]) /\ IsFile(q) /\ ~Covered(q) /\ disk'[p] = disk[q]]_vars
  <2>. SUFFICES ASSUME GuardInv, [Next]_vars, NEW p \in DOMAIN disk', IsFile(p)', ~IsTemp(p)
                PROVE  \/ Covered(p)'
                       \/ IsFile(p) /\ ~Covered(p) /\ disk'[p] = disk[p]
                       \/ Collected(p)
                       \/ \E d \in Device :
                            /\ lock = d
                            /\ \/ FollowsTo(p, req[d], plan[d])
                               \/ IsCopyOf(p, req[d], d) /\ Tombed(p)
                               \/ LET q == req[d].path IN
                                    IsTarget(p, req[d]) /\ IsFile(q) /\ ~Covered(q) /\ disk'[p] = disk[q]
    OBVIOUS
  <2>1. p \in EditsIn(disk')
    BY NamedEdits DEF IsFile
  <2>2. StayCovered
    BY GuardSteps
  <2>3. \A q \in EditsIn(disk) : IsFile(q)
    BY DEF EditsIn, IsFile, Exists
  <2>4. \/ Covers(RestOf(plan'), disk', clocks', tombs', p)
        \/ WasBare(p, disk')
        \/ Collected(p)
        \/ \E d \in Device : lock = d /\ CameBare(p, disk', d, req[d])
    BY <2>1, <2>2 DEF StayCovered
  <2>. QED
    BY <2>3, <2>4 DEF Covered, WasBare, CameBare
<1>. QED
  BY <1>1, <1>2, <1>3, PTL DEF Spec, EditsStayCovered

=============================================================================
