--------------------------- MODULE NexusMountProofs ---------------------------
(***************************************************************************)
(* The two maps of an inode table stay inverses of each other, for every   *)
(* capacity, every number of mounts and files and whatever the host and    *)
(* the connection do, and its LRU has each inode once and no more of them  *)
(* than its capacity.                                                      *)
(*                                                                         *)
(* A device is always ahead of what others have heard of its own changes:  *)
(* AheadInv says where every clock is between the device that counts a     *)
(* change and the stores, plans and answers of the host and the other      *)
(* devices that hear of it, and each step of the host or of a mount keeps  *)
(* it.                                                                     *)
(*                                                                         *)
(* No saved edit goes unseen, and what is saved stays: SeenInv, which is   *)
(* AllSeen of a system that is whole, follows the edits from the buffers   *)
(* through the staged copies and the plans to the files, and says who      *)
(* knows of each of them by the clocks that he has heard.                  *)
(***************************************************************************)
EXTENDS NexusMount, FileHostProofs, FunctionTheorems, FiniteSetTheorems

-----------------------------------------------------------------------------
(* The order of the LRU.                                                    *)

\* s has each member of S once, and nothing else.
Listed(s, S) ==
  /\ s \in Seq(S)
  /\ \A j, k \in 1..Len(s) : s[j] = s[k] => j = k
  /\ \A i \in S : \E k \in 1..Len(s) : s[k] = i

\* An order is as long as the set is large.
LEMMA OrderCounts ==
  ASSUME NEW s, NEW S, Listed(s, S)
  PROVE  IsFiniteSet(S) /\ Cardinality(S) = Len(s)
<1>1. s \in [1..Len(s) -> S] /\ Len(s) \in Nat
  BY DEF Listed
<1>2. s \in Bijection(1..Len(s), S)
  <2>1. s \in Injection(1..Len(s), S)
    BY <1>1, Fun_IsInj DEF Listed
  <2>2. s \in Surjection(1..Len(s), S)
    BY <1>1, Fun_IsSurj DEF Listed
  <2>. QED
    BY <2>1, <2>2, Fun_IsBij
<1>3. IsFiniteSet(1..Len(s)) /\ Cardinality(1..Len(s)) = Len(s)
  <2>1. /\ IsFiniteSet(1..Len(s))
        /\ Cardinality(1..Len(s)) = IF 1 > Len(s) THEN 0 ELSE Len(s) - 1 + 1
    BY <1>1, FS_Interval
  <2>. QED
    BY <1>1, <2>1
<1>4. ExistsBijection(1..Len(s), S)
  BY <1>2, Fun_ExistsBij
<1>. QED
  BY <1>3, <1>4, FS_Bijection

\* Without one of its members, the order has the others.
LEMMA DroppedOrder ==
  ASSUME NEW s, NEW S, Listed(s, S), NEW i \in S
  PROVE  Listed(Dropped(s, i), S \ {i}) /\ Len(Dropped(s, i)) = Len(s) - 1
<1>1. /\ Len(s) \in Nat /\ DOMAIN s = 1..Len(s)
      /\ \A j \in 1..Len(s) : s[j] \in S
      /\ \A j, k \in 1..Len(s) : s[j] = s[k] => j = k
  BY DEF Listed
<1>2. PICK k \in 1..Len(s) : s[k] = i
  BY DEF Listed
<1>. DEFINE d == [j \in 1..(Len(s) - 1) |-> IF j < k THEN s[j] ELSE s[j + 1]]
<1>3. (CHOOSE m \in DOMAIN s : s[m] = i) = k
  BY <1>1, <1>2
<1>4. Dropped(s, i) = d
  BY <1>1, <1>2, <1>3 DEF Dropped
<1>5. Len(s) - 1 \in Nat
  BY <1>1, <1>2
<1>6. \A j \in 1..(Len(s) - 1) : d[j] \in S \ {i}
  BY <1>1, <1>2, <1>5
<1>7. d \in Seq(S \ {i}) /\ Len(d) = Len(s) - 1
  BY <1>5, <1>6
<1>8. \A j, m \in 1..(Len(s) - 1) : d[j] = d[m] => j = m
  BY <1>1, <1>2, <1>5
<1>9. ASSUME NEW x \in S \ {i} PROVE \E j \in 1..(Len(s) - 1) : d[j] = x
  <2>1. PICK m \in 1..Len(s) : s[m] = x
    BY DEF Listed
  <2>2. m # k
    BY <1>2, <2>1
  <2>3. CASE m < k
    <3>1. m \in 1..(Len(s) - 1) /\ d[m] = x
      BY <1>1, <1>2, <1>5, <2>1, <2>3
    <3>. QED
      BY <3>1
  <2>4. CASE m > k
    <3>1. m - 1 \in 1..(Len(s) - 1) /\ ~(m - 1 < k) /\ (m - 1) + 1 = m
      BY <1>1, <1>2, <1>5, <2>4
    <3>2. d[m - 1] = x
      BY <2>1, <3>1
    <3>. QED
      BY <3>1, <3>2
  <2>. QED
    BY <1>1, <2>2, <2>3, <2>4
<1>. HIDE DEF d
<1>. QED
  BY <1>4, <1>7, <1>8, <1>9 DEF Listed

\* What is not in the order leaves it as it is.
LEMMA DroppedOther ==
  ASSUME NEW s, NEW S, Listed(s, S), NEW i, i \notin S
  PROVE  Dropped(s, i) = s
  BY DEF Dropped, Listed

\* With a new member at its end, the order has that too.
LEMMA AppendOrder ==
  ASSUME NEW s, NEW S, Listed(s, S), NEW i, i \notin S
  PROVE  Listed(Append(s, i), S \cup {i}) /\ Len(Append(s, i)) = Len(s) + 1
<1>1. /\ Len(s) \in Nat
      /\ \A j \in 1..Len(s) : s[j] \in S
      /\ \A j, k \in 1..Len(s) : s[j] = s[k] => j = k
      /\ s \in Seq(S \cup {i})
  BY DEF Listed
<1>2. /\ Append(s, i) \in Seq(S \cup {i}) /\ Len(Append(s, i)) = Len(s) + 1
      /\ \A j \in 1..Len(s) : Append(s, i)[j] = s[j]
      /\ Append(s, i)[Len(s) + 1] = i
  BY <1>1
<1>3. \A j \in 1..(Len(s) + 1) : j \in 1..Len(s) \/ j = Len(s) + 1
  BY <1>1
<1>4. \A j, k \in 1..(Len(s) + 1) : Append(s, i)[j] = Append(s, i)[k] => j = k
  BY <1>1, <1>2, <1>3
<1>5. ASSUME NEW x \in S \cup {i} PROVE \E k \in 1..(Len(s) + 1) : Append(s, i)[k] = x
  <2>1. CASE x = i
    BY <1>1, <1>2, <2>1
  <2>2. CASE x \in S
    <3>1. PICK k \in 1..Len(s) : s[k] = x
      BY <2>2 DEF Listed
    <3>. QED
      BY <1>1, <1>2, <3>1
  <2>. QED
    BY <2>1, <2>2
<1>. QED
  BY <1>2, <1>4, <1>5 DEF Listed

\* The table keeps to its capacity, and the order is that of its inodes.
InOrder(t) == Listed(t.recent, DOMAIN t.paths) /\ Len(t.recent) <= Capacity

\* What a table keeps in order is bounded as the code means it.
LEMMA KeptBounded ==
  ASSUME NEW t, InOrder(t)
  PROVE  Bounded(t)
<1>1. Cardinality(DOMAIN t.paths) = Len(t.recent)
  BY OrderCounts DEF InOrder
<1>2. {t.recent[k] : k \in DOMAIN t.recent} = DOMAIN t.paths
  BY DEF InOrder, Listed
<1>. QED
  BY <1>1, <1>2 DEF InOrder, Bounded

-----------------------------------------------------------------------------
(* The operations of a table.                                               *)

IsTable(t) ==
  t = [next |-> t.next, paths |-> t.paths, inos |-> t.inos, recent |-> t.recent,
       dirs |-> t.dirs]

SoundTable(t) == IsTable(t) /\ Agrees(t) /\ InOrder(t)

\* What Agrees says depends on these fields only.
LEMMA AgreesFrame ==
  ASSUME NEW s, NEW t, Agrees(s), t.next = s.next, t.paths = s.paths, t.inos = s.inos
  PROVE  Agrees(t)
  BY DEF Agrees

\* Being used changes nothing but an inode's place in the order.
LEMMA TouchFacts ==
  ASSUME NEW t, NEW i, IsTable(t), InOrder(t)
  PROVE  /\ IsTable(Touch(t, i)) /\ InOrder(Touch(t, i))
         /\ Touch(t, i).next = t.next /\ Touch(t, i).paths = t.paths
         /\ Touch(t, i).inos = t.inos
<1>1. CASE i \notin DOMAIN t.paths
  BY <1>1 DEF Touch
<1>2. CASE i \in DOMAIN t.paths
  <2>. DEFINE r == Append(Dropped(t.recent, i), i)
  <2>1. Touch(t, i) = [t EXCEPT !.recent = r]
    BY <1>2 DEF Touch
  <2>2. /\ Listed(Dropped(t.recent, i), DOMAIN t.paths \ {i})
        /\ Len(Dropped(t.recent, i)) = Len(t.recent) - 1
    BY <1>2, DroppedOrder DEF InOrder
  <2>3. /\ Listed(r, (DOMAIN t.paths \ {i}) \cup {i})
        /\ Len(r) = Len(Dropped(t.recent, i)) + 1
    BY <2>2, AppendOrder
  <2>4. (DOMAIN t.paths \ {i}) \cup {i} = DOMAIN t.paths
    BY <1>2
  <2>5. Len(t.recent) \in Nat
    BY DEF InOrder, Listed
  <2>. HIDE DEF r
  <2>6. Listed(r, DOMAIN t.paths)
    BY <2>3, <2>4, Zenon
  <2>8. Len(r) = Len(t.recent)
    BY <2>2, <2>3, <2>5
  <2>7. /\ IsTable(Touch(t, i)) /\ Touch(t, i).recent = r
        /\ Touch(t, i).next = t.next /\ Touch(t, i).paths = t.paths
        /\ Touch(t, i).inos = t.inos
    BY <2>1 DEF IsTable
  <2>. QED
    BY <2>6, <2>7, <2>8 DEF InOrder
<1>. QED
  BY <1>1, <1>2

\* So a sound table stays one.
LEMMA TouchSound ==
  ASSUME NEW t, NEW i, SoundTable(t)
  PROVE  SoundTable(Touch(t, i))
  BY TouchFacts, AgreesFrame DEF SoundTable

\* That a path is a directory is kept outside the two maps.
LEMMA TrackDirSound ==
  ASSUME NEW t, NEW p, SoundTable(t)
  PROVE  SoundTable(TrackDir(t, p))
<1>1. /\ IsTable(TrackDir(t, p)) /\ TrackDir(t, p).next = t.next
      /\ TrackDir(t, p).paths = t.paths /\ TrackDir(t, p).inos = t.inos
      /\ TrackDir(t, p).recent = t.recent
  BY DEF TrackDir, SoundTable, IsTable
<1>2. Agrees(TrackDir(t, p))
  BY <1>1, AgreesFrame DEF SoundTable
<1>3. InOrder(TrackDir(t, p))
  BY <1>1 DEF SoundTable, InOrder
<1>. QED
  BY <1>1, <1>2, <1>3 DEF SoundTable

\* An inode that is taken out leaves the order with it.
LEMMA PopKept ==
  ASSUME NEW t, NEW i, IsTable(t), InOrder(t)
  PROVE  /\ InOrder(Pop(t, i)) /\ DOMAIN Pop(t, i).paths = DOMAIN t.paths \ {i}
         /\ i \in DOMAIN t.paths => Len(Pop(t, i).recent) = Len(t.recent) - 1
<1>1. /\ DOMAIN Pop(t, i).paths = DOMAIN t.paths \ {i}
      /\ Pop(t, i).recent = Dropped(t.recent, i)
  BY DEF Pop, Without, IsTable
<1>2. Len(t.recent) \in Nat
  BY DEF InOrder, Listed
<1>3. CASE i \in DOMAIN t.paths
  <2>1. /\ Listed(Dropped(t.recent, i), DOMAIN t.paths \ {i})
        /\ Len(Dropped(t.recent, i)) = Len(t.recent) - 1
    BY <1>3, DroppedOrder DEF InOrder
  <2>. QED
    BY <1>1, <1>2, <2>1, CapacityAssumption DEF InOrder
<1>4. CASE i \notin DOMAIN t.paths
  <2>1. Dropped(t.recent, i) = t.recent /\ DOMAIN t.paths \ {i} = DOMAIN t.paths
    BY <1>4, DroppedOther DEF InOrder
  <2>. QED
    BY <1>1, <1>4, <2>1 DEF InOrder
<1>. QED
  BY <1>3, <1>4

\* A push stays within the capacity: at it, the oldest goes.
LEMMA PushKept ==
  ASSUME NEW t, NEW i, NEW p, IsTable(t), InOrder(t), i \notin DOMAIN t.paths
  PROVE  InOrder(Push(t, i, p))
<1>. DEFINE room == IF Cardinality(DOMAIN t.paths) < Capacity THEN t ELSE Pop(t, Head(t.recent))
<1>0. Len(t.recent) \in Nat
  BY DEF InOrder, Listed
<1>1. Cardinality(DOMAIN t.paths) = Len(t.recent) /\ Len(t.recent) \in Nat
  BY <1>0, OrderCounts DEF InOrder
<1>2. IsTable(room) /\ InOrder(room) /\ i \notin DOMAIN room.paths /\ Len(room.recent) < Capacity
  <2>1. CASE Cardinality(DOMAIN t.paths) < Capacity
    BY <1>1, <2>1
  <2>2. CASE ~(Cardinality(DOMAIN t.paths) < Capacity)
    <3>. DEFINE oldest == Head(t.recent)
    <3>1. Len(t.recent) = Capacity /\ Capacity \in Nat \ {0}
      BY <1>1, <2>2, CapacityAssumption DEF InOrder
    <3>2. oldest \in DOMAIN t.paths
      BY <3>1 DEF InOrder, Listed
    <3>3. room = Pop(t, oldest)
      BY <2>2
    <3>. HIDE DEF room, oldest
    <3>4. /\ InOrder(room) /\ DOMAIN room.paths = DOMAIN t.paths \ {oldest}
          /\ Len(room.recent) = Len(t.recent) - 1
      BY <3>2, <3>3, PopKept
    <3>5. IsTable(room)
      BY <3>3 DEF Pop, IsTable
    <3>. QED
      BY <3>1, <3>4, <3>5
  <2>. QED
    BY <2>1, <2>2
<1>3. Push(t, i, p) = [room EXCEPT !.paths = With(@, i, p), !.recent = Append(@, i)]
  BY DEF Push
<1>. HIDE DEF room
<1>4. /\ DOMAIN Push(t, i, p).paths = DOMAIN room.paths \cup {i}
      /\ Push(t, i, p).recent = Append(room.recent, i)
  BY <1>2, <1>3 DEF IsTable, With
<1>5. /\ Listed(Append(room.recent, i), DOMAIN room.paths \cup {i})
      /\ Len(Append(room.recent, i)) = Len(room.recent) + 1
  BY <1>2, AppendOrder DEF InOrder
<1>6. Len(room.recent) \in Nat
  BY <1>2 DEF InOrder, Listed
<1>. QED
  BY <1>2, <1>4, <1>5, <1>6, CapacityAssumption DEF InOrder

\* What push leaves of a table: at most one other inode goes, and the reverse
\* index is not touched.
Pushed(s, t, i, p) ==
  /\ IsTable(s) /\ s.next = t.next /\ s.inos = t.inos
  /\ \E gone : /\ DOMAIN s.paths = (DOMAIN t.paths \ gone) \cup {i}
               /\ s.paths[i] = p
               /\ \A j \in DOMAIN t.paths \ gone : s.paths[j] = t.paths[j]

\* What a push leaves: the new inode with its path, and of the others what
\* they had, if they are there.
LEMMA PushFacts ==
  ASSUME NEW t, NEW i, NEW p, IsTable(t), i \notin DOMAIN t.paths
  PROVE  Pushed(Push(t, i, p), t, i, p)
<1>. DEFINE room == IF Cardinality(DOMAIN t.paths) < Capacity THEN t ELSE Pop(t, Head(t.recent))
<1>1. IsTable(room) /\ room.next = t.next /\ room.inos = t.inos /\ room.dirs = t.dirs
  BY DEF IsTable, Pop
<1>2. \E gone : room.paths = IF gone = {} THEN t.paths ELSE Without(t.paths, gone)
  <2>1. room = t \/ room.paths = Without(t.paths, {Head(t.recent)})
    BY DEF Pop, IsTable
  <2>. QED
    BY <2>1
<1>3. Push(t, i, p) = [room EXCEPT !.paths = With(@, i, p), !.recent = Append(@, i)]
  BY DEF Push
<1>. HIDE DEF room
<1>4. PICK gone : room.paths = IF gone = {} THEN t.paths ELSE Without(t.paths, gone)
  BY <1>2
<1>5. /\ DOMAIN room.paths = DOMAIN t.paths \ gone
      /\ \A j \in DOMAIN t.paths \ gone : room.paths[j] = t.paths[j]
  BY <1>4 DEF Without
<1>6. /\ IsTable(Push(t, i, p))
      /\ Push(t, i, p).next = t.next /\ Push(t, i, p).inos = t.inos
      /\ Push(t, i, p).dirs = t.dirs /\ Push(t, i, p).paths = With(room.paths, i, p)
  BY <1>1, <1>3 DEF IsTable
<1>7. /\ DOMAIN Push(t, i, p).paths = (DOMAIN t.paths \ gone) \cup {i}
      /\ Push(t, i, p).paths[i] = p
      /\ \A j \in DOMAIN t.paths \ gone : Push(t, i, p).paths[j] = t.paths[j]
  BY <1>5, <1>6 DEF With
<1>. QED
  BY <1>6, <1>7 DEF Pushed

\* A new inode for a new path: what is evicted leaves both maps.
LEMMA InsertSound ==
  ASSUME NEW t, NEW i \in Nat, NEW p, SoundTable(t), i < t.next, i \notin DOMAIN t.paths,
         p \notin DOMAIN t.inos
  PROVE  SoundTable(Insert(t, i, p))
<1>. DEFINE listed  == [t EXCEPT !.inos = With(@, p, i)]
            pushed  == Push(listed, i, p)
            evicted == DOMAIN t.paths \ DOMAIN pushed.paths
            gone    == {t.paths[j] : j \in {j \in evicted : /\ t.paths[j] \in DOMAIN pushed.inos
                                                            /\ pushed.inos[t.paths[j]] = j}}
            new     == Insert(t, i, p)
<1>1. /\ IsTable(listed) /\ listed.next = t.next /\ listed.paths = t.paths
      /\ listed.inos = With(t.inos, p, i)
  BY DEF SoundTable, IsTable
<1>. HIDE DEF listed
<1>2. /\ IsTable(pushed) /\ InOrder(pushed) /\ pushed.next = t.next
      /\ pushed.inos = With(t.inos, p, i)
      /\ \E out : /\ DOMAIN pushed.paths = (DOMAIN t.paths \ out) \cup {i}
                  /\ pushed.paths[i] = p
                  /\ \A j \in DOMAIN t.paths \ out : pushed.paths[j] = t.paths[j]
  <2>1. i \notin DOMAIN listed.paths
    BY <1>1
  <2>2. Pushed(pushed, listed, i, p)
    BY <1>1, <2>1, PushFacts
  <2>3. InOrder(listed)
    <3>1. listed.recent = t.recent
      BY DEF listed, SoundTable, IsTable
    <3>. QED
      BY <1>1, <3>1 DEF SoundTable, InOrder
  <2>4. InOrder(pushed)
    BY <1>1, <2>1, <2>3, PushKept
  <2>. QED
    BY <2>2, <2>4, <1>1 DEF Pushed
<1>3. new = [pushed EXCEPT !.inos = Without(@, gone), !.dirs = @ \ gone]
  BY DEF Insert, listed
<1>. HIDE DEF pushed
<1>4. /\ IsTable(new) /\ new.next = t.next /\ new.paths = pushed.paths
      /\ new.inos = Without(pushed.inos, gone) /\ new.recent = pushed.recent
  BY <1>2, <1>3 DEF IsTable
<1>5. /\ DOMAIN new.paths = (DOMAIN t.paths \ evicted) \cup {i} /\ new.paths[i] = p
      /\ \A j \in DOMAIN t.paths \ evicted : new.paths[j] = t.paths[j]
  BY <1>2, <1>4
<1>6. /\ DOMAIN pushed.inos = DOMAIN t.inos \cup {p} /\ pushed.inos[p] = i
      /\ \A q \in DOMAIN t.inos : pushed.inos[q] = t.inos[q]
  BY <1>2 DEF With
<1>7. gone = {t.paths[j] : j \in evicted}
  BY <1>6 DEF SoundTable, Agrees
<1>. HIDE DEF gone, evicted, new
<1>8. /\ DOMAIN new.inos = (DOMAIN t.inos \cup {p}) \ gone
      /\ \A q \in DOMAIN new.inos : new.inos[q] = pushed.inos[q]
  BY <1>4, <1>6 DEF Without
<1>9. evicted \subseteq DOMAIN t.paths /\ p \notin gone
  BY <1>7 DEF evicted, SoundTable, Agrees
<1>10. ASSUME NEW q \in DOMAIN new.inos
       PROVE  new.inos[q] \in DOMAIN new.paths /\ new.paths[new.inos[q]] = q
  <2>1. CASE q = p
    BY <2>1, <1>5, <1>6, <1>8
  <2>2. CASE q # p
    <3>1. q \in DOMAIN t.inos /\ new.inos[q] = t.inos[q] /\ q \notin gone
      BY <2>2, <1>6, <1>8
    <3>2. t.inos[q] \in DOMAIN t.paths /\ t.paths[t.inos[q]] = q
      BY <3>1 DEF SoundTable, Agrees
    <3>3. t.inos[q] \notin evicted
      BY <3>1, <3>2, <1>7
    <3>. QED
      BY <3>1, <3>2, <3>3, <1>5
  <2>. QED
    BY <2>1, <2>2
<1>11. ASSUME NEW j \in DOMAIN new.paths
       PROVE  new.paths[j] \in DOMAIN new.inos /\ new.inos[new.paths[j]] = j
  <2>1. CASE j = i
    BY <2>1, <1>5, <1>6, <1>8, <1>9
  <2>2. CASE j # i
    <3>1. j \in DOMAIN t.paths /\ j \notin evicted /\ new.paths[j] = t.paths[j]
      BY <2>2, <1>5
    <3>2. t.paths[j] \in DOMAIN t.inos /\ t.inos[t.paths[j]] = j
      BY <3>1 DEF SoundTable, Agrees
    <3>3. t.paths[j] \notin gone
      BY <3>1, <3>2, <1>7, <1>9 DEF SoundTable, Agrees
    <3>. QED
      BY <3>1, <3>2, <3>3, <1>6, <1>8
  <2>. QED
    BY <2>1, <2>2
<1>12. new.next \in Nat /\ \A j \in DOMAIN new.paths : j \in Nat /\ j < new.next
  BY <1>4, <1>5 DEF SoundTable, Agrees
<1>13. InOrder(new)
  BY <1>2, <1>4 DEF InOrder
<1>. QED
  BY <1>4, <1>10, <1>11, <1>12, <1>13 DEF SoundTable, Agrees, new

\* ino_for_path, whether the path is known or new.
LEMMA InoForPathSound ==
  ASSUME NEW t, NEW p, SoundTable(t)
  PROVE  SoundTable(InoForPath(t, p))
<1>1. CASE p \in DOMAIN t.inos
  BY <1>1, TouchSound DEF InoForPath
<1>2. CASE p \notin DOMAIN t.inos
  <2>. DEFINE s == [t EXCEPT !.next = @ + 1]
  <2>1. /\ IsTable(s) /\ s.next = t.next + 1 /\ s.paths = t.paths /\ s.inos = t.inos
        /\ s.recent = t.recent /\ t.next \in Nat
    BY DEF SoundTable, IsTable, Agrees
  <2>2. InoForPath(t, p) = Insert(s, t.next, p)
    BY <1>2 DEF InoForPath
  <2>. HIDE DEF s
  <2>3. SoundTable(s) /\ t.next \notin DOMAIN s.paths
    BY <2>1 DEF SoundTable, Agrees, InOrder
  <2>4. t.next < s.next /\ p \notin DOMAIN s.inos
    BY <1>2, <2>1
  <2>. QED
    BY <2>1, <2>2, <2>3, <2>4, InsertSound
<1>. QED
  BY <1>1, <1>2

\* rename_path: the inode moves to the new path, and the one that was there is
\* in neither map.
LEMMA RenamePathSound ==
  ASSUME NEW t, NEW old, NEW new, SoundTable(t)
  PROVE  SoundTable(RenamePath(t, old, new))
<1>1. CASE old \notin DOMAIN t.inos
  BY <1>1 DEF RenamePath
<1>2. CASE old \in DOMAIN t.inos
  <2>. DEFINE i      == t.inos[old]
              others == Without(t.inos, {old})
              freed  == IF new \in DOMAIN others THEN Pop(t, others[new]) ELSE t
              moved  == [freed EXCEPT !.inos = With(others, new, i)]
              s      == [Touch(moved, i) EXCEPT !.paths[i] = new]
  <2>1. /\ DOMAIN others = DOMAIN t.inos \ {old}
        /\ \A q \in DOMAIN t.inos \ {old} : others[q] = t.inos[q]
    BY DEF Without
  <2>2. i \in DOMAIN t.paths /\ t.paths[i] = old
    BY <1>2 DEF SoundTable, Agrees
  <2>. DEFINE out == IF new \in DOMAIN others THEN {others[new]} ELSE {}
  <2>3. /\ IsTable(freed) /\ InOrder(freed) /\ freed.next = t.next
        /\ DOMAIN freed.paths = DOMAIN t.paths \ out
        /\ \A j \in DOMAIN t.paths \ out : freed.paths[j] = t.paths[j]
    <3>1. CASE new \in DOMAIN others
      <4>1. IsTable(freed) /\ freed.next = t.next /\ freed.paths = Without(t.paths, out)
        BY <3>1 DEF Pop, SoundTable, IsTable
      <4>2. InOrder(freed)
        BY <3>1, PopKept DEF SoundTable
      <4>. QED
        BY <4>1, <4>2 DEF Without
    <3>2. CASE new \notin DOMAIN others
      BY <3>2 DEF SoundTable
    <3>. QED
      BY <3>1, <3>2
  <2>4. i \notin out
    BY <2>1, <2>2 DEF SoundTable, Agrees
  <2>. HIDE DEF others, freed
  <2>5. /\ IsTable(moved) /\ moved.next = t.next /\ moved.paths = freed.paths
        /\ moved.inos = With(others, new, i) /\ InOrder(moved)
    <3>1. /\ IsTable(moved) /\ moved.next = t.next /\ moved.paths = freed.paths
          /\ moved.inos = With(others, new, i) /\ moved.recent = freed.recent
      BY <2>3 DEF IsTable
    <3>. QED
      BY <2>3, <3>1 DEF InOrder
  <2>. HIDE DEF moved
  <2>6. /\ IsTable(Touch(moved, i)) /\ Touch(moved, i).next = t.next
        /\ Touch(moved, i).paths = freed.paths
        /\ Touch(moved, i).inos = With(others, new, i) /\ InOrder(Touch(moved, i))
    BY <2>5, TouchFacts
  <2>7. RenamePath(t, old, new) = s
    <3>1. i \in DOMAIN moved.paths
      BY <2>2, <2>3, <2>4, <2>5
    <3>. QED
      BY <3>1, <1>2 DEF RenamePath, moved, freed, others
  <2>8. /\ IsTable(s) /\ s.next = t.next /\ s.paths = [freed.paths EXCEPT ![i] = new]
        /\ s.inos = With(others, new, i) /\ InOrder(s)
    BY <2>6 DEF IsTable, InOrder
  <2>. HIDE DEF s
  <2>9. /\ DOMAIN s.inos = (DOMAIN t.inos \ {old}) \cup {new} /\ s.inos[new] = i
        /\ \A q \in DOMAIN t.inos \ {old} : q # new => s.inos[q] = t.inos[q]
    BY <2>1, <2>8 DEF With
  <2>10. /\ DOMAIN s.paths = DOMAIN t.paths \ out /\ s.paths[i] = new
         /\ \A j \in DOMAIN t.paths \ out : j # i => s.paths[j] = t.paths[j]
    BY <2>2, <2>3, <2>4, <2>8
  <2>11. ASSUME NEW j \in out PROVE new \in DOMAIN t.inos \ {old} /\ j = t.inos[new]
    BY <2>1, <2>11
  <2>12. new \in DOMAIN t.inos \ {old} => t.inos[new] \in out
    BY <2>1
  <2>. HIDE DEF out, i
  <2>13. ASSUME NEW q \in DOMAIN s.inos
         PROVE  s.inos[q] \in DOMAIN s.paths /\ s.paths[s.inos[q]] = q
    <3>1. CASE q = new
      BY <3>1, <2>2, <2>4, <2>9, <2>10
    <3>2. CASE q # new
      <4>1. q \in DOMAIN t.inos \ {old} /\ s.inos[q] = t.inos[q]
        BY <3>2, <2>9
      <4>2. t.inos[q] \in DOMAIN t.paths /\ t.paths[t.inos[q]] = q
        BY <4>1 DEF SoundTable, Agrees
      <4>3. t.inos[q] # i /\ t.inos[q] \notin out
        BY <4>1, <4>2, <3>2, <2>2, <2>11 DEF SoundTable, Agrees
      <4>. QED
        BY <4>1, <4>2, <4>3, <2>10
    <3>. QED
      BY <3>1, <3>2
  <2>14. ASSUME NEW j \in DOMAIN s.paths
         PROVE  s.paths[j] \in DOMAIN s.inos /\ s.inos[s.paths[j]] = j
    <3>1. CASE j = i
      BY <3>1, <2>9, <2>10
    <3>2. CASE j # i
      <4>1. j \in DOMAIN t.paths /\ j \notin out /\ s.paths[j] = t.paths[j]
        BY <3>2, <2>10
      <4>2. t.paths[j] \in DOMAIN t.inos /\ t.inos[t.paths[j]] = j
        BY <4>1 DEF SoundTable, Agrees
      <4>3. t.paths[j] # old
        BY <4>2, <3>2 DEF i
      <4>4. t.paths[j] # new
        BY <4>1, <4>2, <4>3, <2>12
      <4>. QED
        BY <4>1, <4>2, <4>3, <4>4, <2>9
    <3>. QED
      BY <3>1, <3>2
  <2>15. s.next \in Nat /\ \A j \in DOMAIN s.paths : j \in Nat /\ j < s.next
    BY <2>8, <2>10 DEF SoundTable, Agrees
  <2>. QED
    BY <2>7, <2>8, <2>13, <2>14, <2>15 DEF SoundTable, Agrees
<1>. QED
  BY <1>1, <1>2

\* A mount begins with a sound table.
LEMMA NewTableSound == SoundTable(NewTable)
<1>1. IsTable(NewTable) /\ Agrees(NewTable)
  BY DEF IsTable, Agrees, NewTable, EmptyMap
<1>2. DOMAIN NewTable.paths = {} /\ NewTable.recent = <<>>
  BY DEF NewTable, EmptyMap
<1>3. Listed(<<>>, {})
  BY DEF Listed
<1>4. InOrder(NewTable)
  BY <1>2, <1>3, CapacityAssumption DEF InOrder
<1>. QED
  BY <1>1, <1>4 DEF SoundTable

-----------------------------------------------------------------------------
(* The steps of the system.                                                 *)

SoundTables == DOMAIN table = Device /\ \A d \in Device : SoundTable(table[d])

\* The table of d is replaced by a sound one, or nothing happens to it.
Replaces(d) == \E t : SoundTable(t) /\ table' = [table EXCEPT ![d] = t]

TableStep == table' = table \/ \E d \in Device : Replaces(d)

\* The operations of the table keep every mount's table sound.
LEMMA TableStepSound == SoundTables /\ TableStep => SoundTables'
  BY DEF SoundTables, TableStep, Replaces

\* The operations that the steps use.
LEMMA Replacements ==
  ASSUME NEW d \in Device, SoundTables
  PROVE  /\ SoundTable(table[d])
         /\ \A i : SoundTable(Touch(table[d], i))
         /\ \A p : SoundTable(InoForPath(table[d], p))
         /\ \A p : SoundTable(InoForPath(TrackDir(table[d], p), p))
         /\ \A p, q : SoundTable(RenamePath(table[d], p, q))
<1>1. SoundTable(table[d])
  BY DEF SoundTables
<1>2. \A i : SoundTable(Touch(table[d], i))
  BY <1>1, TouchSound
<1>3. \A p : SoundTable(InoForPath(table[d], p))
  BY <1>1, InoForPathSound
<1>4. \A p : SoundTable(TrackDir(table[d], p))
  BY <1>1, TrackDirSound
<1>5. \A p : SoundTable(InoForPath(TrackDir(table[d], p), p))
  BY <1>4, InoForPathSound
<1>6. \A p, q : SoundTable(RenamePath(table[d], p, q))
  BY <1>1, RenamePathSound
<1>. QED
  BY <1>1, <1>2, <1>3, <1>5, <1>6

\* The callbacks that look change a table by its operations only.
LEMMA BrowseStep ==
  ASSUME NEW d \in Device, NEW ps
  PROVE  SoundTables /\ Browse(d, ps) => TableStep
<1>. SUFFICES ASSUME SoundTables, Browse(d, ps) PROVE TableStep
  OBVIOUS
<1>1. ASSUME NEW p \in ps, Lookup(d, p) PROVE TableStep
  BY <1>1 DEF Lookup, TableStep
<1>2. ASSUME NEW i, GetAttr(d, i) \/ Read(d, i) PROVE TableStep
  <2>1. table' = [table EXCEPT ![d] = Touch(table[d], i)]
    BY <1>2 DEF GetAttr, Read
  <2>. QED
    BY <2>1, Replacements DEF TableStep, Replaces
<1>3. CASE ReadDir(d)
  BY <1>3 DEF ReadDir, TableStep
<1>. QED
  BY <1>1, <1>2, <1>3 DEF Browse

\* So do the callbacks that open, create and write, ...
LEMMA UseStep ==
  ASSUME NEW d \in Device, NEW ps
  PROVE  SoundTables /\ Use(d, ps) => TableStep
<1>. SUFFICES ASSUME SoundTables, Use(d, ps) PROVE TableStep
  OBVIOUS
<1>1. ASSUME NEW p \in ps, NEW m \in Modes, Open(d, p, m) PROVE TableStep
  <2>1. table' = table \/ \E i : table' = [table EXCEPT ![d] = Touch(table[d], i)]
    BY <1>1 DEF Open
  <2>. QED
    BY <2>1, Replacements DEF TableStep, Replaces
<1>2. ASSUME NEW p \in ps, NEW m \in Modes, Create(d, p, m) PROVE TableStep
  <2>1. table' = [table EXCEPT ![d] = InoForPath(table[d], p)]
    BY <1>2 DEF Create
  <2>. QED
    BY <2>1, Replacements DEF TableStep, Replaces
<1>3. ASSUME NEW i, Write(d, i) \/ Truncate(d, i) PROVE TableStep
  <2>1. table' = [table EXCEPT ![d] = Touch(table[d], i)]
    BY <1>3 DEF Write, Truncate
  <2>. QED
    BY <2>1, Replacements DEF TableStep, Replaces
<1>4. ASSUME NEW i, FSync(d, i) PROVE TableStep
  <2>1. table' = [table EXCEPT ![d] = Touch(table[d], i)]
    BY <1>4 DEF FSync, WriteBack
  <2>. QED
    BY <2>1, Replacements DEF TableStep, Replaces
<1>. QED
  BY <1>1, <1>2, <1>3, <1>4 DEF Use

\* ... release, ...
LEMMA CloseStep ==
  ASSUME NEW d \in Device
  PROVE  SoundTables /\ Close(d) => TableStep
<1>. SUFFICES ASSUME SoundTables, NEW h, Release(d, h) PROVE TableStep
  BY DEF Close
<1>1. table' = [table EXCEPT ![d] = Touch(table[d], h.ino)]
  BY DEF Release, WriteBack
<1>. QED
  BY <1>1, Replacements DEF TableStep, Replaces

\* The answers: a name that is found gets an inode, and a rename moves one.
LEMMA ProceedStep ==
  ASSUME NEW d \in Device, NEW a
  PROVE  SoundTables /\ Proceed(d, a) => TableStep
<1>. SUFFICES ASSUME SoundTables, Proceed(d, a) PROVE TableStep
  OBVIOUS
<1>1. CASE LookedUp(d, a)
  <2>1. \/ table' = table
        \/ \E p : \/ table' = [table EXCEPT ![d] = InoForPath(table[d], p)]
                 \/ table' = [table EXCEPT ![d] = InoForPath(TrackDir(table[d], p), p)]
    BY <1>1 DEF LookedUp
  <2>. QED
    BY <2>1, Replacements DEF TableStep, Replaces
<1>2. CASE Renamed(d, a)
  <2>1. \/ table' = table
        \/ \E p, q : table' = [table EXCEPT ![d] = RenamePath(table[d], p, q)]
    BY <1>2 DEF Renamed
  <2>. QED
    BY <2>1, Replacements DEF TableStep, Replaces
<1>3. CASE \/ GotAttr(d, a) \/ GotListing(d, a) \/ GotData(d, a) \/ OpenSynced(d, a)
           \/ GotSize(d, a) \/ GotContent(d, a) \/ WrittenBack(d, a) \/ Unlinked(d, a)
  <2>1. table' = table
    BY <1>3 DEF GotAttr, GotListing, GotData, OpenSynced, GotSize, GotContent, WrittenBack,
                Unlinked
  <2>. QED
    BY <2>1 DEF TableStep
<1>. QED
  BY <1>1, <1>2, <1>3 DEF Proceed

\* ... and what a mount does with an answer.
LEMMA ResumeStep ==
  ASSUME NEW d \in Device
  PROVE  SoundTables /\ (Resume(d) \/ Unanswered(d) \/ Remount(d)) => TableStep
<1>. SUFFICES ASSUME SoundTables, Resume(d) \/ Unanswered(d) \/ Remount(d) PROVE TableStep
  OBVIOUS
<1>1. ASSUME NEW a, Proceed(d, a) PROVE TableStep
  BY <1>1, ProceedStep
<1>2. CASE Fetch(d)
  BY <1>2 DEF Fetch, TableStep
<1>3. ASSUME NEW p, Enlist(d, p) PROVE TableStep
  <2>1. table' = [table EXCEPT ![d] = InoForPath(table[d], p)]
    BY <1>3 DEF Enlist
  <2>. QED
    BY <2>1, Replacements DEF TableStep, Replaces
<1>4. CASE Remount(d)
  <2>1. table' = [table EXCEPT ![d] = NewTable]
    BY <1>4 DEF Remount
  <2>. QED
    BY <2>1, NewTableSound DEF TableStep, Replaces
<1>. QED
  BY <1>1, <1>2, <1>3, <1>4 DEF Resume, Unanswered

\* No step of the system touches a table but by the table's operations.
LEMMA NextTableStep == SoundTables /\ [MountNext]_all => TableStep
<1>. SUFFICES ASSUME SoundTables, [MountNext]_all PROVE TableStep
  OBVIOUS
<1>1. CASE HostStep \/ UNCHANGED all
  BY <1>1 DEF HostStep, all, mount, TableStep
<1>2. ASSUME NEW d \in Device, Remove(d, Files) PROVE TableStep
  BY <1>2 DEF Remove, Unlink, Rename, TableStep
<1>3. ASSUME NEW d \in Device,
             \/ Browse(d, Files) \/ Use(d, Files) \/ Close(d)
             \/ Resume(d) \/ Unanswered(d) \/ Remount(d)
      PROVE  TableStep
  BY <1>3, BrowseStep, UseStep, CloseStep, ResumeStep
<1>. QED
  BY <1>1, <1>2, <1>3 DEF MountNext

\* The tables are sound, whatever happens.
LEMMA TablesSound == MountSpec => []SoundTables
<1>1. MountInit => SoundTables
  BY NewTableSound DEF MountInit, SoundTables
<1>2. SoundTables /\ [MountNext]_all => SoundTables'
  BY NextTableStep, TableStepSound
<1>. QED
  BY <1>1, <1>2, PTL DEF MountSpec

\* The two maps of every inode table are inverses of each other, and a new
\* inode is new: for any capacity, any number of mounts and files, any answers
\* of the host and any lost ones (filesystem.rs, InodeTable).
THEOREM TablesStayInverse == MountSpec => []TablesAgree
<1>1. SoundTables => TablesAgree
  BY DEF SoundTables, TablesAgree, SoundTable
<1>. QED
  BY <1>1, TablesSound, PTL

\* No inode table outgrows its capacity, and its LRU has every inode of the
\* table once and no other, so that what is evicted is always there to evict.
THEOREM TablesStayBounded == MountSpec => []TablesBounded
<1>1. SoundTables => TablesBounded
  BY KeptBounded DEF SoundTables, TablesBounded, SoundTable
<1>. QED
  BY <1>1, TablesSound, PTL

-----------------------------------------------------------------------------
(* The names in a table.                                                    *)

\* Being used gives an inode no other name.
LEMMA TouchNames ==
  ASSUME NEW t, NEW i, NamesOf(t), SoundTable(t)
  PROVE  NamesOf(Touch(t, i))
  BY TouchFacts DEF SoundTable, NamesOf

\* A new inode has the name it is made for, and the others keep theirs.
LEMMA InoForPathNames ==
  ASSUME NEW t, NEW p, NamesOf(t), SoundTable(t), IsName(p)
  PROVE  NamesOf(InoForPath(t, p))
<1>1. CASE p \in DOMAIN t.inos
  BY <1>1, TouchNames DEF InoForPath
<1>2. CASE p \notin DOMAIN t.inos
  <2>. DEFINE s == [t EXCEPT !.next = @ + 1]
              u == [s EXCEPT !.inos = With(@, p, t.next)]
  <2>0. IsTable(s) /\ s.paths = t.paths
    BY DEF SoundTable, IsTable
  <2>. HIDE DEF s
  <2>1. IsTable(u) /\ u.paths = t.paths
    BY <2>0 DEF IsTable
  <2>2. t.next \notin DOMAIN u.paths
    BY <2>1 DEF SoundTable, Agrees
  <2>3. Pushed(Push(u, t.next, p), u, t.next, p)
    BY <2>1, <2>2, PushFacts
  <2>4. Insert(s, t.next, p).paths = Push(u, t.next, p).paths
    <3>1. IsTable(Push(u, t.next, p))
      BY <2>3 DEF Pushed
    <3>2. \E x, y : Insert(s, t.next, p) = [Push(u, t.next, p) EXCEPT !.inos = x, !.dirs = y]
      BY DEF Insert
    <3>. QED
      BY <3>1, <3>2 DEF IsTable
  <2>5. InoForPath(t, p) = Insert(s, t.next, p)
    BY <1>2 DEF InoForPath, s
  <2>. HIDE DEF u
  <2>. QED
    BY <2>1, <2>3, <2>4, <2>5 DEF Pushed, NamesOf
<1>. QED
  BY <1>1, <1>2

\* So does a new inode for a directory.
LEMMA InoForDirNames ==
  ASSUME NEW t, NEW p, NamesOf(t), SoundTable(t), IsName(p)
  PROVE  NamesOf(InoForPath(TrackDir(t, p), p))
<1>1. NamesOf(TrackDir(t, p))
  BY DEF TrackDir, NamesOf, SoundTable, IsTable
<1>. QED
  BY <1>1, TrackDirSound, InoForPathNames

\* A mount begins without names.
LEMMA NewTableNames == NamesOf(NewTable)
  BY DEF NamesOf, NewTable, EmptyMap

\* The files that applications use have names.
LEMMA FilesAreNames == \A p \in Files : IsName(p)
  BY MountAssumption DEF IsName, Root

-----------------------------------------------------------------------------
(* What the host decides.                                                   *)

\* The clocks of a path are clocks.
LEMMA ClocksAreClocks ==
  ASSUME Typed, NEW p, NEW d \in Device
  PROVE  /\ LiveClock(p) \in Clock /\ TombClock(p) \in Clock /\ KnownClock(d, p) \in Clock
  BY EmptyClockType DEF Typed, LiveClock, TombClock, ClockIn, KnownClock

\* Clocks come from what the stores have of the path and from the request.
AnswerOf(p, c, x) ==
  x \in {LiveClock(p), TombClock(p), Merge(LiveClock(p), c), Merge(TombClock(p), c)}

\* The decisions about the requests of a mount: an answer without operations
\* gives a clock of the stores, and a plan puts, under an original name, only
\* its own and a merge (write_file_stream, delete_file).
Decided(r, o) ==
  /\ o.clock \in Clock /\ ChangesAFile(o.ops)
  /\ o.ops = <<>> => o.clock \in {EmptyClock, LiveClock(r.path), TombClock(r.path)}
  /\ o.ops # <<>> => o.result # "Error"
  /\ AnswerOf(r.path, r.clock, o.clock) \/ o.clock = EmptyClock
  /\ \A i \in DOMAIN o.ops, p \in Files :
       IsPut(o.ops[i], p) /\ IsOriginal(p) => p = r.path /\ AnswerOf(p, r.clock, o.ops[i].clock)

\* An operation that may stand in such a plan.
Fine(op) ==
  /\ Sound(op)
  /\ op.do \in {"move", "remove", "put_clock", "drop_clock", "put_tomb", "drop_tomb"}
  /\ op.do = "move" => op.path \in Path /\ op.to \in Path

\* A plan written out, its file operation first.
LEMMA FinePlans ==
  ASSUME NEW a, NEW b, NEW c, Fine(a), Fine(b), Fine(c), ~OnDisk(b), ~OnDisk(c)
  PROVE  /\ ChangesAFile(<<>>) /\ ChangesAFile(<<a>>) /\ ChangesAFile(<<a, b>>)
         /\ ChangesAFile(<<a, b, c>>)
<1>1. /\ IsPlan(<<>>) /\ IsPlan(<<a>>) /\ IsPlan(<<a, b>>) /\ IsPlan(<<a, b, c>>)
  BY TuplePlans DEF Fine
<1>. QED
  BY <1>1 DEF ChangesAFile, Fine

\* The operations of such plans.
LEMMA FineOps ==
  ASSUME NEW p, NEW q, NEW x
  PROVE  /\ p \in Path /\ q \in Path => Fine(Move(p, q))
         /\ Fine(RemoveFile(p)) /\ Fine(DropClock(p)) /\ Fine(DropTomb(p))
         /\ x \in Clock => Fine(PutClock(p, x)) /\ Fine(PutTomb(p, x))
         /\ ~OnDisk(DropClock(p)) /\ ~OnDisk(DropTomb(p))
         /\ ~OnDisk(PutClock(p, x)) /\ ~OnDisk(PutTomb(p, x))
  BY DEF Fine, Sound, Move, RemoveFile, DropClock, DropTomb, PutClock, PutTomb, OnDisk

\* What the operations put, and where.
LEMMA PutsOf ==
  ASSUME NEW p, NEW q, NEW x, NEW z
  PROVE  /\ ~IsPut(Move(p, q), z) /\ ~IsPut(RemoveFile(p), z)
         /\ ~IsPut(DropClock(p), z) /\ ~IsPut(DropTomb(p), z)
         /\ IsPut(PutClock(p, x), z) <=> z = p
         /\ IsPut(PutTomb(p, x), z) <=> z = p
         /\ PutClock(p, x).clock = x /\ PutTomb(p, x).clock = x
  BY DEF IsPut, Move, RemoveFile, DropClock, DropTomb, PutClock, PutTomb

\* write_file_stream and delete_file decide so.
LEMMA MountDecides ==
  ASSUME Typed, NEW d \in Device, NEW r, r.op \in {"stream", "delete"}, IsName(r.path),
         r.clock \in Clock
  PROVE  Decided(r, Decide(d, r))
<1>. DEFINE p    == r.path
            live == LiveClock(p)
            tomb == TombClock(p)
            copy == ConflictPath(p, d)
            both == {live, tomb, Merge(live, r.clock), Merge(tomb, r.clock)}
<1>1. p \in Path \ {Root} /\ now \in Nat
  BY DEF IsName, Typed
<1>2. /\ TempPath(p, d) \in Path /\ copy \in Path /\ ~IsOriginal(copy)
  BY <1>1, CopiedPaths, CopiesAreNotOriginal
<1>3. /\ live \in Clock /\ tomb \in Clock
      /\ Merge(live, r.clock) \in Clock /\ Merge(tomb, r.clock) \in Clock
  BY ClocksAreClocks, MergeType
<1>. HIDE DEF live, tomb, copy
<1>4. ASSUME NEW res, NEW c, c \in {live, tomb}
      PROVE  Decided(r, Outcome(res, c, <<>>))
  <2>1. ChangesAFile(<<>>)
    BY FinePlans, FineOps
  <2>. QED
    BY <1>3, <1>4, <2>1 DEF Decided, Outcome, AnswerOf, live, tomb
<1>5. ASSUME NEW res, res # "Error", NEW c \in both, NEW s, ChangesAFile(s), s # <<>>,
             \A i \in DOMAIN s, q \in Files : IsPut(s[i], q) /\ IsOriginal(q)
               => q = p /\ s[i].clock \in both
      PROVE  Decided(r, Outcome(res, c, s))
  BY <1>3, <1>5 DEF Decided, Outcome, AnswerOf, live, tomb
<1>6. ASSUME r.op = "stream"
      PROVE  \A q : Store(d, r, q) = Move(TempPath(p, d), q)
  BY <1>6 DEF Store
<1>. DEFINE m == Merge(tomb, r.clock)
            n == Merge(live, r.clock)
<1>7. CASE r.op = "stream" /\ Tombed(p)
  <2>1. ChangesAFile(Revive(d, r, m)) /\ Revive(d, r, m) # <<>>
    BY <1>1, <1>2, <1>3, <1>6, <1>7, FinePlans, FineOps DEF Revive
  <2>2. \A i \in DOMAIN Revive(d, r, m), q \in Files :
          IsPut(Revive(d, r, m)[i], q) => q = p /\ Revive(d, r, m)[i].clock = m
    BY <1>6, <1>7, PutsOf DEF Revive
  <2>3. \A res : res # "Error" => Decided(r, Outcome(res, m, Revive(d, r, m)))
    BY <2>1, <2>2, <1>5
  <2>4. Decide(d, r) = WriteOverTombstone(d, r)
    BY <1>7, Zenon DEF Decide, WriteOutcome
  <2>5. \/ WriteOverTombstone(d, r) = Outcome("Stale", tomb, <<>>)
        \/ \E res \in {"Conflict", "Applied"} :
             WriteOverTombstone(d, r) = Outcome(res, m, Revive(d, r, m))
    BY Zenon DEF WriteOverTombstone, tomb
  <2>. QED
    BY <1>4, <2>3, <2>4, <2>5
<1>8. CASE r.op = "stream" /\ ~Tombed(p)
  <2>. DEFINE s == <<Store(d, r, p), PutClock(p, n)>>
              u == <<Store(d, r, copy), PutClock(copy, r.clock)>>
  <2>1. ChangesAFile(s) /\ s # <<>> /\ ChangesAFile(u) /\ u # <<>>
    BY <1>1, <1>2, <1>3, <1>6, <1>8, FinePlans, FineOps
  <2>2. \A i \in DOMAIN s, q \in Files : IsPut(s[i], q) => q = p /\ s[i].clock = n
    BY <1>6, <1>8, PutsOf
  <2>3. \A i \in DOMAIN u, q \in Files : IsPut(u[i], q) => q = copy
    BY <1>6, <1>8, PutsOf
  <2>4. Decide(d, r) = WriteOverLive(d, r)
    BY <1>8, Zenon DEF Decide, WriteOutcome
  <2>5. WriteOverLive(d, r) \in {Outcome("Applied", n, s), Outcome("Stale", live, <<>>),
                                 Outcome("Conflict", live, u)}
    BY CompareInOrder, Zenon DEF WriteOverLive, Order, live, copy
  <2>. HIDE DEF s, u
  <2>6. Decided(r, Outcome("Applied", n, s)) /\ Decided(r, Outcome("Conflict", live, u))
    BY <1>2, <1>5, <2>1, <2>2, <2>3
  <2>. QED
    BY <1>4, <2>4, <2>5, <2>6
<1>9. CASE r.op = "delete"
  <2>. DEFINE s == <<PutTomb(p, m)>>
              u == <<RemoveFile(p), PutTomb(p, n), DropClock(p)>>
  <2>1. ChangesAFile(s) /\ s # <<>> /\ ChangesAFile(u) /\ u # <<>>
    BY <1>1, <1>3, FinePlans, FineOps
  <2>2. \A i \in DOMAIN s, q \in Files : IsPut(s[i], q) => q = p /\ s[i].clock = m
    BY PutsOf
  <2>3. \A i \in DOMAIN u, q \in Files : IsPut(u[i], q) => q = p /\ u[i].clock = n
    BY PutsOf
  <2>4. Decide(d, r) = DeleteOutcome(d, r)
    BY <1>9, Zenon DEF Decide
  <2>5. DeleteOutcome(d, r) \in
          {Outcome("Deleted", m, s), Outcome("NotFound", live, <<>>), Outcome("Deleted", n, u),
           Outcome("Stale", live, <<>>), Outcome("Conflict", live, <<>>)}
    BY CompareInOrder, Zenon DEF DeleteOutcome, DeleteAgain, Order, live, tomb
  <2>. HIDE DEF s, u
  <2>6. Decided(r, Outcome("Deleted", m, s)) /\ Decided(r, Outcome("Deleted", n, u))
    BY <1>5, <2>1, <2>2, <2>3
  <2>. QED
    BY <1>4, <2>4, <2>5, <2>6
<1>. QED
  BY <1>7, <1>8, <1>9

-----------------------------------------------------------------------------
(* Counting.                                                                *)

\* What is compared are numbers.
LEMMA CountsAreNumbers ==
  ASSUME Typed, NEW d \in Device, NEW p
  PROVE  /\ LiveClock(p)[d] \in Nat /\ TombClock(p)[d] \in Nat
         /\ \A e \in Device : KnownClock(e, p)[d] \in Nat
         /\ Limit(d, p) \in Nat
<1>1. \A c \in Clock : c[d] \in Nat
  BY DEF Clock
<1>2. /\ LiveClock(p)[d] \in Nat /\ TombClock(p)[d] \in Nat
      /\ \A e \in Device : KnownClock(e, p)[d] \in Nat
  BY <1>1, ClocksAreClocks
<1>. QED
  BY <1>2 DEF Limit

\* So are the counts of what a handler answers and puts.
LEMMA HeardCounts ==
  ASSUME LinkInv, NEW d \in Device, NEW e \in Device
  PROVE  /\ reply[e].clock[d] \in Nat
         /\ \A i \in DOMAIN plan[e] : \A p : IsPut(plan[e][i], p) => plan[e][i].clock[d] \in Nat
<1>1. \A c \in Clock : c[d] \in Nat
  BY DEF Clock
<1>. QED
  BY <1>1 DEF LinkInv, AtHost, ChangesAFile, IsPlan, IsPut

\* What happened to a device only that the host may now tell of its change.
LEMMA LimitGrows ==
  ASSUME Typed, NEW d \in Device, NEW p, known' = known, Published(d, p) => Published(d, p)'
  PROVE  Limit(d, p)' \in Nat /\ Limit(d, p) <= Limit(d, p)'
<1>1. KnownClock(d, p)' = KnownClock(d, p)
  BY DEF KnownClock
<1>2. KnownClock(d, p)[d] \in Nat
  BY CountsAreNumbers
<1>. QED
  BY <1>1, <1>2 DEF Limit

\* Nothing of the devices other than h changes at the host.
OthersRest(h) ==
  \A e \in Device \ {h} :
    pc'[e] = pc[e] /\ req'[e] = req[e] /\ plan'[e] = plan[e] /\ reply'[e] = reply[e]

\* Then the host may tell of their changes what it might before.
LEMMA OthersPublish ==
  ASSUME NEW h, OthersRest(h), NEW d \in Device \ {h}, NEW p
  PROVE  Published(d, p)' <=> Published(d, p)
  BY DEF OthersRest, Published, Mutating

\* When only h moves on, what the others may hear from each other is what it
\* was: there is h itself to look at, and the stores.
LEMMA CountedAfter ==
  ASSUME Typed, LinkInv, CountInv, NEW h \in Device, OthersRest(h),
         NEW d \in Device, NEW p \in Files, IsOriginal(p),
         \A e \in Device \ {h} : KnownClock(e, p)' = KnownClock(e, p),
         Limit(d, p)' \in Nat, Limit(d, p) <= Limit(d, p)',
         LiveClock(p)'[d] <= Limit(d, p)', TombClock(p)'[d] <= Limit(d, p)',
         d # h => /\ KnownClock(h, p)'[d] <= Limit(d, p)'
                  /\ pc'[h] \in {"locked", "replied"} /\ req'[h].path = p
                       => reply'[h].clock[d] <= Limit(d, p)'
                  /\ \A i \in DOMAIN plan'[h] :
                       IsPut(plan'[h][i], p) => plan'[h][i].clock[d] <= Limit(d, p)',
         d = h => \A i \in DOMAIN plan'[h] : IsPut(plan'[h][i], p) =>
                    req'[h].path = p /\ plan'[h][i].clock[h] <= KnownClock(h, p)'[h] + 1
  PROVE  Counted(d, p)'
<1>1. Counted(d, p) /\ Limit(d, p) \in Nat
  BY CountsAreNumbers DEF CountInv
<1>2. \A x \in Nat : x <= Limit(d, p) => x <= Limit(d, p)'
  BY <1>1
<1>3. ASSUME NEW e \in Device \ {h}
      PROVE  /\ KnownClock(e, p)'[d] = KnownClock(e, p)[d] /\ KnownClock(e, p)[d] \in Nat
             /\ pc'[e] = pc[e] /\ req'[e] = req[e] /\ plan'[e] = plan[e] /\ reply'[e] = reply[e]
  BY CountsAreNumbers DEF OthersRest
<1>4. ASSUME NEW e \in Device \ {d}
      PROVE  /\ KnownClock(e, p)'[d] <= Limit(d, p)'
             /\ pc'[e] \in {"locked", "replied"} /\ req'[e].path = p
                  => reply'[e].clock[d] <= Limit(d, p)'
             /\ \A i \in DOMAIN plan'[e] : IsPut(plan'[e][i], p)
                  => plan'[e][i].clock[d] <= Limit(d, p)'
  <2>1. CASE e = h
    BY <2>1
  <2>2. CASE e # h
    <3>1. KnownClock(e, p)'[d] <= Limit(d, p)'
      BY <1>1, <1>2, <1>3, <2>2 DEF Counted
    <3>2. ASSUME pc'[e] \in {"locked", "replied"}, req'[e].path = p
          PROVE  reply'[e].clock[d] <= Limit(d, p)'
      BY <1>1, <1>2, <1>3, <2>2, <3>2, HeardCounts DEF Counted
    <3>3. ASSUME NEW i \in DOMAIN plan'[e], IsPut(plan'[e][i], p)
          PROVE  plan'[e][i].clock[d] <= Limit(d, p)'
      <4>1. i \in DOMAIN plan[e] /\ IsPut(plan[e][i], p) /\ plan'[e][i] = plan[e][i]
        BY <1>3, <2>2, <3>3
      <4>2. plan[e][i].clock[d] \in Nat
        BY <4>1, HeardCounts
      <4>3. plan[e][i].clock[d] <= Limit(d, p)
        BY <1>1, <4>1 DEF Counted
      <4>. QED
        BY <1>2, <4>1, <4>2, <4>3
    <3>. QED
      BY <3>1, <3>2, <3>3
  <2>. QED
    BY <2>1, <2>2
<1>5. ASSUME NEW i \in DOMAIN plan'[d], IsPut(plan'[d][i], p)
      PROVE  req'[d].path = p /\ plan'[d][i].clock[d] <= KnownClock(d, p)'[d] + 1
  <2>1. CASE d = h
    BY <1>5, <2>1
  <2>2. CASE d # h
    <3>1. i \in DOMAIN plan[d] /\ IsPut(plan[d][i], p) /\ plan'[d][i] = plan[d][i]
      BY <1>3, <1>5, <2>2
    <3>. QED
      BY <1>1, <1>3, <2>2, <3>1 DEF Counted
  <2>. QED
    BY <2>1, <2>2
<1>. QED
  BY <1>4, <1>5 DEF Counted, IsPut

\* h moves on, and whatever anybody may hear of is what it was: no store and no
\* mount learns anything, and what h is about to be told the stores have.
QuietStep(h) ==
  /\ UNCHANGED <<clocks, tombs, known>>
  /\ OthersRest(h)
  /\ \A p : Published(h, p) => Published(h, p)'
  /\ plan'[h] = <<>> \/ (plan'[h] = plan[h] /\ req'[h] = req[h])
  /\ pc'[h] \in {"locked", "replied"} =>
       \/ pc'[h] = pc[h] /\ req'[h] = req[h] /\ reply'[h] = reply[h]
       \/ reply'[h].clock \in {EmptyClock, LiveClock(req'[h].path), TombClock(req'[h].path)}

\* Then nobody has heard of more changes than before.
LEMMA QuietCount ==
  ASSUME Typed, LinkInv, CountInv, NEW h \in Device, QuietStep(h)
  PROVE  CountInv'
<1>. SUFFICES ASSUME NEW d \in Device, NEW p \in Files, IsOriginal(p) PROVE Counted(d, p)'
  BY DEF CountInv, IsOriginal
<1>1. Counted(d, p) /\ Counted(h, p)
  BY DEF CountInv
<1>2. Limit(d, p) \in Nat /\ Limit(d, p)' \in Nat /\ Limit(d, p) <= Limit(d, p)'
  <2>1. Published(d, p) => Published(d, p)'
    BY OthersPublish DEF QuietStep
  <2>. QED
    BY <2>1, LimitGrows, CountsAreNumbers DEF QuietStep
<1>3. /\ LiveClock(p)' = LiveClock(p) /\ TombClock(p)' = TombClock(p)
      /\ \A e : KnownClock(e, p)' = KnownClock(e, p)
  BY DEF QuietStep, LiveClock, TombClock, KnownClock
<1>4. /\ LiveClock(p)[d] \in Nat /\ TombClock(p)[d] \in Nat
      /\ KnownClock(h, p)[d] \in Nat
  BY CountsAreNumbers
<1>5. LiveClock(p)'[d] <= Limit(d, p)' /\ TombClock(p)'[d] <= Limit(d, p)'
  BY <1>1, <1>2, <1>3, <1>4 DEF Counted
<1>6. ASSUME d # h, pc'[h] \in {"locked", "replied"}, req'[h].path = p
      PROVE  reply'[h].clock[d] <= Limit(d, p)'
  <2>1. CASE pc'[h] = pc[h] /\ req'[h] = req[h] /\ reply'[h] = reply[h]
    BY <2>1, <1>6, <1>1, <1>2, HeardCounts DEF Counted
  <2>2. CASE ~(pc'[h] = pc[h] /\ req'[h] = req[h] /\ reply'[h] = reply[h])
    <3>1. reply'[h].clock \in {EmptyClock, LiveClock(p), TombClock(p)}
      BY <2>2, <1>6 DEF QuietStep
    <3>2. EmptyClock[d] = 0
      BY DEF EmptyClock
    <3>. QED
      BY <3>1, <3>2, <1>1, <1>2, <1>4 DEF Counted
  <2>. QED
    BY <2>1, <2>2
<1>7. ASSUME NEW i \in DOMAIN plan'[h], IsPut(plan'[h][i], p)
      PROVE  /\ d # h => plan'[h][i].clock[d] <= Limit(d, p)'
             /\ req'[h].path = p /\ plan'[h][i].clock[h] <= KnownClock(h, p)'[h] + 1
  <2>1. plan'[h] = plan[h] /\ req'[h] = req[h]
    BY <1>7 DEF QuietStep
  <2>2. i \in DOMAIN plan[h] /\ IsPut(plan[h][i], p) /\ plan'[h][i] = plan[h][i]
    BY <1>7, <2>1
  <2>3. plan[h][i].clock[d] \in Nat
    BY <2>2, HeardCounts
  <2>. QED
    BY <1>1, <1>2, <1>3, <2>1, <2>2, <2>3 DEF Counted
<1>8. KnownClock(h, p)'[d] <= Limit(d, p)' \/ d = h
  BY <1>1, <1>2, <1>3, <1>4 DEF Counted
<1>. QED
  BY <1>2, <1>3, <1>5, <1>6, <1>7, <1>8, CountedAfter DEF QuietStep

-----------------------------------------------------------------------------
(* The host's steps.                                                        *)

\* The handler of h moves on.
HandlerStep(h) ==
  /\ UNCHANGED <<req, table, known, call, detached, now>>
  /\ pc[h] # "idle" /\ pc'[h] # "idle"
  /\ pc' \in [Device -> Busy] /\ DOMAIN plan' = Device /\ DOMAIN reply' = Device
  /\ OthersRest(h)

\* A request that nothing touches stands where it stood, at the host ...
LEMMA AtHostRests ==
  ASSUME NEW e, AtHost(e), pc'[e] = pc[e], req'[e] = req[e], plan'[e] = plan[e],
         reply'[e] = reply[e]
  PROVE  AtHost(e)'
  BY DEF AtHost, Mutating

\* ... and at the mount.
LEMMA AtMountRests ==
  ASSUME NEW e, AtMount(e), pc'[e] = "idle" <=> pc[e] = "idle", req'[e] = req[e],
         call'[e] = call[e], known'[e] = known[e]
  PROVE  AtMount(e)'
  BY DEF AtMount, Mutating, NextClock, KnownClock

\* When a handler moves on, only its own request has to be looked at.
LEMMA HandlerLinks ==
  ASSUME Typed, LinkInv, NEW h \in Device, HandlerStep(h), AtHost(h)',
         DOMAIN disk' \subseteq Path,
         \A p \in DOMAIN clocks' : clocks'[p].clock \in Clock,
         \A p \in DOMAIN tombs' : tombs'[p].clock \in Clock
  PROVE  Typed' /\ LinkInv'
<1>1. \A e \in Device : AtHost(e)'
  BY AtHostRests DEF HandlerStep, OthersRest, LinkInv
<1>2. \A e \in Device : pc'[e] = "idle" <=> pc[e] = "idle"
  BY DEF HandlerStep, OthersRest
<1>3. \A e \in Device : AtMount(e)'
  BY <1>2, AtMountRests DEF HandlerStep, LinkInv
<1>4. LinkInv'
  BY <1>1, <1>3 DEF HandlerStep, LinkInv
<1>5. Typed'
  BY DEF Typed, HandlerStep, Busy
<1>. QED
  BY <1>4, <1>5

\* A handler without a plan has nothing that could be wrong.
LEMMA NothingPlanned ==
  ASSUME Typed
  PROVE ChangesAFile(<<>>)
<1>1. Fine(DropClock(Root)) /\ ~OnDisk(DropClock(Root))
  BY FineOps
<1>. QED
  BY <1>1, FinePlans

Held == Typed /\ LinkInv /\ CountInv

\* The handler of h moves on before it has the lock: what it answers is what
\* the stores have.
Early(h) ==
  /\ pc[h] \in {"accepted", "staging", "found"}
  /\ pc'[h] \in {"staging", "waiting", "found", "replied"}
  /\ UNCHANGED <<clocks, tombs, req, plan, table, known, call, detached, now>>
  /\ OthersRest(h) /\ pc' \in [Device -> Busy] /\ DOMAIN reply' = Device
  /\ DOMAIN disk' \subseteq Path
  /\ pc'[h] = "found" => req[h].op = "stat"
  /\ pc'[h] \in {"staging", "waiting"} => Mutating(h)
  /\ reply'[h].clock \in Clock
  /\ pc'[h] = "replied" => /\ reply'[h].clock \in {EmptyClock, LiveClock(req[h].path)}
                           /\ req[h].op = "list" => \A p \in reply'[h].seen : IsName(p)

\* Then the counts are as ahead as before.
LEMMA EarlyStep ==
  ASSUME Held, NEW h \in Device, Early(h)
  PROVE  Held'
<1>. USE DEF Held
<1>1. HandlerStep(h)
  BY DEF HandlerStep, Early, Typed
<1>2. AtHost(h)
  BY DEF LinkInv
<1>3. AtHost(h)'
  BY <1>2, Zenon DEF AtHost, Mutating, Early
<1>4. QuietStep(h)
  BY DEF QuietStep, Published, Early
<1>5. CountInv'
  BY <1>4, QuietCount
<1>6. Typed' /\ LinkInv'
  BY <1>1, <1>3, HandlerLinks DEF Typed, Early
<1>. QED
  BY <1>5, <1>6

\* A handler that goes to x, with a to answer.
LEMMA GoesTo ==
  ASSUME Typed, NEW h \in Device, NEW x \in Busy, NEW a,
         pc' = [pc EXCEPT ![h] = x], reply' = [reply EXCEPT ![h] = a]
  PROVE  /\ pc' \in [Device -> Busy] /\ pc'[h] = x
         /\ DOMAIN reply' = Device /\ reply'[h] = a
         /\ \A e \in Device \ {h} : pc'[e] = pc[e] /\ reply'[e] = reply[e]
  BY DEF Typed, Busy

\* The same when it answers nothing yet.
LEMMA GoesToKeeping ==
  ASSUME Typed, NEW h \in Device, NEW x \in Busy,
         pc' = [pc EXCEPT ![h] = x], reply' = reply
  PROVE  /\ pc' \in [Device -> Busy] /\ pc'[h] = x
         /\ DOMAIN reply' = Device /\ reply'[h] = reply[h]
         /\ \A e \in Device \ {h} : pc'[e] = pc[e] /\ reply'[e] = reply[e]
  BY DEF Typed, Busy

\* What a step of the host leaves alone.
LEMMA AtTheHost ==
  ASSUME UNCHANGED <<mount, history>>
  PROVE  UNCHANGED <<table, bufs, known, call, opened, dentry, edits, shown, told, cut, renamed>>
  BY DEF mount, history

\* The parts of an answer.
LEMMA AnswerFields ==
  /\ \A result, c, seen : /\ Answer(result, c, seen).result = result
                          /\ Answer(result, c, seen).clock = c
                          /\ Answer(result, c, seen).seen = seen
  /\ \A result, c : /\ Reply(result, c).result = result
                    /\ Reply(result, c).clock = c /\ Reply(result, c).seen = {}
  BY DEF Answer, Reply

\* A look at a file, its clock or a directory.
LEMMA LookAhead ==
  ASSUME Held, NEW h \in Device, Look(h), UNCHANGED <<mount, history>>
  PROVE  Held'
<1>0. {"found", "replied"} \subseteq Busy
  BY DEF Busy
<1>1. LiveClock(req[h].path) \in Clock /\ EmptyClock \in Clock
  BY ClocksAreClocks, EmptyClockType DEF Held
<1>2. AtHost(h) /\ DOMAIN disk \subseteq Path /\ Typed
  BY DEF LinkInv, Typed, Held
<1>3. UNCHANGED <<table, known, call>>
  BY AtTheHost
<1>4. /\ pc[h] \in {"accepted", "found"}
      /\ UNCHANGED <<disk, clocks, tombs, req, plan, detached, now>>
  BY DEF Look, StatFile, StatClock, ReadFile, ListDir, store
<1>5. /\ pc' \in [Device -> Busy] /\ pc'[h] \in {"found", "replied"}
      /\ DOMAIN reply' = Device /\ OthersRest(h)
      /\ reply'[h].clock \in {EmptyClock, LiveClock(req[h].path)}
      /\ pc'[h] = "found" => req[h].op = "stat"
      /\ req[h].op = "list" => \A p \in reply'[h].seen : IsName(p)
  <2>1. CASE StatFile(h)
    <3>1. CASE reply' = [reply EXCEPT ![h] = Answer("Found", EmptyClock, {disk[req[h].path]})]
               /\ pc' = [pc EXCEPT ![h] = "found"]
      <4>. DEFINE a == Answer("Found", EmptyClock, {disk[req[h].path]})
      <4>1. /\ pc' = [pc EXCEPT ![h] = "found"] /\ reply' = [reply EXCEPT ![h] = a]
            /\ req[h].op = "stat" /\ a.clock = EmptyClock
        BY <2>1, <3>1, AnswerFields DEF StatFile
      <4>. HIDE DEF a
      <4>. QED
        BY <1>0, <1>2, <1>4, <4>1, GoesTo DEF OthersRest
    <3>2. ASSUME NEW result, Finish(h, result, EmptyClock)
          PROVE  /\ pc' \in [Device -> Busy] /\ pc'[h] \in {"found", "replied"}
                 /\ DOMAIN reply' = Device /\ OthersRest(h)
                 /\ reply'[h].clock \in {EmptyClock, LiveClock(req[h].path)}
                 /\ pc'[h] = "found" => req[h].op = "stat"
                 /\ req[h].op = "list" => \A p \in reply'[h].seen : IsName(p)
      <4>. DEFINE a == Reply(result, EmptyClock)
      <4>1. /\ pc' = [pc EXCEPT ![h] = "replied"] /\ reply' = [reply EXCEPT ![h] = a]
            /\ req[h].op = "stat" /\ a.clock = EmptyClock
        BY <2>1, <3>2, AnswerFields DEF StatFile, Finish
      <4>. HIDE DEF a
      <4>. QED
        BY <1>0, <1>2, <1>4, <4>1, GoesTo DEF OthersRest
    <3>. QED
      BY <2>1, <3>1, <3>2 DEF StatFile
  <2>2. CASE StatClock(h)
    <3>. DEFINE a == Answer("Found", LiveClock(req[h].path), reply[h].seen)
    <3>1. /\ pc' = [pc EXCEPT ![h] = "replied"] /\ reply' = [reply EXCEPT ![h] = a]
          /\ req[h].op = "stat" /\ a.clock = LiveClock(req[h].path)
      BY <1>2, <2>2, AnswerFields DEF StatClock, AtHost
    <3>. HIDE DEF a
    <3>. QED
      BY <1>0, <1>2, <1>4, <3>1, GoesTo DEF OthersRest
  <2>3. CASE ReadFile(h)
    <3>. DEFINE a == IF IsFile(req[h].path) THEN Answer("Data", EmptyClock, {disk[req[h].path]})
                     ELSE Reply("Error", EmptyClock)
    <3>1. /\ pc' = [pc EXCEPT ![h] = "replied"] /\ reply' = [reply EXCEPT ![h] = a]
          /\ req[h].op = "read" /\ a.clock = EmptyClock
      BY <2>3, AnswerFields DEF ReadFile
    <3>. HIDE DEF a
    <3>. QED
      BY <1>0, <1>2, <1>4, <3>1, GoesTo DEF OthersRest
  <2>4. CASE ListDir(h)
    <3>. DEFINE a == IF IsDir(req[h].path)
                     THEN Answer("Listing", EmptyClock, Children(req[h].path))
                     ELSE Reply("Error", EmptyClock)
    <3>1. /\ pc' = [pc EXCEPT ![h] = "replied"] /\ reply' = [reply EXCEPT ![h] = a]
          /\ a.clock = EmptyClock
      BY <2>4, AnswerFields DEF ListDir
    <3>2. \A p \in a.seen : IsName(p)
      <4>1. \A p \in Children(req[h].path) : IsName(p)
        BY <1>2 DEF Children, IsName
      <4>. QED
        BY <4>1, AnswerFields
    <3>. HIDE DEF a
    <3>. QED
      BY <1>0, <1>2, <1>4, <3>1, <3>2, GoesTo DEF OthersRest
  <2>. QED
    BY <2>1, <2>2, <2>3, <2>4 DEF Look
<1>6. Early(h)
  BY <1>1, <1>2, <1>3, <1>4, <1>5 DEF Early
<1>. QED
  BY <1>6, EarlyStep

\* A handler that has nothing to look for fails, or goes on with what it has.
LEMMA FailsEarly ==
  ASSUME Held, NEW h \in Device, pc[h] \in {"accepted", "staging"},
         NEW x \in {"staging", "waiting"},
         \/ Finish(h, "Error", EmptyClock)
         \/ pc' = [pc EXCEPT ![h] = x] /\ reply' = reply,
         UNCHANGED <<clocks, tombs, req, plan, detached, now>>, Mutating(h),
         DOMAIN disk' \subseteq Path, UNCHANGED <<mount, history>>
  PROVE  Held'
<1>1. UNCHANGED <<table, known, call>>
  BY AtTheHost
<1>2. EmptyClock \in Clock /\ reply[h].clock \in Clock /\ Typed
  BY EmptyClockType DEF Held, LinkInv, AtHost
<1>3. req[h].op # "list"
  BY DEF Mutating, Mutation
<1>4. /\ pc' \in [Device -> Busy] /\ pc'[h] \in {"replied", "staging", "waiting"}
      /\ DOMAIN reply' = Device /\ OthersRest(h)
      /\ reply'[h].clock \in Clock /\ (pc'[h] = "replied" => reply'[h].clock = EmptyClock)
  <2>1. CASE Finish(h, "Error", EmptyClock)
    <3>. DEFINE a == Reply("Error", EmptyClock)
    <3>1. /\ pc' = [pc EXCEPT ![h] = "replied"] /\ reply' = [reply EXCEPT ![h] = a]
          /\ a.clock = EmptyClock
      BY <2>1, AnswerFields DEF Finish
    <3>. HIDE DEF a
    <3>. QED
      BY <1>2, <3>1, GoesTo DEF OthersRest, Busy
  <2>2. CASE pc' = [pc EXCEPT ![h] = x] /\ reply' = reply
    BY <1>2, <2>2, GoesToKeeping DEF OthersRest, Busy
  <2>. QED
    BY <2>1, <2>2
<1>5. Early(h)
  BY <1>1, <1>2, <1>3, <1>4 DEF Early
<1>. QED
  BY <1>5, EarlyStep

\* The recreation of a deleted parent.
LEMMA EnsureParentAhead ==
  ASSUME Held, NEW h \in Device, EnsureParent(h), UNCHANGED <<mount, history>>
  PROVE  Held'
<1>1. AtHost(h) /\ DOMAIN disk \subseteq Path
  BY DEF LinkInv, Typed, Held
<1>2. /\ pc[h] = "accepted" /\ Mutating(h)
      /\ UNCHANGED <<clocks, tombs, req, plan, detached, now>>
  BY DEF EnsureParent, Mutating, Mutation, store
<1>3. DOMAIN disk' \subseteq Path
  <2>1. req[h].path \in Path
    BY <1>1, <1>2 DEF AtHost
  <2>2. Ancestors(req[h].path) \subseteq Path
    BY <2>1, AncestorsOfAncestors
  <2>. QED
    BY <1>1, <2>2 DEF EnsureParent
<1>4. PICK x \in {"staging", "waiting"} :
        \/ Finish(h, "Error", EmptyClock)
        \/ pc' = [pc EXCEPT ![h] = x] /\ reply' = reply
  BY DEF EnsureParent
<1>. QED
  BY <1>2, <1>3, <1>4, FailsEarly

\* The staging of a streamed write.
LEMMA StageAhead ==
  ASSUME Held, NEW h \in Device, Stage(h), UNCHANGED <<mount, history>>
  PROVE  Held'
<1>1. AtHost(h) /\ AtMount(h) /\ DOMAIN disk \subseteq Path /\ now \in Nat
  BY DEF LinkInv, Typed, Held
<1>2. /\ pc[h] = "staging" /\ Mutating(h)
      /\ UNCHANGED <<clocks, tombs, req, plan, detached, now>>
  BY <1>1 DEF Stage, AtHost, store
<1>3. TempPath(req[h].path, h) \in Path
  BY <1>1, <1>2, CopiedPaths DEF AtMount, IsName
<1>4. DOMAIN disk' \subseteq Path
  BY <1>1, <1>3 DEF Stage, With
<1>5. \/ Finish(h, "Error", EmptyClock)
      \/ pc' = [pc EXCEPT ![h] = "waiting"] /\ reply' = reply
  BY DEF Stage
<1>. QED
  BY <1>2, <1>4, <1>5, FailsEarly

\* What a store has after an operation it had before, or the operation put it.
LEMMA StoredAfter ==
  ASSUME NEW op, NEW p, op.do \notin {"rekey_clocks", "rekey_tombs"}
  PROVE  /\ \/ ClockIn(ClocksAfter(op), p) \in {LiveClock(p), EmptyClock}
            \/ IsPut(op, p) /\ ClockIn(ClocksAfter(op), p) = op.clock
         /\ \/ ClockIn(TombsAfter(op), p) \in {TombClock(p), EmptyClock}
            \/ IsPut(op, p) /\ ClockIn(TombsAfter(op), p) = op.clock
         /\ OnDisk(op) => ClocksAfter(op) = clocks /\ TombsAfter(op) = tombs
<1>. USE DEF ClockIn, LiveClock, TombClock
<1>1. CASE op.do = "put_clock"
  <2>1. ClocksAfter(op) = With(clocks, op.path, [clock |-> op.clock, at |-> now])
    BY <1>1, Zenon DEF ClocksAfter
  <2>2. TombsAfter(op) = tombs
    BY <1>1, Zenon DEF TombsAfter
  <2>. QED
    BY <1>1, <2>1, <2>2 DEF With, IsPut, OnDisk
<1>2. CASE op.do = "put_tomb"
  <2>. DEFINE t == IF op.path \in DOMAIN tombs THEN tombs[op.path].at ELSE now
  <2>1. TombsAfter(op) = With(tombs, op.path, [clock |-> op.clock, at |-> t])
    BY <1>2, Zenon DEF TombsAfter
  <2>2. ClocksAfter(op) = clocks
    BY <1>2, Zenon DEF ClocksAfter
  <2>. HIDE DEF t
  <2>. QED
    BY <1>2, <2>1, <2>2 DEF With, IsPut, OnDisk
<1>3. CASE op.do \notin {"put_clock", "put_tomb"}
  <2>1. ClocksAfter(op) \in {Without(clocks, {op.path}), clocks}
    BY <1>3, Zenon DEF ClocksAfter
  <2>2. TombsAfter(op) \in {Without(tombs, {op.path}), tombs}
    BY <1>3, Zenon DEF TombsAfter
  <2>3. OnDisk(op) => ClocksAfter(op) = clocks /\ TombsAfter(op) = tombs
    <3>1. OnDisk(op) => op.do \notin {"drop_clock", "drop_tomb"}
      BY DEF OnDisk
    <3>. QED
      BY <1>3, <3>1, Zenon DEF ClocksAfter, TombsAfter
  <2>. QED
    BY <2>1, <2>2, <2>3 DEF Without
<1>. QED
  BY <1>1, <1>2, <1>3

\* A store of clocks stays one.
LEMMA StoresStayClocks ==
  ASSUME Typed, NEW op, Fine(op)
  PROVE  /\ \A p \in DOMAIN ClocksAfter(op) : ClocksAfter(op)[p].clock \in Clock
         /\ \A p \in DOMAIN TombsAfter(op) : TombsAfter(op)[p].clock \in Clock
<1>1. op.do \notin {"rekey_clocks", "rekey_tombs"}
  BY DEF Fine
<1>2. \A p : IsPut(op, p) => op.clock \in Clock
  BY DEF Fine, Sound, IsPut
<1>3. \A p : LiveClock(p) \in Clock /\ TombClock(p) \in Clock
  BY EmptyClockType DEF Typed, LiveClock, TombClock, ClockIn
<1>4. \A p : ClockIn(ClocksAfter(op), p) \in Clock /\ ClockIn(TombsAfter(op), p) \in Clock
  BY <1>1, <1>2, <1>3, StoredAfter, EmptyClockType
<1>. QED
  BY <1>4, Zenon DEF ClockIn

\* The place a moved path gets is a path.
LEMMA RebasedPaths ==
  ASSUME NEW from \in Path, NEW to \in Path, NEW p \in Path, Within(from, p)
  PROVE  Rebase(p, from, to) \in Path
<1>1. /\ p \in Seq(Leaf) /\ to \in Seq(Leaf) /\ Len(p) \in Nat /\ Len(from) \in Nat
      /\ Len(from) <= Len(p)
  BY DEF Path, Within
<1>2. SubSeq(p, Len(from) + 1, Len(p)) \in Seq(Leaf)
  <2>1. \A i \in (Len(from) + 1)..Len(p) : p[i] \in Leaf
    BY <1>1
  <2>. QED
    BY <1>1, <2>1, SubSeqProperties
<1>. QED
  BY <1>1, <1>2 DEF Path, Rebase

\* The directory of paths stays one.
LEMMA DiskStaysPaths ==
  ASSUME Typed, NEW op, Fine(op)
  PROVE  DOMAIN DiskAfter(op) \subseteq Path
<1>1. DOMAIN disk \subseteq Path
  BY DEF Typed
<1>2. CASE op.do = "move"
  <2>. DEFINE source == {p \in DOMAIN disk : Within(op.path, p)}
              target == {Rebase(p, op.path, op.to) : p \in source}
  <2>1. op.path \in Path /\ op.to \in Path
    BY <1>2 DEF Fine
  <2>2. target \subseteq Path
    BY <1>1, <2>1, RebasedPaths
  <2>3. DOMAIN Moved(disk, op.path, op.to) = (DOMAIN disk \ source) \cup target
    BY Zenon DEF Moved
  <2>4. DiskAfter(op) = Moved(disk, op.path, op.to)
    BY <1>2, Zenon DEF DiskAfter
  <2>. HIDE DEF source, target
  <2>. QED
    BY <1>1, <2>2, <2>3, <2>4
<1>3. CASE op.do = "remove"
  <2>1. DiskAfter(op) = Without(disk, {op.path})
    BY <1>3, Zenon DEF DiskAfter
  <2>. QED
    BY <1>1, <2>1 DEF Without
<1>4. CASE op.do \notin {"move", "remove"}
  <2>1. op.do \notin {"write", "mkdir", "move", "remove"}
    BY <1>4 DEF Fine
  <2>2. DiskAfter(op) = disk
    BY <2>1, Zenon DEF DiskAfter
  <2>. QED
    BY <1>1, <2>2
<1>. QED
  BY <1>2, <1>3, <1>4

\* What is left of a plan.
LEMMA TailChanges ==
  ASSUME NEW s, ChangesAFile(s), s # <<>>
  PROVE  /\ ChangesAFile(Tail(s)) /\ Head(s) = s[1] /\ Fine(s[1]) /\ 1 \in DOMAIN s
         /\ \A i \in DOMAIN Tail(s) :
              i + 1 \in DOMAIN s /\ Tail(s)[i] = s[i + 1] /\ ~OnDisk(Tail(s)[i])
<1>1. /\ IsPlan(Tail(s)) /\ Head(s) = s[1] /\ 1 \in DOMAIN s
      /\ \A i \in DOMAIN Tail(s) : i \in Nat \ {0} /\ i + 1 \in DOMAIN s /\ Tail(s)[i] = s[i + 1]
  <2>1. /\ Len(s) \in Nat \ {0} /\ DOMAIN s = 1..Len(s)
        /\ DOMAIN Tail(s) = 1..(Len(s) - 1)
        /\ \A i \in 1..(Len(s) - 1) : Tail(s)[i] = s[i + 1]
        /\ IsPlan(Tail(s)) /\ Head(s) = s[1]
    BY TailPlan DEF ChangesAFile
  <2>. QED
    BY <2>1
<1>2. \A i \in DOMAIN Tail(s) : ~OnDisk(Tail(s)[i])
  BY <1>1 DEF ChangesAFile
<1>3. Fine(s[1])
  BY <1>1 DEF ChangesAFile, Fine, IsPlan, Sound
<1>. QED
  BY <1>1, <1>2, <1>3 DEF ChangesAFile

\* A merge counts as many changes as the larger of its two clocks.
LEMMA MergeCounts ==
  ASSUME NEW a \in Clock, NEW b \in Clock, NEW d \in Device, NEW n \in Nat
  PROVE  /\ Merge(a, b)[d] \in Nat /\ a[d] <= Merge(a, b)[d] /\ b[d] <= Merge(a, b)[d]
         /\ a[d] <= n /\ b[d] <= n => Merge(a, b)[d] <= n
  BY DEF Merge, Larger, Clock

\* The clock of a change has one more of its device, and of the others what the
\* device knows.
LEMMA NextCounts ==
  ASSUME Typed, NEW h \in Device, NEW p, NEW d \in Device
  PROVE  /\ NextClock(h, p) \in Clock
         /\ NextClock(h, p)[d] = KnownClock(h, p)[d] + (IF d = h THEN 1 ELSE 0)
<1>1. KnownClock(h, p) \in Clock
  BY ClocksAreClocks
<1>2. KnownClock(h, p)[d] \in Nat
  BY <1>1 DEF Clock
<1>. QED
  BY <1>1, <1>2, TickType DEF NextClock, Tick, Clock

\* A change by h, weighed against the stores, has of the others no more than
\* there may be, and of h one more than h knows.
LEMMA AnswersCount ==
  ASSUME Typed, CountInv, NEW h \in Device, NEW p \in Files, IsOriginal(p), NEW x,
         AnswerOf(p, NextClock(h, p), x) \/ x = EmptyClock, NEW d \in Device,
         ~Published(h, p)
  PROVE  /\ d # h => x[d] <= Limit(d, p)
         /\ x[h] <= KnownClock(h, p)[h] + 1
<1>1. \A e \in Device : Counted(e, p)
  BY DEF CountInv
<1>2. ASSUME NEW e \in Device, NEW n \in Nat, LiveClock(p)[e] <= n, TombClock(p)[e] <= n,
             NextClock(h, p)[e] <= n
      PROVE  x[e] <= n
  <2>1. LiveClock(p) \in Clock /\ TombClock(p) \in Clock /\ NextClock(h, p) \in Clock
    BY ClocksAreClocks, NextCounts
  <2>2. EmptyClock[e] <= n
    BY DEF EmptyClock
  <2>3. Merge(LiveClock(p), NextClock(h, p))[e] <= n /\ Merge(TombClock(p), NextClock(h, p))[e] <= n
    BY <1>2, <2>1, MergeCounts
  <2>. QED
    BY <1>2, <2>2, <2>3 DEF AnswerOf
<1>3. ASSUME d # h PROVE x[d] <= Limit(d, p)
  <2>1. /\ LiveClock(p)[d] <= Limit(d, p) /\ TombClock(p)[d] <= Limit(d, p)
        /\ KnownClock(h, p)[d] <= Limit(d, p) /\ Limit(d, p) \in Nat
        /\ KnownClock(h, p)[d] \in Nat
    BY <1>1, <1>3, CountsAreNumbers DEF Counted
  <2>2. NextClock(h, p)[d] <= Limit(d, p)
    BY <1>3, <2>1, NextCounts
  <2>. QED
    BY <1>2, <2>1, <2>2
<1>4. x[h] <= KnownClock(h, p)[h] + 1
  <2>1. /\ LiveClock(p)[h] <= Limit(h, p) /\ TombClock(p)[h] <= Limit(h, p)
        /\ LiveClock(p)[h] \in Nat /\ TombClock(p)[h] \in Nat
        /\ Limit(h, p) = KnownClock(h, p)[h] /\ KnownClock(h, p)[h] \in Nat
    <3>1. KnownClock(h, p)[h] \in Nat /\ LiveClock(p)[h] \in Nat /\ TombClock(p)[h] \in Nat
      BY CountsAreNumbers
    <3>. QED
      BY <1>1, <3>1 DEF Counted, Limit
  <2>2. NextClock(h, p)[h] = KnownClock(h, p)[h] + 1
    BY NextCounts
  <2>. QED
    BY <1>2, <2>1, <2>2
<1>. QED
  BY <1>3, <1>4

\* A handler takes the lock with a plan.
AcquireStep(h) ==
  /\ UNCHANGED <<clocks, tombs, known, req>>
  /\ OthersRest(h)
  /\ pc[h] = "waiting" /\ pc'[h] = "locked"
  /\ \A p \in Files : req[h].path = p /\ IsOriginal(p) =>
       AnswerOf(p, NextClock(h, p), reply'[h].clock) \/ reply'[h].clock = EmptyClock
  /\ \A i \in DOMAIN plan'[h], p \in Files : IsPut(plan'[h][i], p) /\ IsOriginal(p) =>
       req[h].path = p /\ AnswerOf(p, NextClock(h, p), plan'[h][i].clock)

\* Nobody has heard of its change yet, and its plan counts one more at most.
LEMMA AcquireCount ==
  ASSUME Typed, LinkInv, CountInv, NEW h \in Device, AcquireStep(h)
  PROVE  CountInv'
<1>. SUFFICES ASSUME NEW d \in Device, NEW p \in Files, IsOriginal(p) PROVE Counted(d, p)'
  BY DEF CountInv, IsOriginal
<1>1. Counted(d, p) /\ ~Published(h, p)
  BY DEF CountInv, AcquireStep, Published
<1>2. Limit(d, p) \in Nat /\ Limit(d, p)' \in Nat /\ Limit(d, p) <= Limit(d, p)'
  <2>1. Published(d, p) => Published(d, p)'
    BY <1>1, OthersPublish DEF AcquireStep
  <2>. QED
    BY <2>1, LimitGrows, CountsAreNumbers DEF AcquireStep
<1>3. /\ LiveClock(p)' = LiveClock(p) /\ TombClock(p)' = TombClock(p)
      /\ \A e : KnownClock(e, p)' = KnownClock(e, p)
  BY DEF AcquireStep, LiveClock, TombClock, KnownClock
<1>4. /\ LiveClock(p)[d] \in Nat /\ TombClock(p)[d] \in Nat
      /\ KnownClock(h, p)[d] \in Nat
  BY CountsAreNumbers
<1>5. LiveClock(p)'[d] <= Limit(d, p)' /\ TombClock(p)'[d] <= Limit(d, p)'
  BY <1>1, <1>2, <1>3, <1>4 DEF Counted
<1>6. \A x : AnswerOf(p, NextClock(h, p), x) \/ x = EmptyClock =>
        /\ d # h => x[d] <= Limit(d, p)'
        /\ x[h] <= KnownClock(h, p)'[h] + 1
  <2>. TAKE x
  <2>. HAVE AnswerOf(p, NextClock(h, p), x) \/ x = EmptyClock
  <2>1. x[d] \in Nat
    <3>1. LiveClock(p) \in Clock /\ TombClock(p) \in Clock /\ NextClock(h, p) \in Clock
      BY ClocksAreClocks, NextCounts
    <3>2. x \in Clock
      BY <3>1, MergeType, EmptyClockType DEF AnswerOf
    <3>. QED
      BY <3>2 DEF Clock
  <2>2. (d # h => x[d] <= Limit(d, p)) /\ x[h] <= KnownClock(h, p)[h] + 1
    BY <1>1, AnswersCount
  <2>. QED
    BY <1>2, <1>3, <2>1, <2>2
<1>7. ASSUME NEW i \in DOMAIN plan'[h], IsPut(plan'[h][i], p)
      PROVE  /\ d # h => plan'[h][i].clock[d] <= Limit(d, p)'
             /\ req'[h].path = p /\ plan'[h][i].clock[h] <= KnownClock(h, p)'[h] + 1
  BY <1>6, <1>7 DEF AcquireStep
<1>8. d # h /\ pc'[h] \in {"locked", "replied"} /\ req'[h].path = p
        => reply'[h].clock[d] <= Limit(d, p)'
  BY <1>6 DEF AcquireStep
<1>9. KnownClock(h, p)'[d] <= Limit(d, p)' \/ d = h
  BY <1>1, <1>2, <1>3, <1>4 DEF Counted
<1>. QED
  BY <1>2, <1>3, <1>5, <1>7, <1>8, <1>9, CountedAfter DEF AcquireStep

\* A staged copy that goes leaves the directory one of paths.
LEMMA WithoutTempPaths ==
  ASSUME Typed, NEW h
  PROVE  DOMAIN WithoutTemp(disk, h) \subseteq Path
  BY DEF Typed, WithoutTemp, Without

\* The lock and the decision.
LEMMA AcquireAhead ==
  ASSUME Held, NEW h \in Device, Acquire(h), UNCHANGED <<mount, history>>
  PROVE  Held'
<1>. DEFINE r == req[h]
            o == Decide(h, r)
            a == Reply(o.result, o.clock)
<1>1. Typed /\ LinkInv /\ CountInv /\ AtHost(h) /\ AtMount(h)
  BY DEF Held, LinkInv
<1>2. UNCHANGED <<table, known, call>>
  BY AtTheHost
<1>3. /\ pc[h] = "waiting" /\ Mutating(h) /\ plan[h] = <<>>
      /\ UNCHANGED <<clocks, tombs, req, detached, now>>
  BY <1>1 DEF Acquire, AtHost, store
<1>4. /\ r.op \in {"stream", "delete"} /\ IsName(r.path) /\ r.path \in Path
      /\ r.clock = NextClock(h, r.path)
  BY <1>1, <1>3 DEF AtMount, AtHost
<1>5. Decided(r, o)
  <2>1. r.clock \in Clock
    BY <1>1, <1>4, NextCounts
  <2>. QED
    BY <1>1, <1>4, <2>1, MountDecides
<1>6. a.result = o.result /\ a.clock = o.clock
  BY AnswerFields
<1>7. /\ o.ops = <<>> => /\ pc' = [pc EXCEPT ![h] = "replied"]
                         /\ reply' = [reply EXCEPT ![h] = a]
                         /\ plan' = plan /\ disk' = WithoutTemp(disk, h)
      /\ o.ops # <<>> => /\ pc' = [pc EXCEPT ![h] = "locked"]
                         /\ reply' = [reply EXCEPT ![h] = a]
                         /\ plan' = [plan EXCEPT ![h] = o.ops] /\ disk' = disk
  BY DEF Acquire, Finish
<1>. HIDE DEF o, a
<1>8. DOMAIN disk' \subseteq Path
  BY <1>1, <1>7, WithoutTempPaths DEF Typed
<1>9. r.op # "list"
  BY <1>4
<1>10. CASE o.ops = <<>>
  <2>1. /\ pc' \in [Device -> Busy] /\ pc'[h] = "replied" /\ OthersRest(h)
        /\ DOMAIN reply' = Device /\ reply'[h] = a /\ plan' = plan
    BY <1>1, <1>3, <1>7, <1>10, GoesTo DEF OthersRest, Busy
  <2>2. HandlerStep(h)
    BY <1>1, <1>2, <1>3, <2>1 DEF HandlerStep, Typed
  <2>3. /\ o.clock \in Clock
        /\ o.clock \in {EmptyClock, LiveClock(r.path), TombClock(r.path)}
    BY <1>5, <1>10 DEF Decided
  <2>4. AtHost(h)'
    BY <1>1, <1>3, <1>4, <1>6, <1>9, <2>1, <2>3, Zenon DEF AtHost, Mutating
  <2>5. QuietStep(h)
    BY <1>2, <1>3, <1>6, <2>1, <2>3 DEF QuietStep, Published
  <2>6. CountInv'
    BY <1>1, <2>5, QuietCount
  <2>7. Typed' /\ LinkInv'
    BY <1>1, <1>3, <1>8, <2>2, <2>4, HandlerLinks DEF Typed
  <2>. QED
    BY <2>6, <2>7 DEF Held
<1>11. CASE o.ops # <<>>
  <2>1. /\ pc' \in [Device -> Busy] /\ pc'[h] = "locked" /\ OthersRest(h)
        /\ DOMAIN reply' = Device /\ reply'[h] = a
        /\ DOMAIN plan' = Device /\ plan'[h] = o.ops
    <3>1. /\ DOMAIN plan' = Device /\ plan'[h] = o.ops
          /\ \A e \in Device \ {h} : plan'[e] = plan[e]
      BY <1>1, <1>7, <1>11 DEF Typed
    <3>2. pc' = [pc EXCEPT ![h] = "locked"] /\ reply' = [reply EXCEPT ![h] = a]
      BY <1>7, <1>11
    <3>3. "locked" \in Busy
      BY DEF Busy
    <3>. QED
      BY <1>1, <1>3, <3>1, <3>2, <3>3, GoesTo DEF OthersRest
  <2>2. HandlerStep(h)
    BY <1>1, <1>2, <1>3, <2>1 DEF HandlerStep, Typed
  <2>3. /\ o.clock \in Clock /\ ChangesAFile(o.ops) /\ o.result # "Error"
        /\ AnswerOf(r.path, r.clock, o.clock) \/ o.clock = EmptyClock
        /\ \A i \in DOMAIN o.ops, p \in Files :
             IsPut(o.ops[i], p) /\ IsOriginal(p)
               => p = r.path /\ AnswerOf(p, r.clock, o.ops[i].clock)
    BY <1>5, <1>11 DEF Decided
  <2>4. AtHost(h)'
    BY <1>1, <1>3, <1>4, <1>6, <1>11, <2>1, <2>3, Zenon DEF AtHost, Mutating
  <2>5. AcquireStep(h)
    BY <1>2, <1>3, <1>4, <1>6, <2>1, <2>3 DEF AcquireStep
  <2>6. CountInv'
    BY <1>1, <2>5, AcquireCount
  <2>7. Typed' /\ LinkInv'
    BY <1>1, <1>3, <1>8, <2>2, <2>4, HandlerLinks DEF Typed
  <2>. QED
    BY <2>6, <2>7 DEF Held
<1>. QED
  BY <1>10, <1>11

\* The failure of a file operation: nobody has heard of the change yet.
LEMMA StepFailsAhead ==
  ASSUME Held, NEW h \in Device, StepFails(h), UNCHANGED <<mount, history>>
  PROVE  Held'
<1>. DEFINE a == Reply("Error", EmptyClock)
<1>1. Typed /\ LinkInv /\ CountInv /\ AtHost(h) /\ AtMount(h)
  BY DEF Held, LinkInv
<1>2. UNCHANGED <<table, known, call>>
  BY AtTheHost
<1>3. /\ pc[h] = "locked" /\ Mutating(h) /\ plan[h] # <<>> /\ ChangesAFile(plan[h])
      /\ UNCHANGED <<clocks, tombs, req, detached, now>>
      /\ disk' = WithoutTemp(disk, h) /\ plan' = [plan EXCEPT ![h] = <<>>]
  BY <1>1 DEF StepFails, AtHost, store
<1>4. OnDisk(plan[h][1])
  <2>1. ~Possible(plan[h][1])
    BY <1>3, TailChanges DEF StepFails
  <2>. QED
    BY <2>1 DEF Possible, OnDisk
<1>5. /\ pc' = [pc EXCEPT ![h] = "replied"] /\ reply' = [reply EXCEPT ![h] = a]
      /\ a.clock = EmptyClock
  BY AnswerFields DEF StepFails, Finish
<1>. HIDE DEF a
<1>6. /\ pc' \in [Device -> Busy] /\ pc'[h] = "replied" /\ OthersRest(h)
      /\ DOMAIN reply' = Device /\ reply'[h] = a /\ DOMAIN plan' = Device /\ plan'[h] = <<>>
  <2>1. /\ DOMAIN plan' = Device /\ plan'[h] = <<>>
        /\ \A e \in Device \ {h} : plan'[e] = plan[e]
    BY <1>1, <1>3 DEF Typed
  <2>2. "replied" \in Busy
    BY DEF Busy
  <2>. QED
    BY <1>1, <1>3, <1>5, <2>1, <2>2, GoesTo DEF OthersRest
<1>7. HandlerStep(h)
  BY <1>1, <1>2, <1>3, <1>6 DEF HandlerStep, Typed
<1>8. AtHost(h)'
  <2>1. req[h].op # "list" /\ ChangesAFile(<<>>) /\ EmptyClock \in Clock
    BY <1>1, <1>3, NothingPlanned, EmptyClockType DEF Mutating, Mutation
  <2>. QED
    BY <1>1, <1>3, <1>5, <1>6, <2>1, Zenon DEF AtHost, Mutating
<1>9. QuietStep(h)
  BY <1>2, <1>3, <1>4, <1>5, <1>6 DEF QuietStep, Published
<1>10. CountInv'
  BY <1>1, <1>9, QuietCount
<1>11. DOMAIN disk' \subseteq Path
  BY <1>1, <1>3, WithoutTempPaths
<1>12. Typed' /\ LinkInv'
  BY <1>1, <1>3, <1>7, <1>8, <1>11, HandlerLinks DEF Typed
<1>. QED
  BY <1>10, <1>12 DEF Held

\* A handler carries out the first operation of its plan: from then on the host
\* may tell others of its change.
StepsOn(h) ==
  LET op == plan[h][1] IN
    /\ OthersRest(h) /\ UNCHANGED <<req, reply, known>>
    /\ pc[h] = "locked" /\ pc'[h] \in {"locked", "replied"} /\ Published(h, req[h].path)'
    /\ 1 \in DOMAIN plan[h] /\ Fine(op)
    /\ clocks' = ClocksAfter(op) /\ tombs' = TombsAfter(op)
    /\ \A i \in DOMAIN plan'[h] : i + 1 \in DOMAIN plan[h] /\ plan'[h][i] = plan[h][i + 1]

\* What it stores was counted while it was planned.
LEMMA StepCount ==
  ASSUME Typed, LinkInv, CountInv, NEW h \in Device, StepsOn(h)
  PROVE  CountInv'
<1>. DEFINE op == plan[h][1]
<1>. SUFFICES ASSUME NEW d \in Device, NEW p \in Files, IsOriginal(p) PROVE Counted(d, p)'
  BY DEF CountInv, IsOriginal
<1>1. Counted(d, p) /\ Counted(h, p)
  BY DEF CountInv
<1>2. Limit(d, p) \in Nat /\ Limit(d, p)' \in Nat /\ Limit(d, p) <= Limit(d, p)'
  <2>1. Published(h, p) => Published(h, p)'
    BY DEF StepsOn, Published, Mutating
  <2>2. Published(d, p) => Published(d, p)'
    BY <2>1, OthersPublish DEF StepsOn
  <2>. QED
    BY <2>2, LimitGrows, CountsAreNumbers DEF StepsOn
<1>3. \A e : KnownClock(e, p)' = KnownClock(e, p)
  BY DEF StepsOn, KnownClock
<1>4. /\ LiveClock(p)[d] \in Nat /\ TombClock(p)[d] \in Nat
      /\ KnownClock(h, p)[d] \in Nat /\ KnownClock(h, p)[h] \in Nat
  BY CountsAreNumbers
<1>5. \A i \in DOMAIN plan[h] : IsPut(plan[h][i], p) =>
        /\ plan[h][i].clock[d] \in Nat /\ plan[h][i].clock[d] <= Limit(d, p)'
        /\ d = h => req[h].path = p /\ plan[h][i].clock[h] <= KnownClock(h, p)[h] + 1
  <2>. TAKE i \in DOMAIN plan[h]
  <2>. HAVE IsPut(plan[h][i], p)
  <2>1. plan[h][i].clock[d] \in Nat
    BY HeardCounts
  <2>2. req[h].path = p /\ plan[h][i].clock[h] <= KnownClock(h, p)[h] + 1
    BY <1>1 DEF Counted
  <2>3. CASE d # h
    <3>1. plan[h][i].clock[d] <= Limit(d, p)
      BY <1>1, <2>3 DEF Counted
    <3>. QED
      BY <1>2, <2>1, <2>3, <3>1
  <2>4. CASE d = h
    <3>1. Limit(h, p)' = KnownClock(h, p)[h] + 1
      BY <1>3, <2>2 DEF Limit, StepsOn
    <3>. QED
      BY <2>1, <2>2, <2>4, <3>1
  <2>. QED
    BY <2>3, <2>4
<1>6. LiveClock(p)'[d] <= Limit(d, p)' /\ TombClock(p)'[d] <= Limit(d, p)'
  <2>1. op.do \notin {"rekey_clocks", "rekey_tombs"}
    BY DEF StepsOn, Fine
  <2>2. LiveClock(p)' = ClockIn(ClocksAfter(op), p) /\ TombClock(p)' = ClockIn(TombsAfter(op), p)
    BY DEF LiveClock, TombClock, ClockIn, StepsOn
  <2>3. \A x \in {LiveClock(p), TombClock(p), EmptyClock} : x[d] <= Limit(d, p)'
    BY <1>1, <1>2, <1>4 DEF Counted, EmptyClock
  <2>4. IsPut(op, p) => op.clock[d] <= Limit(d, p)'
    BY <1>5 DEF StepsOn
  <2>. HIDE DEF op
  <2>. QED
    BY <2>1, <2>2, <2>3, <2>4, StoredAfter
<1>7. d # h => /\ KnownClock(h, p)'[d] <= Limit(d, p)'
               /\ pc'[h] \in {"locked", "replied"} /\ req'[h].path = p
                    => reply'[h].clock[d] <= Limit(d, p)'
  <2>. HAVE d # h
  <2>1. KnownClock(h, p)'[d] <= Limit(d, p)'
    BY <1>1, <1>2, <1>3, <1>4 DEF Counted
  <2>2. req[h].path = p => reply[h].clock[d] <= Limit(d, p) /\ reply[h].clock[d] \in Nat
    BY <1>1, HeardCounts DEF Counted, StepsOn
  <2>. QED
    BY <1>2, <2>1, <2>2 DEF StepsOn
<1>8. \A i \in DOMAIN plan'[h] : IsPut(plan'[h][i], p) =>
        /\ plan'[h][i].clock[d] <= Limit(d, p)'
        /\ d = h => req'[h].path = p /\ plan'[h][i].clock[h] <= KnownClock(h, p)'[h] + 1
  BY <1>3, <1>5 DEF StepsOn
<1>. QED
  BY <1>2, <1>3, <1>6, <1>7, <1>8, CountedAfter DEF StepsOn

\* An operation of a plan, and the release of the lock after the last.
LEMMA StepAhead ==
  ASSUME Held, NEW h \in Device, Step(h), UNCHANGED <<mount, history>>
  PROVE  Held'
<1>. DEFINE op   == plan[h][1]
            rest == Tail(plan[h])
<1>1. Typed /\ LinkInv /\ CountInv /\ AtHost(h) /\ AtMount(h)
  BY DEF Held, LinkInv
<1>2. UNCHANGED <<table, known, call>>
  BY AtTheHost
<1>3. /\ pc[h] = "locked" /\ Mutating(h) /\ plan[h] # <<>> /\ ChangesAFile(plan[h])
      /\ reply[h].result # "Error" /\ reply[h].clock \in Clock
      /\ UNCHANGED <<req, reply, detached, now>>
  BY <1>1 DEF Step, AtHost
<1>4. /\ ChangesAFile(rest) /\ Head(plan[h]) = op /\ Fine(op) /\ 1 \in DOMAIN plan[h]
      /\ \A i \in DOMAIN rest :
           i + 1 \in DOMAIN plan[h] /\ rest[i] = plan[h][i + 1] /\ ~OnDisk(rest[i])
      /\ rest # <<>> => 1 \in DOMAIN rest
  BY <1>3, TailChanges
<1>5. /\ disk' = DiskAfter(op) /\ clocks' = ClocksAfter(op) /\ tombs' = TombsAfter(op)
      /\ plan' = [plan EXCEPT ![h] = rest]
      /\ rest = <<>> => pc' = [pc EXCEPT ![h] = "replied"]
      /\ rest # <<>> => pc' = pc
  BY <1>4 DEF Step
<1>. HIDE DEF op, rest
<1>6. /\ pc' \in [Device -> Busy] /\ OthersRest(h)
      /\ rest = <<>> => pc'[h] = "replied"
      /\ rest # <<>> => pc'[h] = "locked"
      /\ DOMAIN reply' = Device /\ DOMAIN plan' = Device /\ plan'[h] = rest
  BY <1>1, <1>3, <1>5 DEF Typed, OthersRest, Busy
<1>7. HandlerStep(h)
  BY <1>1, <1>2, <1>3, <1>6 DEF HandlerStep, Typed
<1>8. AtHost(h)'
  <2>1. req[h].op # "list"
    BY <1>3 DEF Mutating, Mutation
  <2>. QED
    BY <1>1, <1>3, <1>4, <1>6, <2>1, Zenon DEF AtHost, Mutating
<1>9. Published(h, req[h].path)'
  BY <1>3, <1>4, <1>6 DEF Published, Mutating
<1>10. StepsOn(h)
  BY <1>2, <1>3, <1>4, <1>5, <1>6, <1>9 DEF StepsOn, op
<1>11. CountInv'
  BY <1>1, <1>10, StepCount
<1>12. /\ DOMAIN disk' \subseteq Path
       /\ \A p \in DOMAIN clocks' : clocks'[p].clock \in Clock
       /\ \A p \in DOMAIN tombs' : tombs'[p].clock \in Clock
  BY <1>1, <1>4, <1>5, DiskStaysPaths, StoresStayClocks
<1>13. Typed' /\ LinkInv'
  BY <1>1, <1>7, <1>8, <1>12, HandlerLinks
<1>. QED
  BY <1>11, <1>13 DEF Held

\* The passing of a second.
LEMMA SecondAhead ==
  ASSUME Held, Second, UNCHANGED <<mount, history>>
  PROVE  Held'
<1>1. UNCHANGED <<table, known, call, disk, clocks, tombs, pc, req, plan, reply, detached>>
  BY AtTheHost DEF Second, store, rpc
<1>2. now' \in Nat
  BY DEF Second, Held, Typed
<1>3. Typed'
  BY <1>1, <1>2 DEF Typed, Held
<1>4. LinkInv'
  BY <1>1, AtHostRests, AtMountRests DEF Held, LinkInv
<1>5. CountInv'
  BY <1>1 DEF Held, CountInv, Counted, Limit, Published, Mutating, LiveClock, TombClock, KnownClock
<1>. QED
  BY <1>3, <1>4, <1>5 DEF Held

\* The steps of the host.
LEMMA HostAhead ==
  ASSUME Held, HostStep
  PROVE  Held'
<1>1. UNCHANGED <<mount, history>>
  BY DEF HostStep
<1>2. ASSUME NEW h \in Device, Handle(h) PROVE Held'
  BY <1>1, <1>2, EnsureParentAhead, StageAhead, LookAhead, AcquireAhead, StepAhead, StepFailsAhead
     DEF Handle
<1>3. ASSUME NEW op \in detached PROVE FALSE
  BY <1>3 DEF Held, LinkInv
<1>. QED
  BY <1>1, <1>2, <1>3, SecondAhead DEF HostStep

-----------------------------------------------------------------------------
(* The mounts' steps.                                                       *)

\* The mount of h moves on, and its request with it.
MountMoves(h) ==
  /\ UNCHANGED <<clocks, tombs, detached, now>> /\ DOMAIN disk' \subseteq Path
  /\ OthersRest(h) /\ \A e \in Device \ {h} : call'[e] = call[e] /\ known'[e] = known[e]
  /\ pc' \in [Device -> Busy]
  /\ DOMAIN req' = Device /\ DOMAIN plan' = Device /\ DOMAIN reply' = Device
  /\ DOMAIN known' = Device /\ DOMAIN call' = Device
  /\ \A p \in DOMAIN known'[h] : known'[h][p] \in Clock
  /\ \A d \in Device : NamesOf(table'[d])
  /\ AtHost(h)' /\ AtMount(h)'

\* Then all the others stand where they stood.
LEMMA MountLinks ==
  ASSUME Typed, LinkInv, NEW h \in Device, MountMoves(h)
  PROVE  Typed' /\ LinkInv'
<1>1. \A e \in Device : AtHost(e)' /\ AtMount(e)'
  BY AtHostRests, AtMountRests DEF MountMoves, OthersRest, LinkInv
<1>2. LinkInv'
  BY <1>1 DEF MountMoves, LinkInv
<1>3. Typed'
  BY DEF Typed, MountMoves, Busy
<1>. QED
  BY <1>2, <1>3

\* A callback that asks the host nothing.
LocalStep == UNCHANGED <<vars, known, call>> /\ \A d \in Device : NamesOf(table'[d])

\* It leaves everything as it was.
LEMMA LocalAhead ==
  ASSUME Held, LocalStep
  PROVE  Held'
<1>1. UNCHANGED <<disk, clocks, tombs, pc, req, plan, reply, detached, now, known, call>>
  BY DEF LocalStep, vars, store
<1>2. Typed'
  BY <1>1 DEF Typed, Held, LocalStep
<1>3. LinkInv'
  BY <1>1, AtHostRests, AtMountRests DEF Held, LinkInv
<1>4. CountInv'
  BY <1>1 DEF Held, CountInv, Counted, Limit, Published, Mutating, LiveClock, TombClock, KnownClock
<1>. QED
  BY <1>2, <1>3, <1>4 DEF Held

\* The call c waits for the request r.
Fits(h, c, r) ==
  /\ "op" \in DOMAIN c /\ r.path \in Path
  /\ \/ /\ c.op \in {"release", "fsync", "unlink"} /\ r.op \in {"stream", "delete"}
        /\ r.op = "stream" <=> c.op # "unlink"
        /\ IsName(r.path) /\ r.path = c.path /\ r.clock = NextClock(h, r.path)
     \/ /\ c.op \in {"lookup", "getattr", "readdir", "read", "open", "size", "load"}
        /\ r.op \in {"stat", "read", "list"} /\ r.clock = EmptyClock
        /\ c.op = "open" => r.op = "stat" /\ r.path = c.path
        /\ c.op = "readdir" => r.op = "list"
        /\ c.op \in {"lookup", "size"} => IsName(c.path)

\* A callback that asks the host: nobody has heard of its request yet.
LEMMA AskAhead ==
  ASSUME Held, NEW h \in Device, NEW c, NEW r, Fits(h, c, r), Ask(h, c, r), known' = known,
         \A d \in Device : NamesOf(table'[d])
  PROVE  Held'
<1>1. Typed /\ LinkInv /\ CountInv /\ AtHost(h)
  BY DEF Held, LinkInv
<1>2. /\ pc[h] = "idle" /\ plan[h] = <<>>
      /\ UNCHANGED <<disk, clocks, tombs, plan, reply, detached, now>>
  BY <1>1 DEF Ask, Submit, store, AtHost
<1>3. PICK x \in {"accepted", "waiting"} :
        pc' = [pc EXCEPT ![h] = x] /\ (x = "waiting" => r.op \notin {"stat", "read", "list"})
  BY DEF Ask, Submit
<1>4. /\ pc' \in [Device -> Busy] /\ pc'[h] = x /\ req'[h] = r /\ call'[h] = c
      /\ plan'[h] = plan[h] /\ reply'[h] = reply[h]
      /\ OthersRest(h) /\ \A e \in Device \ {h} : call'[e] = call[e]
      /\ DOMAIN req' = Device /\ DOMAIN call' = Device
  <2>1. req' = [req EXCEPT ![h] = r] /\ call' = [call EXCEPT ![h] = c]
    BY DEF Ask, Submit
  <2>. QED
    BY <1>1, <1>2, <1>3, <2>1 DEF Typed, OthersRest, Busy
<1>5. AtHost(h)'
  BY <1>1, <1>2, <1>3, <1>4 DEF AtHost, Mutating, Mutation, Fits
<1>6. AtMount(h)'
  <2>1. NextClock(h, r.path)' = NextClock(h, r.path)
    BY DEF NextClock, KnownClock
  <2>. QED
    BY <1>4, <2>1 DEF AtMount, Mutating, Mutation, Fits
<1>7. MountMoves(h)
  BY <1>1, <1>2, <1>4, <1>5, <1>6 DEF MountMoves, Typed
<1>8. QuietStep(h)
  BY <1>2, <1>4 DEF QuietStep, Published
<1>. QED
  BY <1>1, <1>7, <1>8, MountLinks, QuietCount DEF Held

\* What h waited for is over, and it is left with the call c.
Forgets(h, c) ==
  /\ Forget(h) /\ call' = [call EXCEPT ![h] = c]
  /\ UNCHANGED <<clocks, tombs, detached, now>> /\ DOMAIN disk' \subseteq Path
  /\ \A d \in Device : NamesOf(table'[d])
  /\ "op" \in DOMAIN c /\ c.op \in {"none", "fetch", "enlist"}
  /\ c.op = "fetch" => IsName(c.path)
  /\ c.op = "enlist" => "todo" \in DOMAIN c /\ \A p \in c.todo : IsName(p)

\* No handler works for it then.
LEMMA ForgetRests ==
  ASSUME Typed, LinkInv, NEW h \in Device, NEW c, Forgets(h, c)
  PROVE  /\ pc' \in [Device -> Busy] /\ pc'[h] = "idle" /\ plan'[h] = <<>> /\ OthersRest(h)
         /\ \A p : ~Published(h, p)'
         /\ /\ DOMAIN known' = Device
            /\ \A e \in Device \ {h} : known'[e] = known[e]
            /\ \A p \in DOMAIN known'[h] : known'[h][p] \in Clock
            => MountMoves(h)
<1>1. /\ pc' = [pc EXCEPT ![h] = "idle"] /\ req' = [req EXCEPT ![h] = NoRequest]
      /\ plan' = [plan EXCEPT ![h] = <<>>] /\ reply' = [reply EXCEPT ![h] = NoReply]
      /\ call' = [call EXCEPT ![h] = c]
  BY DEF Forgets, Forget
<1>2. NoRequest.op = "none" /\ NoReply.clock = EmptyClock
  BY DEF NoRequest, NoReply
<1>. HIDE DEF NoRequest, NoReply
<1>3. /\ pc' \in [Device -> Busy] /\ pc'[h] = "idle" /\ req'[h] = NoRequest
      /\ plan'[h] = <<>> /\ reply'[h] = NoReply /\ call'[h] = c
      /\ OthersRest(h) /\ \A e \in Device \ {h} : call'[e] = call[e]
      /\ DOMAIN req' = Device /\ DOMAIN plan' = Device /\ DOMAIN reply' = Device
      /\ DOMAIN call' = Device
  BY <1>1 DEF Typed, OthersRest, Busy
<1>4. AtHost(h)'
  BY <1>2, <1>3, NothingPlanned, EmptyClockType DEF AtHost, Mutating, Mutation
<1>5. AtMount(h)'
  BY <1>2, <1>3 DEF AtMount, Mutating, Mutation, Forgets
<1>6. \A p : ~Published(h, p)'
  BY <1>3 DEF Published
<1>. QED
  BY <1>3, <1>4, <1>5, <1>6 DEF MountMoves, Forgets

\* A request that ends and nobody has heard of.
LEMMA ForgetAhead ==
  ASSUME Held, NEW h \in Device, NEW c, Forgets(h, c), known' = known,
         \A p : ~Published(h, p)
  PROVE  Held'
<1>1. Typed /\ LinkInv /\ CountInv
  BY DEF Held
<1>2. MountMoves(h)
  BY <1>1, ForgetRests DEF Typed
<1>3. QuietStep(h)
  BY <1>1, ForgetRests DEF QuietStep, Forgets
<1>. QED
  BY <1>1, <1>2, <1>3, MountLinks, QuietCount DEF Held

\* A device learns c of p from the answer to its request: what it knew, or what
\* it sent, and what the host answered.
Learns(h, p, c) ==
  /\ pc[h] = "replied" /\ req[h].path = p
  /\ c = Merge(IF Mutating(h) THEN NextClock(h, p) ELSE KnownClock(h, p), reply[h].clock)
  /\ Learn(h, p, c)

\* What the device then knows.
LEMMA LearntClocks ==
  ASSUME Typed, LinkInv, NEW h \in Device, NEW p, NEW c, Learns(h, p, c)
  PROVE  /\ c \in Clock /\ DOMAIN known' = Device
         /\ \A q \in DOMAIN known'[h] : known'[h][q] \in Clock
         /\ \A e \in Device \ {h} :
              known'[e] = known[e] /\ \A q : KnownClock(e, q)' = KnownClock(e, q)
         /\ KnownClock(h, p)' = c /\ \A q : q # p => KnownClock(h, q)' = KnownClock(h, q)
<1>1. c \in Clock
  <2>1. reply[h].clock \in Clock
    BY DEF LinkInv, AtHost
  <2>. QED
    BY <2>1, ClocksAreClocks, NextCounts, MergeType DEF Learns
<1>2. known' = [known EXCEPT ![h] = With(known[h], p, c)] /\ DOMAIN known = Device
  BY DEF Learns, Learn, Typed
<1>3. /\ DOMAIN known' = Device /\ known'[h] = With(known[h], p, c)
      /\ \A e \in Device \ {h} : known'[e] = known[e]
  BY <1>2
<1>4. /\ DOMAIN With(known[h], p, c) = DOMAIN known[h] \cup {p}
      /\ With(known[h], p, c)[p] = c
      /\ \A q \in DOMAIN known[h] : q # p => With(known[h], p, c)[q] = known[h][q]
  BY DEF With
<1>5. \A q \in DOMAIN known'[h] : known'[h][q] \in Clock
  BY <1>1, <1>3, <1>4 DEF Typed
<1>. QED
  BY <1>1, <1>3, <1>4, <1>5 DEF KnownClock

\* The change the host may tell of is one that the device learns it made, and
\* of the others it hears no more than there may be.
LEMMA LearnCount ==
  ASSUME Typed, LinkInv, CountInv, NEW h \in Device, NEW p, NEW c, Learns(h, p, c),
         UNCHANGED <<clocks, tombs>>, OthersRest(h), pc'[h] = "idle", plan'[h] = <<>>
  PROVE  CountInv'
<1>. SUFFICES ASSUME NEW d \in Device, NEW q \in Files, IsOriginal(q) PROVE Counted(d, q)'
  BY DEF CountInv, IsOriginal
<1>1. Counted(d, q) /\ Counted(h, q)
  BY DEF CountInv
<1>2. /\ LiveClock(q)' = LiveClock(q) /\ TombClock(q)' = TombClock(q)
      /\ \A e \in Device \ {h} : KnownClock(e, q)' = KnownClock(e, q)
      /\ q # p => KnownClock(h, q)' = KnownClock(h, q)
      /\ q = p => KnownClock(h, q)' = c
  BY LearntClocks DEF LiveClock, TombClock
<1>3. /\ LiveClock(q)[d] \in Nat /\ TombClock(q)[d] \in Nat /\ Limit(d, q) \in Nat
      /\ KnownClock(h, q)[h] \in Nat /\ KnownClock(h, q)[d] \in Nat
      /\ reply[h].clock[d] \in Nat
  BY CountsAreNumbers, HeardCounts
<1>4. /\ d # h => Limit(d, q)' = Limit(d, q)
      /\ q # p => Limit(h, q)' = Limit(h, q)
  <2>1. d # h => Published(d, q)' = Published(d, q)
    BY OthersPublish DEF Published
  <2>2. q # p => ~Published(h, q)
    BY DEF Published, Learns
  <2>3. ~Published(h, q)'
    BY DEF Published
  <2>. QED
    BY <1>2, <2>1, <2>2, <2>3 DEF Limit
<1>5. CASE q # p \/ d # h
  <2>1. CASE d # h /\ q = p
    <3>1. KnownClock(h, q)[d] <= Limit(d, q) /\ reply[h].clock[d] <= Limit(d, q)
      BY <1>1, <2>1 DEF Counted, Learns
    <3>2. c[d] <= Limit(d, q)
      <4>1. KnownClock(h, q) \in Clock /\ NextClock(h, q) \in Clock /\ reply[h].clock \in Clock
        BY ClocksAreClocks, NextCounts DEF LinkInv, AtHost
      <4>2. NextClock(h, q)[d] = KnownClock(h, q)[d]
        BY <1>3, <2>1, NextCounts
      <4>. QED
        BY <1>3, <2>1, <3>1, <4>1, <4>2, MergeCounts DEF Learns
    <3>. QED
      BY <1>1, <1>2, <1>3, <1>4, <2>1, <3>2, CountedAfter DEF Counted
  <2>2. CASE q # p
    <3>1. d # h => KnownClock(h, q)[d] <= Limit(d, q)
      BY <1>1 DEF Counted
    <3>. QED
      BY <1>1, <1>2, <1>3, <1>4, <2>2, <3>1, CountedAfter DEF Counted
  <2>. QED
    BY <1>5, <2>1, <2>2
<1>6. CASE q = p /\ d = h
  <2>1. c[h] \in Nat /\ Limit(h, q) <= c[h]
    <3>1. KnownClock(h, q) \in Clock /\ NextClock(h, q) \in Clock /\ reply[h].clock \in Clock
      BY ClocksAreClocks, NextCounts DEF LinkInv, AtHost
    <3>2. NextClock(h, q)[h] = KnownClock(h, q)[h] + 1
      BY NextCounts
    <3>3. Published(h, q) => Mutating(h)
      BY DEF Published
    <3>. DEFINE x == IF Mutating(h) THEN NextClock(h, p) ELSE KnownClock(h, p)
    <3>4. x \in Clock /\ x[h] \in Nat /\ Limit(h, q) <= x[h]
      BY <1>3, <1>6, <3>1, <3>2, <3>3 DEF Limit
    <3>5. c = Merge(x, reply[h].clock)
      BY DEF Learns
    <3>. HIDE DEF x
    <3>6. c[h] \in Nat /\ x[h] <= c[h]
      BY <1>3, <3>1, <3>4, <3>5, MergeCounts
    <3>. QED
      BY <1>3, <1>6, <3>4, <3>6
  <2>2. Limit(h, q)' = c[h]
    <3>1. ~Published(h, q)'
      BY DEF Published
    <3>. QED
      BY <1>2, <1>6, <2>1, <3>1 DEF Limit
  <2>. QED
    BY <1>1, <1>2, <1>3, <1>6, <2>1, <2>2, CountedAfter DEF Counted
<1>. QED
  BY <1>5, <1>6

\* A request that ends with what its device learns.
LEMMA LearnAhead ==
  ASSUME Held, NEW h \in Device, Forgets(h, NoCall), NEW p, NEW c, Learns(h, p, c)
  PROVE  Held'
<1>1. Typed /\ LinkInv /\ CountInv
  BY DEF Held
<1>2. MountMoves(h)
  BY <1>1, ForgetRests, LearntClocks
<1>3. CountInv'
  BY <1>1, ForgetRests, LearnCount DEF Forgets
<1>. QED
  BY <1>1, <1>2, <1>3, MountLinks DEF Held

\* What the mounts have for names, and what their operations make of them.
LEMMA TableNames ==
  ASSUME Held, SoundTables, NEW h \in Device
  PROVE  /\ \A i \in DOMAIN table[h].paths : IsName(table[h].paths[i]) /\ table[h].paths[i] \in Path
         /\ \A i : NamesOf(Touch(table[h], i))
         /\ \A p : IsName(p) => /\ NamesOf(InoForPath(table[h], p))
                                /\ NamesOf(InoForPath(TrackDir(table[h], p), p))
<1>1. NamesOf(table[h]) /\ SoundTable(table[h])
  BY DEF Held, Typed, SoundTables
<1>. QED
  BY <1>1, TouchNames, InoForPathNames, InoForDirNames DEF NamesOf, IsName

\* A table is replaced by one of names.
LEMMA OneTable ==
  ASSUME Held, SoundTables, NEW h \in Device,
         table' = table \/ \E t : NamesOf(t) /\ table' = [table EXCEPT ![h] = t]
  PROVE  \A d \in Device : NamesOf(table'[d])
<1>1. DOMAIN table = Device /\ \A d \in Device : NamesOf(table[d])
  BY DEF Held, Typed, SoundTables
<1>. QED
  BY <1>1

\* An inode becomes the most recent.
LEMMA TouchedTable ==
  ASSUME Held, SoundTables, NEW h \in Device, NEW i, table' = [table EXCEPT ![h] = Touch(@, i)]
  PROVE  \A d \in Device : NamesOf(table'[d])
<1>1. table' = [table EXCEPT ![h] = Touch(table[h], i)]
  OBVIOUS
<1>. QED
  BY <1>1, TableNames, OneTable

\* The callbacks and their requests belong together.
LEMMA LookingFits ==
  ASSUME NEW h \in Device, NEW p \in Path, NEW i
  PROVE  /\ IsName(p) => /\ Fits(h, Call("lookup", i, p), Looking("stat", p))
                         /\ Fits(h, Call("size", i, p), Looking("stat", p))
         /\ Fits(h, Call("getattr", i, p), Looking("stat", p))
         /\ Fits(h, Call("read", i, p), Looking("read", p))
         /\ Fits(h, Call("readdir", i, p), Looking("list", p))
         /\ \A m : Fits(h, [op |-> "open", ino |-> i, path |-> p, mode |-> m], Looking("stat", p))
  BY DEF Fits, Call, Looking

\* So do those that change something.
LEMMA ChangeFits ==
  ASSUME NEW h \in Device, NEW p, IsName(p), NEW i, NEW x
  PROVE  /\ \A op \in {"release", "fsync"} : Fits(h, Call(op, i, p), Change(h, "stream", p, x))
         /\ Fits(h, Call("unlink", i, p), Change(h, "delete", p, x))
  BY DEF Fits, Call, Change, IsName

\* The callbacks that look.
LEMMA BrowseAhead ==
  ASSUME Held, SoundTables, NEW h \in Device, Browse(h, Files)
  PROVE  Held'
<1>1. ASSUME NEW p \in Files, Lookup(h, p) PROVE Held'
  <2>1. IsName(p) /\ p \in Path
    BY FilesAreNames DEF IsName
  <2>2. table' = table /\ known' = known
    BY <1>1 DEF Lookup
  <2>3. \A d \in Device : NamesOf(table'[d])
    BY <2>2, OneTable
  <2>4. \/ UNCHANGED <<vars, call>>
        \/ Ask(h, Call("lookup", 0, p), Looking("stat", p))
    BY <1>1 DEF Lookup
  <2>. QED
    BY <2>1, <2>2, <2>3, <2>4, LocalAhead, AskAhead, LookingFits DEF LocalStep
<1>2. ASSUME NEW i, GetAttr(h, i) \/ Read(h, i) PROVE Held'
  <2>. DEFINE p == table[h].paths[i]
  <2>1. \A d \in Device : NamesOf(table'[d])
    BY <1>2, TouchedTable DEF GetAttr, Read
  <2>2. /\ known' = known
        /\ \/ UNCHANGED <<vars, call>>
           \/ i \in DOMAIN table[h].paths /\ Ask(h, Call("getattr", i, p), Looking("stat", p))
           \/ i \in DOMAIN table[h].paths /\ Ask(h, Call("read", i, p), Looking("read", p))
    BY <1>2 DEF GetAttr, Read
  <2>3. i \in DOMAIN table[h].paths => p \in Path
    BY TableNames
  <2>. HIDE DEF p
  <2>. QED
    BY <2>1, <2>2, <2>3, LocalAhead, AskAhead, LookingFits DEF LocalStep
<1>3. CASE ReadDir(h)
  <2>1. Root \in Path
    BY DEF Root, Path
  <2>2. /\ known' = known /\ table' = table
        /\ Ask(h, Call("readdir", 1, Root), Looking("list", Root))
    BY <1>3 DEF ReadDir
  <2>3. \A d \in Device : NamesOf(table'[d])
    BY <2>2, OneTable
  <2>. QED
    BY <2>1, <2>2, <2>3, AskAhead, LookingFits
<1>. QED
  BY <1>1, <1>2, <1>3 DEF Browse

\* The write-back of a buffer.
LEMMA WriteBackAhead ==
  ASSUME Held, SoundTables, NEW h \in Device, NEW op \in {"release", "fsync"}, NEW i,
         i \in DOMAIN table[h].paths, WriteBack(h, op, i), known' = known
  PROVE  Held'
<1>. DEFINE p == table[h].paths[i]
<1>1. IsName(p)
  BY TableNames
<1>2. Ask(h, Call(op, i, p), Change(h, "stream", p, bufs[h][i].data))
  BY DEF WriteBack
<1>3. \A d \in Device : NamesOf(table'[d])
  BY TouchedTable DEF WriteBack
<1>. HIDE DEF p
<1>. QED
  BY <1>1, <1>2, <1>3, ChangeFits, AskAhead

\* The callbacks that open, create and write.
LEMMA UseAhead ==
  ASSUME Held, SoundTables, NEW h \in Device, Use(h, Files)
  PROVE  Held'
<1>1. ASSUME NEW p \in Files, NEW m \in Modes, Open(h, p, m) PROVE Held'
  <2>. DEFINE i == dentry[h][p]
              q == table[h].paths[i]
  <2>1. /\ known' = known /\ (table' = table \/ table' = [table EXCEPT ![h] = Touch(@, i)])
        /\ \/ UNCHANGED <<vars, call>>
           \/ /\ i \in DOMAIN table[h].paths
              /\ Ask(h, [op |-> "open", ino |-> i, path |-> q, mode |-> m], Looking("stat", q))
    BY <1>1 DEF Open
  <2>2. i \in DOMAIN table[h].paths => q \in Path
    BY TableNames
  <2>3. \A d \in Device : NamesOf(table'[d])
    BY <2>1, OneTable, TouchedTable
  <2>. HIDE DEF i, q
  <2>. QED
    BY <2>1, <2>2, <2>3, LocalAhead, AskAhead, LookingFits DEF LocalStep
<1>2. ASSUME NEW p \in Files, NEW m \in Modes, Create(h, p, m) PROVE Held'
  <2>1. /\ UNCHANGED <<vars, known, call>>
        /\ table' = [table EXCEPT ![h] = InoForPath(table[h], p)]
    BY <1>2 DEF Create
  <2>2. \A d \in Device : NamesOf(table'[d])
    BY <2>1, FilesAreNames, TableNames, OneTable
  <2>. QED
    BY <2>1, <2>2, LocalAhead DEF LocalStep
<1>3. ASSUME NEW i, Write(h, i) PROVE Held'
  <2>. DEFINE p == table[h].paths[i]
  <2>1. \A d \in Device : NamesOf(table'[d])
    BY <1>3, TouchedTable DEF Write
  <2>2. /\ known' = known
        /\ \/ UNCHANGED <<vars, call>>
           \/ i \in DOMAIN table[h].paths /\ Ask(h, Call("size", i, p), Looking("stat", p))
    BY <1>3 DEF Write
  <2>3. i \in DOMAIN table[h].paths => IsName(p) /\ p \in Path
    BY TableNames
  <2>. HIDE DEF p
  <2>. QED
    BY <2>1, <2>2, <2>3, LocalAhead, AskAhead, LookingFits DEF LocalStep
<1>4. ASSUME NEW i, Truncate(h, i) PROVE Held'
  <2>1. UNCHANGED <<vars, known, call>>
    BY <1>4 DEF Truncate
  <2>2. \A d \in Device : NamesOf(table'[d])
    BY <1>4, TouchedTable DEF Truncate
  <2>. QED
    BY <2>1, <2>2, LocalAhead DEF LocalStep
<1>5. ASSUME NEW i, FSync(h, i) PROVE Held'
  <2>1. CASE i \in DOMAIN table[h].paths /\ Dirty(h, i)
    BY <1>5, <2>1, WriteBackAhead DEF FSync
  <2>2. CASE ~(i \in DOMAIN table[h].paths /\ Dirty(h, i))
    <3>1. UNCHANGED <<vars, known, call>> /\ table' = [table EXCEPT ![h] = Touch(@, i)]
      BY <1>5, <2>2 DEF FSync
    <3>. QED
      BY <3>1, TouchedTable, LocalAhead DEF LocalStep
  <2>. QED
    BY <2>1, <2>2
<1>. QED
  BY <1>1, <1>2, <1>3, <1>4, <1>5 DEF Use

\* The release of an open file.
LEMMA CloseAhead ==
  ASSUME Held, SoundTables, NEW h \in Device, Close(h)
  PROVE  Held'
<1>1. PICK f : Release(h, f)
  BY DEF Close
<1>2. CASE f.ino \in DOMAIN table[h].paths /\ Dirty(h, f.ino)
  BY <1>1, <1>2, WriteBackAhead DEF Release
<1>3. CASE ~(f.ino \in DOMAIN table[h].paths /\ Dirty(h, f.ino))
  <2>1. UNCHANGED <<vars, known, call>> /\ table' = [table EXCEPT ![h] = Touch(@, f.ino)]
    BY <1>1, <1>3 DEF Release
  <2>. QED
    BY <2>1, TouchedTable, LocalAhead DEF LocalStep
<1>. QED
  BY <1>2, <1>3

\* A delete; a rename is left aside.
LEMMA RemoveAhead ==
  ASSUME Held, SoundTables, NEW h \in Device, Remove(h, Files), Whole'
  PROVE  Held'
<1>1. ASSUME NEW p \in Files, Unlink(h, p) PROVE Held'
  <2>1. /\ known' = known /\ table' = table
        /\ Ask(h, Call("unlink", 0, p), Change(h, "delete", p, NoData))
    BY <1>1 DEF Unlink
  <2>2. \A d \in Device : NamesOf(table'[d])
    BY <2>1, OneTable
  <2>. QED
    BY <2>1, <2>2, FilesAreNames, ChangeFits, AskAhead
<1>2. ASSUME NEW p, NEW q, Rename(h, p, q) PROVE FALSE
  BY <1>2 DEF Rename, Whole
<1>. QED
  BY <1>1, <1>2 DEF Remove

\* The request of h is over: it has its answer, or it was one to look and is
\* lost.
Ends(h) ==
  /\ Forget(h) /\ UNCHANGED <<clocks, tombs, detached, now>> /\ DOMAIN disk' \subseteq Path
  /\ pc[h] = "replied" \/ ~Mutating(h)

\* A request whose answer has come is over.
LEMMA HearEnds ==
  ASSUME Held, NEW h \in Device, Hear(h)
  PROVE  Ends(h) /\ pc[h] = "replied"
  BY DEF Held, Typed, Hear, Return, Ends, store

\* A lost request to look ends, and leaves no operation detached.
LEMMA BreakEnds ==
  ASSUME Held, NEW h \in Device, Break(h), Whole'
  PROVE  Ends(h) /\ ~Mutating(h)
<1>1. ~Mutating(h)
  BY DEF Break, Whole
<1>2. Forget(h) /\ UNCHANGED <<clocks, tombs, now>>
  BY DEF Break, Disconnect, Return, store
<1>3. detached' = detached /\ (disk' = disk \/ disk' = WithoutTemp(disk, h))
  <2>1. ~DropUnderLock(h)
    BY <1>1 DEF DropUnderLock, Held, LinkInv, AtHost
  <2>. QED
    BY <2>1 DEF Break, Disconnect, Return, DropBeforeLock
<1>4. DOMAIN disk' \subseteq Path
  BY <1>3, WithoutTempPaths DEF Held, Typed
<1>. QED
  BY <1>1, <1>2, <1>3, <1>4 DEF Ends

\* Of a request to look, and of one that failed, nobody has heard.
LEMMA Unheard ==
  ASSUME NEW h, ~Mutating(h) \/ (pc[h] = "replied" /\ reply[h].result = "Error")
  PROVE  \A p : ~Published(h, p)
  BY DEF Published

\* The mount is left with nothing to do, or with the next part of what it does.
LEMMA DoneForgets ==
  ASSUME Held, NEW h \in Device, Ends(h), \A d \in Device : NamesOf(table'[d])
  PROVE  /\ call' = [call EXCEPT ![h] = NoCall] => Forgets(h, NoCall)
         /\ \A i, p, x : LET c == [op |-> "fetch", ino |-> i, path |-> p, size |-> x] IN
              IsName(p) /\ call' = [call EXCEPT ![h] = c] => Forgets(h, c)
         /\ \A x : LET c == [op |-> "enlist", todo |-> x] IN
              (\A p \in x : IsName(p)) /\ call' = [call EXCEPT ![h] = c] => Forgets(h, c)
  BY DEF Ends, Forgets, NoCall

\* The answers to what only looks, and gives no clock.
LEMMA LookedAhead ==
  ASSUME Held, SoundTables, NEW h \in Device, NEW a, Ends(h),
         a = Broken \/ (a = reply[h] /\ pc[h] = "replied"),
         \/ LookedUp(h, a) \/ GotAttr(h, a) \/ GotListing(h, a) \/ GotData(h, a)
         \/ GotSize(h, a) \/ GotContent(h, a)
  PROVE  Held'
<1>1. AtMount(h) /\ AtHost(h)
  BY DEF Held, LinkInv
<1>2. /\ call[h].op \in {"lookup", "getattr", "readdir", "read", "size", "load"}
      /\ known' = known
  BY DEF LookedUp, GotAttr, GotListing, GotData, GotSize, GotContent
<1>3. \A p : ~Published(h, p)
  BY <1>1, <1>2, Unheard DEF AtMount
<1>4. \A d \in Device : NamesOf(table'[d])
  <2>1. CASE LookedUp(h, a)
    <3>1. IsName(call[h].path)
      BY <1>1, <2>1 DEF AtMount, LookedUp
    <3>2. \/ table' = table
          \/ table' = [table EXCEPT ![h] = InoForPath(table[h], call[h].path)]
          \/ table' = [table EXCEPT ![h] =
                         InoForPath(TrackDir(table[h], call[h].path), call[h].path)]
      BY <2>1 DEF LookedUp
    <3>. QED
      BY <3>1, <3>2, TableNames, OneTable
  <2>2. CASE ~LookedUp(h, a)
    <3>1. table' = table
      BY <2>2 DEF GotAttr, GotListing, GotData, GotSize, GotContent
    <3>. QED
      BY <3>1, OneTable
  <2>. QED
    BY <2>1, <2>2
<1>5. \/ call' = [call EXCEPT ![h] = NoCall]
      \/ \E i, p, x : IsName(p) /\ call' = [call EXCEPT ![h] =
                                             [op |-> "fetch", ino |-> i, path |-> p, size |-> x]]
      \/ \E x : /\ \A p \in x : IsName(p)
               /\ call' = [call EXCEPT ![h] = [op |-> "enlist", todo |-> x]]
  <2>1. CASE GotListing(h, a)
    <3>1. a.result = "Listing" => \A p \in a.seen : IsName(p)
      <4>1. Broken.result = "Error"
        BY AnswerFields DEF Broken
      <4>2. call[h].op = "readdir"
        BY <2>1 DEF GotListing
      <4>. QED
        BY <1>1, <4>1, <4>2 DEF AtMount, AtHost
    <3>. QED
      BY <2>1, <3>1 DEF GotListing
  <2>2. CASE GotSize(h, a)
    <3>1. IsName(call[h].path)
      BY <1>1, <2>2 DEF AtMount, GotSize
    <3>. QED
      BY <2>2, <3>1 DEF GotSize, Done
  <2>3. CASE LookedUp(h, a) \/ GotAttr(h, a) \/ GotData(h, a) \/ GotContent(h, a)
    BY <2>3 DEF LookedUp, GotAttr, GotData, GotContent, Done
  <2>. QED
    BY <2>1, <2>2, <2>3
<1>6. \E c : Forgets(h, c)
  BY <1>4, <1>5, DoneForgets
<1>. QED
  BY <1>2, <1>3, <1>6, ForgetAhead

\* An answer that gives a clock.
LEMMA LearnedAhead ==
  ASSUME Held, SoundTables, NEW h \in Device, NEW a, Ends(h),
         (a = Broken /\ ~Mutating(h)) \/ (a = reply[h] /\ pc[h] = "replied"),
         OpenSynced(h, a) \/ WrittenBack(h, a) \/ Unlinked(h, a)
  PROVE  Held'
<1>1. AtMount(h)
  BY DEF Held, LinkInv
<1>2. table' = table /\ call' = [call EXCEPT ![h] = NoCall]
  BY DEF OpenSynced, WrittenBack, Unlinked, Done
<1>3. Forgets(h, NoCall)
  BY <1>2, OneTable, DoneForgets
<1>4. Broken.result = "Error"
  BY AnswerFields DEF Broken
<1>. DEFINE p == call[h].path
<1>5. CASE OpenSynced(h, a)
  <2>1. ~Mutating(h) /\ req[h].path = p
    BY <1>1, <1>5 DEF AtMount, OpenSynced
  <2>2. CASE a.result = "Found"
    <3>1. a = reply[h] /\ pc[h] = "replied" /\ Learn(h, p, Merge(KnownClock(h, p), a.clock))
      BY <1>4, <1>5, <2>2 DEF OpenSynced
    <3>2. Learns(h, p, Merge(KnownClock(h, p), a.clock))
      BY <2>1, <3>1 DEF Learns
    <3>. QED
      BY <1>3, <3>2, LearnAhead
  <2>3. CASE a.result # "Found"
    <3>1. known' = known
      BY <1>5, <2>3 DEF OpenSynced
    <3>. QED
      BY <1>3, <2>1, <3>1, Unheard, ForgetAhead
  <2>. QED
    BY <2>2, <2>3
<1>6. CASE WrittenBack(h, a) \/ Unlinked(h, a)
  <2>1. /\ Mutating(h) /\ a = reply[h] /\ pc[h] = "replied"
        /\ req[h].path = p /\ req[h].clock = NextClock(h, p)
    BY <1>1, <1>6 DEF AtMount, WrittenBack, Unlinked
  <2>2. CASE a.result # "Error"
    <3>1. Learn(h, p, Merge(req[h].clock, a.clock))
      BY <1>6, <2>2 DEF WrittenBack, Unlinked
    <3>2. Learns(h, p, Merge(NextClock(h, p), a.clock))
      BY <2>1, <3>1 DEF Learns
    <3>. QED
      BY <1>3, <3>2, LearnAhead
  <2>3. CASE a.result = "Error"
    <3>1. known' = known
      BY <1>6, <2>3 DEF WrittenBack, Unlinked
    <3>. QED
      BY <1>3, <2>1, <2>3, <3>1, Unheard, ForgetAhead
  <2>. QED
    BY <2>2, <2>3
<1>. QED
  BY <1>5, <1>6

\* All the answers.
LEMMA ProceedAhead ==
  ASSUME Held, SoundTables, NEW h \in Device, NEW a, Ends(h),
         (a = Broken /\ ~Mutating(h)) \/ (a = reply[h] /\ pc[h] = "replied"), Proceed(h, a)
  PROVE  Held'
<1>1. ~Renamed(h, a)
  BY DEF Held, LinkInv, AtMount, Renamed
<1>. QED
  BY <1>1, LookedAhead, LearnedAhead DEF Proceed

\* A mount that goes on without the host.
LEMMA RecallAhead ==
  ASSUME Held, NEW h \in Device, NEW c, UNCHANGED <<vars, known>>, ~Mutating(h),
         call' = [call EXCEPT ![h] = c], \A d \in Device : NamesOf(table'[d]),
         "op" \in DOMAIN c, c.op \in {"none", "enlist"},
         c.op = "enlist" => "todo" \in DOMAIN c /\ \A p \in c.todo : IsName(p)
  PROVE  Held'
<1>1. Typed /\ LinkInv /\ CountInv /\ AtHost(h) /\ AtMount(h)
  BY DEF Held, LinkInv
<1>2. UNCHANGED <<disk, clocks, tombs, pc, req, plan, reply, detached, now>>
  BY DEF vars, store
<1>3. /\ call'[h] = c /\ DOMAIN call' = Device /\ \A e \in Device \ {h} : call'[e] = call[e]
  BY <1>1 DEF Typed
<1>4. AtHost(h)'
  BY <1>1, <1>2, AtHostRests
<1>5. AtMount(h)'
  BY <1>1, <1>2, <1>3 DEF AtMount, Mutating
<1>6. MountMoves(h)
  BY <1>1, <1>2, <1>3, <1>4, <1>5 DEF MountMoves, Typed, OthersRest, Busy
<1>7. QuietStep(h)
  BY <1>2 DEF QuietStep, OthersRest, Published, Mutating
<1>. QED
  BY <1>1, <1>6, <1>7, MountLinks, QuietCount DEF Held

\* What a mount does with an answer or without one.
LEMMA ResumeAhead ==
  ASSUME Held, SoundTables, NEW h \in Device, Resume(h) \/ Unanswered(h), Whole'
  PROVE  Held'
<1>0. AtMount(h)
  BY DEF Held, LinkInv
<1>1. CASE Hear(h) /\ Proceed(h, reply[h])
  BY <1>1, HearEnds, ProceedAhead
<1>2. CASE Unanswered(h)
  BY <1>2, BreakEnds, ProceedAhead DEF Unanswered
<1>3. CASE Fetch(h)
  <2>. DEFINE p == call[h].path
              c == [op |-> "load", ino |-> call[h].ino, path |-> p, size |-> call[h].size]
  <2>1. IsName(p) /\ p \in Path
    BY <1>0, <1>3 DEF AtMount, Fetch, IsName
  <2>2. Fits(h, c, Looking("read", p))
    <3>1. "op" \in DOMAIN c /\ c.op = "load"
      BY <1>0 DEF AtMount
    <3>. HIDE DEF c
    <3>. QED
      BY <2>1, <3>1 DEF Fits, Looking
  <2>3. Ask(h, c, Looking("read", p)) /\ known' = known /\ table' = table
    BY <1>3 DEF Fetch
  <2>. HIDE DEF c
  <2>. QED
    BY <2>2, <2>3, OneTable, AskAhead
<1>4. ASSUME NEW p, Enlist(h, p) PROVE Held'
  <2>. DEFINE c == IF call[h].todo = {p} THEN NoCall
                   ELSE [call[h] EXCEPT !.todo = call[h].todo \ {p}]
  <2>1. /\ UNCHANGED <<vars, known>> /\ call' = [call EXCEPT ![h] = c]
        /\ table' = [table EXCEPT ![h] = InoForPath(table[h], p)]
    BY <1>4 DEF Enlist
  <2>2. /\ ~Mutating(h) /\ IsName(p) /\ call[h].op = "enlist"
        /\ "op" \in DOMAIN call[h] /\ "todo" \in DOMAIN call[h]
        /\ \A q \in call[h].todo : IsName(q)
    BY <1>0, <1>4 DEF AtMount, Enlist
  <2>3. \A d \in Device : NamesOf(table'[d])
    BY <2>1, <2>2, TableNames, OneTable
  <2>4. /\ "op" \in DOMAIN c /\ c.op \in {"none", "enlist"}
        /\ c.op = "enlist" => "todo" \in DOMAIN c /\ \A q \in c.todo : IsName(q)
    BY <2>2 DEF NoCall
  <2>. HIDE DEF c
  <2>. QED
    BY <2>1, <2>2, <2>3, <2>4, RecallAhead
<1>. QED
  BY <1>1, <1>2, <1>3, <1>4 DEF Resume

\* The death of a mount.
LEMMA RemountAhead ==
  ASSUME Held, SoundTables, NEW h \in Device, Remount(h), Whole'
  PROVE  Held'
<1>1. /\ table' = [table EXCEPT ![h] = NewTable] /\ known' = known
      /\ call' = [call EXCEPT ![h] = NoCall]
  BY DEF Remount
<1>2. \A d \in Device : NamesOf(table'[d])
  BY <1>1, NewTableNames, OneTable
<1>3. CASE Break(h)
  BY <1>1, <1>2, <1>3, BreakEnds, DoneForgets, Unheard, ForgetAhead
<1>4. CASE pc[h] = "idle" /\ UNCHANGED <<vars, cut>>
  <2>1. ~Mutating(h)
    BY <1>4 DEF Held, LinkInv, AtHost, Mutating, Mutation, NoRequest
  <2>2. "op" \in DOMAIN NoCall /\ NoCall.op = "none"
    BY DEF NoCall
  <2>. QED
    BY <1>1, <1>2, <1>4, <2>1, <2>2, RecallAhead
<1>. QED
  BY <1>3, <1>4 DEF Remount

\* What is whole after a step was whole before.
LEMMA WholeBefore ==
  ASSUME [MountNext]_all, Whole'
  PROVE  Whole
<1>1. CASE HostStep \/ UNCHANGED all
  BY <1>1 DEF HostStep, Whole, all, history
<1>2. ASSUME NEW d \in Device, Browse(d, Files) \/ Use(d, Files) \/ Close(d) PROVE Whole
  <2>1. cut' = cut /\ renamed' = renamed
    BY <1>2 DEF Browse, Use, Close, Lookup, GetAttr, Read, ReadDir, Open, Create, Write,
                Truncate, FSync, Release, history
  <2>. QED
    BY <2>1 DEF Whole
<1>3. ASSUME NEW d \in Device, Remove(d, Files) PROVE Whole
  <2>1. cut' = cut /\ (renamed' = renamed \/ \E p, q : renamed' = renamed \cup {p, q})
    BY <1>3 DEF Remove, Unlink, Rename, history
  <2>. QED
    BY <2>1 DEF Whole
<1>4. ASSUME NEW d \in Device, NEW a, Proceed(d, a) PROVE renamed' = renamed
  BY <1>4 DEF Proceed, LookedUp, GotAttr, GotListing, GotData, OpenSynced, GotSize, GotContent,
              WrittenBack, Unlinked, Renamed
<1>5. ASSUME NEW d \in Device, Resume(d) \/ Unanswered(d) \/ Remount(d) PROVE Whole
  <2>1. renamed' = renamed
    BY <1>4, <1>5 DEF Resume, Unanswered, Remount, Fetch, Enlist, history
  <2>2. cut' = cut \/ cut' = cut \cup {d}
    BY <1>5 DEF Resume, Unanswered, Remount, Hear, Break, Fetch, Enlist, history
  <2>. QED
    BY <2>1, <2>2 DEF Whole
<1>. QED
  BY <1>1, <1>2, <1>3, <1>5 DEF MountNext

\* Every step leaves the counts ahead.
LEMMA NextAhead == AheadInv /\ SoundTables /\ [MountNext]_all => AheadInv'
<1>. SUFFICES ASSUME AheadInv, SoundTables, [MountNext]_all, Whole' PROVE Held'
  BY DEF AheadInv, Held
<1>1. Held
  BY WholeBefore DEF AheadInv, Held
<1>2. CASE UNCHANGED all
  <2>1. \A d \in Device : NamesOf(table'[d])
    BY <1>1, <1>2 DEF all, mount, Held, Typed
  <2>. QED
    BY <1>1, <1>2, <2>1, LocalAhead DEF all, mount, LocalStep
<1>3. CASE HostStep
  BY <1>1, <1>3, HostAhead
<1>4. ASSUME NEW d \in Device, \/ Browse(d, Files) \/ Use(d, Files) \/ Close(d)
             \/ Remove(d, Files) \/ Resume(d) \/ Unanswered(d) \/ Remount(d)
      PROVE  Held'
  BY <1>1, <1>4, BrowseAhead, UseAhead, CloseAhead, RemoveAhead, ResumeAhead, RemountAhead
<1>. QED
  BY <1>2, <1>3, <1>4 DEF MountNext

\* At first nobody knows anything.
LEMMA InitAhead == MountInit => AheadInv
<1>. SUFFICES ASSUME MountInit PROVE Held
  BY DEF AheadInv, Held
<1>1. /\ NoRequest.op = "none" /\ NoReply.clock = EmptyClock /\ NoCall.op = "none"
      /\ "op" \in DOMAIN NoCall
  BY DEF NoRequest, NoReply, NoCall
<1>2. ChangesAFile(<<>>)
  BY FinePlans, FineOps
<1>3. DOMAIN EmptyMap = {}
  BY DEF EmptyMap
<1>. HIDE DEF NoRequest, NoReply, NoCall, EmptyMap
<1>4. DOMAIN disk \subseteq Path
  <2>1. DOMAIN disk = {Root} \cup Served
    BY DEF MountInit, Init
  <2>2. Root \in Path
    BY DEF Root, Path
  <2>. QED
    BY <2>1, <2>2, ServedAssumption
<1>5. Typed
  BY <1>3, <1>4, NewTableNames DEF MountInit, Init, Typed
<1>6. ASSUME NEW d \in Device PROVE AtHost(d) /\ AtMount(d)
  BY <1>1, <1>2, <1>6, EmptyClockType DEF MountInit, Init, AtHost, AtMount, Mutating, Mutation
<1>7. ASSUME NEW d \in Device, NEW p \in Files PROVE Counted(d, p)
  <2>1. /\ LiveClock(p) = EmptyClock /\ TombClock(p) = EmptyClock
        /\ \A e \in Device : KnownClock(e, p) = EmptyClock
    BY <1>3 DEF MountInit, Init, LiveClock, TombClock, ClockIn, KnownClock
  <2>2. EmptyClock[d] = 0
    BY DEF EmptyClock
  <2>3. \A e \in Device : pc[e] = "idle" /\ plan[e] = <<>>
    BY DEF MountInit, Init
  <2>4. Limit(d, p) = 0
    BY <2>1, <2>2, <2>3 DEF Limit, Published
  <2>. QED
    BY <2>1, <2>2, <2>3, <2>4 DEF Counted
<1>. QED
  BY <1>5, <1>6, <1>7 DEF MountInit, Init, Held, LinkInv, CountInv

\* The counts are ahead, whatever happens.
LEMMA AheadAlways == MountSpec => []AheadInv
<1>. QED
  BY InitAhead, NextAhead, TablesSound, PTL DEF MountSpec

\* A device has counted every change it made that anybody has heard of, the
\* one it waits for aside, for any files and mounts, any callbacks, answers in
\* any order, lost requests to look and mounts that die: so the host never
\* takes one of its writes for an old one (filesystem.rs, flush_buffer).
THEOREM CountsStayAhead == MountSpec => []OwnCountAhead
<1>1. AheadInv => OwnCountAhead
  <2>. SUFFICES ASSUME Typed, LinkInv, CountInv, NEW d \in Device, NEW p \in Files,
                       IsOriginal(p), NEW c \in ClocksAbout(d, p)
                PROVE  c[d] <= KnownClock(d, p)[d] + (IF Changing(d, p) THEN 1 ELSE 0)
    BY DEF AheadInv, OwnCountAhead
  <2>. DEFINE most == KnownClock(d, p)[d] + (IF Changing(d, p) THEN 1 ELSE 0)
  <2>1. /\ Counted(d, p) /\ KnownClock(d, p)[d] \in Nat /\ Limit(d, p) \in Nat
        /\ LiveClock(p)[d] \in Nat /\ TombClock(p)[d] \in Nat
        /\ \A e \in Device : KnownClock(e, p)[d] \in Nat
    BY CountsAreNumbers DEF CountInv
  <2>2. Limit(d, p) <= most /\ most \in Nat
    <3>1. Published(d, p) => Changing(d, p)
      BY DEF Published, Changing
    <3>. QED
      BY <2>1, <3>1 DEF Limit
  <2>3. \A x \in Nat : x <= Limit(d, p) => x <= most
    BY <2>1, <2>2
  <2>4. CASE c \in {LiveClock(p), TombClock(p)} \cup {KnownClock(e, p) : e \in Device \ {d}}
    <3>1. c[d] \in Nat /\ c[d] <= Limit(d, p)
      BY <2>1, <2>4 DEF Counted
    <3>. QED
      BY <2>3, <3>1
  <2>5. ASSUME NEW e \in Device \ {d}, pc[e] # "idle", req[e].path = p, c = req[e].clock
        PROVE  c[d] <= most
    <3>1. c = EmptyClock \/ c = NextClock(e, p)
      BY <2>5 DEF LinkInv, AtMount
    <3>2. NextClock(e, p)[d] = KnownClock(e, p)[d]
      BY <2>1, <2>5, NextCounts
    <3>3. KnownClock(e, p)[d] <= Limit(d, p)
      BY <2>1, <2>5 DEF Counted
    <3>4. EmptyClock[d] = 0
      BY DEF EmptyClock
    <3>. QED
      BY <2>1, <2>2, <2>3, <3>1, <3>2, <3>3, <3>4
  <2>. QED
    BY <2>4, <2>5 DEF ClocksAbout
<1>. QED
  BY <1>1, AheadAlways, PTL

-----------------------------------------------------------------------------
(* What becomes of a version of a file.                                     *)

\* Applications use original files: no conflict copies, no staged ones.
FilesOriginal == \A p \in Files : IsOriginal(p)

\* The edits that have been saved, who has them, and what is done with them.
Entrusted ==
  /\ \A d \in Device : Delivered(d) /\ (pc[d] = "locked" => Works(d))
  /\ \A p \in DOMAIN disk \ {Root} : Accounted(p)

\* SeenInv, of a system that is whole.
AllSeen == Ordered /\ (\A d \in Device : Sends(d)) /\ Entrusted

\* Nothing happens to the files, staged ones aside.
SameFile(p) == (p \in DOMAIN disk' <=> p \in DOMAIN disk) /\ (p \in DOMAIN disk => disk'[p] = disk[p])

\* Nor to any of them.
SameFiles == \A p : ~IsTemp(p) => SameFile(p)

\* No device forgets an edit.
MoreAware == \A e \in Device : Aware(e) \subseteq Aware(e)'

\* What e is told of the version of p by w, and what it knows after a step.
Told(e, p, w) ==
  LET x == disk[p] IN
    /\ /\ pc'[e] \in {"locked", "replied"} /\ req'[e].path = p
       /\ x.edit[w] <= reply'[e].clock[w]
       => /\ Leq(x.edit, reply'[e].clock)
          /\ Mutating(e)' /\ reply'[e].result \notin {"Conflict", "Stale", "Error"}
               => x.data \subseteq Aware(e)'
    /\ x.edit[w] <= KnownClock(e, p)'[w] => x.data \subseteq Aware(e)'

\* An original is not a staged file, nor is a conflict copy.
LEMMA NamesApart ==
  /\ \A p : IsOriginal(p) => ~IsTemp(p) /\ ~IsCopy(p) /\ p # Root
  /\ \A p : IsCopy(p) => ~IsTemp(p) /\ ~IsOriginal(p)
  BY DEF IsOriginal, IsTemp, IsCopy

\* A version stays that of its author.
LEMMA AuthoredStays ==
  ASSUME NEW p, NEW w \in Device, Authored(p, w), disk'[p] = disk[p], MoreAware,
         disk[p].edit[w] <= LiveClock(p)'[w] => Leq(disk[p].edit, LiveClock(p)'),
         \A e \in Device : Told(e, p, w)
  PROVE  Authored(p, w)'
<1>. DEFINE x == disk[p]
<1>1. 0 < x.edit[w] /\ x.data \subseteq Aware(w)'
  BY DEF Authored, MoreAware
<1>2. \A c \in Heard(p)' : x.edit[w] <= c[w] => Leq(x.edit, c)
  BY DEF Heard, Told
<1>3. \A e \in Device :
        /\ x.edit[w] <= KnownClock(e, p)'[w] => x.data \subseteq Aware(e)'
        /\ /\ Mutating(e)' /\ req'[e].path = p /\ pc'[e] \in {"locked", "replied"}
           /\ reply'[e].result \notin {"Conflict", "Stale", "Error"}
           /\ x.edit[w] <= reply'[e].clock[w]
           => x.data \subseteq Aware(e)'
  BY DEF Told
<1>4. disk'[p] = x
  OBVIOUS
<1>. HIDE DEF x
<1>. QED
  BY <1>1, <1>2, <1>3, <1>4 DEF Authored

\* The request of e is where it was.
Rests(e) == pc'[e] = pc[e] /\ req'[e] = req[e] /\ plan'[e] = plan[e] /\ reply'[e] = reply[e]

\* A device whose request rests is told of nothing.
LEMMA RestingTold ==
  ASSUME NEW e \in Device, Rests(e), Aware(e) \subseteq Aware(e)',
         NEW p, NEW w \in Device, Authored(p, w), KnownClock(e, p)' = KnownClock(e, p)
  PROVE  Told(e, p, w)
<1>. DEFINE x == disk[p]
<1>1. x.edit[w] <= KnownClock(e, p)'[w] => x.data \subseteq Aware(e)'
  BY DEF Authored
<1>2. ASSUME pc'[e] \in {"locked", "replied"}, req'[e].path = p, x.edit[w] <= reply'[e].clock[w]
      PROVE  /\ Leq(x.edit, reply'[e].clock)
             /\ Mutating(e)' /\ reply'[e].result \notin {"Conflict", "Stale", "Error"}
                  => x.data \subseteq Aware(e)'
  <2>1. reply[e].clock \in Heard(p)
    BY <1>2 DEF Rests, Heard
  <2>2. Leq(x.edit, reply'[e].clock)
    BY <1>2, <2>1 DEF Rests, Authored
  <2>3. Mutating(e)' <=> Mutating(e)
    BY DEF Rests, Mutating
  <2>. QED
    BY <1>2, <2>2, <2>3 DEF Rests, Authored
<1>. HIDE DEF x
<1>3. x = disk[p]
  BY DEF x
<1>. QED
  BY <1>1, <1>2, <1>3 DEF Told

\* A file stays accounted for.
LEMMA AccountedStays ==
  ASSUME NEW p, Accounted(p), p \in DOMAIN disk, disk'[p] = disk[p], MoreAware,
         IsCopy(p) => LastBy(p) \in Device,
         IsOriginal(p) =>
           /\ Leq(disk[p].edit, LiveClock(p)) /\ ~Tombed(p) =>
                Leq(disk[p].edit, LiveClock(p)') /\ ~Tombed(p)'
           /\ \A d \in Device : Settling(d) /\ req[d].path = p =>
                \/ Settling(d)' /\ req'[d].path = p
                \/ Leq(disk[p].edit, LiveClock(p)') /\ ~Tombed(p)'
           /\ \A w \in Device : Authored(p, w) => Authored(p, w)'
  PROVE  Accounted(p)'
<1>1. ASSUME IsOriginal(p)
      PROVE  /\ \/ Leq(disk[p].edit, LiveClock(p)') /\ ~Tombed(p)'
                \/ \E d \in Device : Settling(d)' /\ req'[d].path = p
             /\ disk[p].data # {} => \E w \in Device : Authored(p, w)'
  BY <1>1 DEF Accounted
<1>2. ASSUME IsCopy(p) PROVE disk[p].data \subseteq Aware(LastBy(p))'
  <2>1. disk[p].data \subseteq Aware(LastBy(p)) /\ LastBy(p) \in Device
    BY <1>2 DEF Accounted
  <2>. QED
    BY <2>1 DEF MoreAware
<1>3. IsOriginal(p)' = IsOriginal(p) /\ IsCopy(p)' = IsCopy(p) /\ LastBy(p)' = LastBy(p)
  BY DEF IsOriginal, IsCopy, LastBy, IsTemp
<1>. QED
  BY <1>1, <1>2, <1>3 DEF Accounted

\* Who a copy belongs to is a device.
LEMMA CopiesHaveOwners ==
  ASSUME NEW p \in Path, IsCopy(p)
  PROVE  LastBy(p) \in Device
<1>. DEFINE S == [by : Device, at : Nat]
            s == p[Len(p)].copies
<1>1. Len(p) = 1 /\ p \in Seq(Leaf) /\ p # Root
  BY DEF IsCopy, Path, Root
<1>2. s \in Seq(S) /\ s # <<>>
  <2>1. p[1] \in Leaf
    BY <1>1
  <2>2. s = p[1].copies
    BY <1>1
  <2>3. s \in Seq(S)
    BY <2>1, <2>2 DEF Leaf
  <2>4. s # <<>>
    BY <1>1 DEF IsCopy, IsOriginal
  <2>. QED
    BY <2>3, <2>4
<1>3. \A x \in S : x.by \in Device
  OBVIOUS
<1>4. LastBy(p) = s[Len(s)].by
  BY DEF LastBy
<1>. HIDE DEF s, S
<1>5. s[Len(s)] \in S
  BY <1>2
<1>. QED
  BY <1>3, <1>4, <1>5

\* Where the file operation of a handler at work takes place.
LEMMA WorkPlaces ==
  ASSUME NEW d, Works(d), IsOriginal(req[d].path)
  PROVE  /\ OnDisk(plan[d][1]) => Place(plan[d][1]) = req[d].path \/ IsCopy(Place(plan[d][1]))
         /\ OnDisk(plan[d][1]) => ~IsTemp(Place(plan[d][1]))
<1>1. OnDisk(plan[d][1]) => Place(plan[d][1]) = req[d].path \/ IsCopy(Place(plan[d][1]))
  <2>1. CASE Landing(d)
    BY <2>1, ShortPlans, OpFields DEF Landing, Place
  <2>2. CASE Settling(d)
    BY <2>2, ShortPlans, OpFields DEF Settling, OnDisk
  <2>3. CASE Copying(d)
    BY <2>3 DEF Copying
  <2>4. CASE Burying(d)
    BY <2>4, ShortPlans, OpFields DEF Burying, Place, OnDisk
  <2>. QED
    BY <2>1, <2>2, <2>3, <2>4 DEF Works
<1>. DEFINE q == Place(plan[d][1])
<1>2. q = req[d].path \/ IsCopy(q) => ~IsTemp(q)
  BY NamesApart
<1>. QED
  BY <1>1, <1>2

\* What is done with a write or a delete goes on to be done.
LEMMA WorksStays ==
  ASSUME NEW d \in Device, Works(d), Rests(d), SameFiles, MoreAware, IsOriginal(req[d].path),
         Tombed(req[d].path)' = Tombed(req[d].path)
  PROVE  Works(d)' /\ (Settling(d) => Settling(d)')
<1>. DEFINE p == req[d].path
<1>1. SameFile(p)
  <2>1. ~IsTemp(p)
    BY NamesApart
  <2>. QED
    BY <2>1 DEF SameFiles
<1>2. req'[d] = req[d] /\ plan'[d] = plan[d] /\ reply'[d] = reply[d] /\ pc'[d] = pc[d]
  BY DEF Rests
<1>3. Landing(d) => Landing(d)'
  BY <1>2 DEF Landing
<1>4. Settling(d) => Settling(d)'
  <2>1. Landed(d) => Landed(d)'
    BY <1>1, <1>2 DEF Landed, SameFile, Exists
  <2>. QED
    BY <1>2, <2>1 DEF Settling
<1>5. Copying(d) => Copying(d)'
  BY <1>2 DEF Copying, IsCopy, IsOriginal, IsTemp, LastBy
<1>6. Burying(d) => Burying(d)'
  BY <1>1, <1>2 DEF Burying, SameFile, Exists
<1>7. ASSUME NEW q, q = Place(plan[d][1]), OnDisk(plan[d][1]), q \in DOMAIN disk'
      PROVE  disk'[q].data \subseteq Aware(d)'
  <2>1. ~IsTemp(q)
    BY <1>7, WorkPlaces
  <2>2. SameFile(q)
    BY <2>1 DEF SameFiles
  <2>3. q \in DOMAIN disk => disk[q].data \subseteq Aware(d)
    BY <1>7 DEF Works, Exists
  <2>. QED
    BY <1>7, <2>2, <2>3 DEF SameFile, MoreAware
<1>8. OnDisk(plan'[d][1]) /\ Place(plan'[d][1]) \in DOMAIN disk'
        => disk'[Place(plan'[d][1])].data \subseteq Aware(d)'
  BY <1>2, <1>7
<1>. QED
  BY <1>3, <1>4, <1>5, <1>6, <1>8 DEF Works, Exists, Place, OnDisk

\* A handler at work changes a file of the applications.
LEMMA WorkersAskFiles ==
  ASSUME Held, Ordered, FilesOriginal, NEW d \in Device, Mutating(d)
  PROVE  req[d].path \in Files /\ IsOriginal(req[d].path) /\ IsName(req[d].path)
                /\ req[d].op \in {"stream", "delete"} /\ req[d].clock = NextClock(d, req[d].path)
<1>1. req[d].path \in Files
  BY DEF Ordered, AsksFiles
<1>2. AtMount(d)
  BY DEF Held, LinkInv
<1>. QED
  BY <1>1, <1>2 DEF FilesOriginal, AtMount

\* What a device saved stays saved.
LEMMA DeliveredStays ==
  ASSUME NEW e \in Device, Delivered(e), Rests(e), MoreAware,
         \A x \in req[e].data : x \in Kept => x \in Kept' \/ \E f \in Device \ {e} : x \in Aware(f)
  PROVE  Delivered(e)'
<1>1. ASSUME NEW x \in req[e].data, Preserved(e, x) PROVE Preserved(e, x)'
  BY <1>1 DEF Preserved, MoreAware
<1>2. pc'[e] = pc[e] /\ req'[e] = req[e] /\ plan'[e] = plan[e] /\ reply'[e] = reply[e]
  BY DEF Rests
<1>. QED
  BY <1>1, <1>2 DEF Delivered, OnDisk

\* What is lost its worker knows of.
LostIsKnown == \A x \in Kept \ Kept' : \E d \in Device : lock = d /\ x \in Aware(d)

\* The edits in the files are kept with them.
LEMMA KeptStay ==
  ASSUME SameFiles
  PROVE  Kept' = Kept
<1>1. \A p : ~IsTemp(p) => (p \in DOMAIN disk' <=> p \in DOMAIN disk)
                          /\ (p \in DOMAIN disk => disk'[p] = disk[p])
  BY DEF SameFiles, SameFile
<1>2. \A p : IsTemp(p)' = IsTemp(p)
  BY DEF IsTemp
<1>3. {q \in DOMAIN disk' : disk'[q].kind = "file" /\ ~IsTemp(q)}
        = {q \in DOMAIN disk : disk[q].kind = "file" /\ ~IsTemp(q)}
  BY <1>1
<1>4. Kept' = UNION {disk'[p].data : p \in {q \in DOMAIN disk' : disk'[q].kind = "file" /\ ~IsTemp(q)}}
  BY <1>2 DEF Kept, IsFile, Exists
<1>5. Kept = UNION {disk[p].data : p \in {q \in DOMAIN disk : disk[q].kind = "file" /\ ~IsTemp(q)}}
  BY DEF Kept, IsFile, Exists
<1>. DEFINE S == {q \in DOMAIN disk : disk[q].kind = "file" /\ ~IsTemp(q)}
<1>6. \A p \in S : disk'[p].data = disk[p].data
  BY <1>1
<1>7. Kept' = UNION {disk'[p].data : p \in S} /\ Kept = UNION {disk[p].data : p \in S}
  BY <1>3, <1>4, <1>5
<1>. HIDE DEF S
<1>. QED
  BY <1>6, <1>7

\* Nothing happens to the files and their clocks, and only the request of h
\* moves on.
Calm(h) ==
  /\ SameFiles /\ UNCHANGED <<clocks, tombs>> /\ MoreAware
  /\ \A e \in Device \ {h} : Rests(e) /\ \A p : KnownClock(e, p)' = KnownClock(e, p)

\* Then only h has to be looked at.
LEMMA CalmStep ==
  ASSUME Held, Held', AllSeen, FilesOriginal, NEW h \in Device, Calm(h),
         pc'[h] = "locked" => Works(h)',
         Delivered(h)',
         Settling(h) => Settling(h)' /\ req'[h] = req[h],
         \A p \in DOMAIN disk, w \in Device :
           IsOriginal(p) /\ Authored(p, w) => Told(h, p, w)
  PROVE  Entrusted'
<1>. USE DEF AllSeen
<1>1. \A e \in Device \ {h} : Rests(e)
  BY DEF Calm
<1>2. ASSUME NEW e \in Device \ {h}
      PROVE  /\ Delivered(e)'
             /\ pc'[e] = "locked" => Works(e)' /\ (Settling(e) => Settling(e)')
             /\ req'[e] = req[e]
  <2>1. Delivered(e) /\ (pc[e] = "locked" => Works(e))
    BY DEF Entrusted
  <2>2. Delivered(e)'
    BY <1>1, <2>1, KeptStay, DeliveredStays DEF Calm
  <2>3. ASSUME pc[e] = "locked" PROVE Works(e)' /\ (Settling(e) => Settling(e)')
    <3>1. Mutating(e)
      BY <2>3 DEF Held, LinkInv, AtHost
    <3>2. IsOriginal(req[e].path)
      BY <3>1, WorkersAskFiles
    <3>3. Tombed(req[e].path)' = Tombed(req[e].path)
      <4>1. req'[e] = req[e] /\ tombs' = tombs
        BY <1>1 DEF Rests, Calm
      <4>. QED
        BY <4>1 DEF Tombed, TombClock
    <3>. QED
      BY <1>1, <2>1, <2>3, <3>2, <3>3, WorksStays DEF Calm
  <2>4. pc'[e] = pc[e] /\ req'[e] = req[e]
    BY <1>1 DEF Rests
  <2>. QED
    BY <2>2, <2>3, <2>4
<1>3. \A d \in Device : Delivered(d)' /\ (pc'[d] = "locked" => Works(d)')
  BY <1>2
<1>4. \A d \in Device : Settling(d) => Settling(d)' /\ req'[d] = req[d]
  <2>1. \A d \in Device : Settling(d) => pc[d] = "locked"
    BY DEF Settling
  <2>2. \A e \in Device \ {h} : pc'[e] = pc[e]
    BY <1>1 DEF Rests
  <2>. QED
    BY <1>2, <2>1, <2>2
<1>5. \A p : LiveClock(p)' = LiveClock(p) /\ Tombed(p)' = Tombed(p)
  BY DEF Calm, LiveClock, Tombed, TombClock
<1>6. ASSUME NEW p \in DOMAIN disk' \ {Root} PROVE Accounted(p)'
  <2>1. CASE IsOriginal(p) \/ IsCopy(p)
    <3>1. SameFile(p)
      BY <2>1, NamesApart DEF Calm, SameFiles
    <3>2. p \in DOMAIN disk /\ disk'[p] = disk[p] /\ Accounted(p)
      BY <3>1 DEF SameFile, Entrusted
    <3>3. p \in Path
      BY <3>2 DEF Held, Typed
    <3>4. IsCopy(p) => LastBy(p) \in Device
      BY <3>3, CopiesHaveOwners
    <3>5. ASSUME IsOriginal(p), NEW w \in Device, Authored(p, w) PROVE Authored(p, w)'
      <4>1. Told(h, p, w)
        BY <3>2, <3>5
      <4>2. \A e \in Device \ {h} : Told(e, p, w)
        BY <1>1, <3>5, RestingTold DEF Calm, MoreAware
      <4>3. disk[p].edit[w] <= LiveClock(p)'[w] => Leq(disk[p].edit, LiveClock(p)')
        <5>1. LiveClock(p) \in Heard(p)
          BY DEF Heard
        <5>. QED
          BY <1>5, <3>5, <5>1 DEF Authored
      <4>. QED
        BY <3>2, <3>5, <4>1, <4>2, <4>3, AuthoredStays DEF Calm
    <3>6. IsOriginal(p) =>
           /\ Leq(disk[p].edit, LiveClock(p)) /\ ~Tombed(p) =>
                Leq(disk[p].edit, LiveClock(p)') /\ ~Tombed(p)'
           /\ \A d \in Device : Settling(d) /\ req[d].path = p =>
                \/ Settling(d)' /\ req'[d].path = p
                \/ Leq(disk[p].edit, LiveClock(p)') /\ ~Tombed(p)'
           /\ \A w \in Device : Authored(p, w) => Authored(p, w)'
      BY <1>4, <1>5, <3>5
    <3>. QED
      BY <3>2, <3>4, <3>6, AccountedStays DEF Calm
  <2>2. CASE ~IsOriginal(p) /\ ~IsCopy(p)
    <3>1. IsOriginal(p)' = IsOriginal(p) /\ IsCopy(p)' = IsCopy(p)
      BY DEF IsOriginal, IsCopy, IsTemp
    <3>. QED
      BY <2>2, <3>1 DEF Accounted
  <2>. QED
    BY <2>1, <2>2
<1>. QED
  BY <1>3, <1>6 DEF Entrusted

-----------------------------------------------------------------------------
(* The host's steps, and the edits.                                         *)

\* At the host no mount forgets or learns anything.
LEMMA HostAware ==
  ASSUME UNCHANGED <<mount, history>>
  PROVE  /\ \A e : Aware(e)' = Aware(e)
         /\ \A e, p : KnownClock(e, p)' = KnownClock(e, p)
         /\ MoreAware
<1>1. UNCHANGED <<known, edits, shown, told>>
  BY AtTheHost
<1>2. \A e : Aware(e)' = Aware(e)
  BY <1>1 DEF Aware
<1>3. \A e, p : KnownClock(e, p)' = KnownClock(e, p)
  BY <1>1 DEF KnownClock
<1>. QED
  BY <1>2, <1>3 DEF MoreAware

\* The directory stays a flat one.
LEMMA HostOrdered ==
  ASSUME Held, Ordered, UNCHANGED <<mount, history, req>>, now' # 0,
         Root \in DOMAIN disk', disk'[Root] = disk[Root],
         \A p \in DOMAIN disk' \ {Root} :
           \/ p \in DOMAIN disk /\ disk'[p] = disk[p]
           \/ Len(p) = 1 /\ disk'[p].kind = "file" /\ disk'[p].edit \in Clock,
         \A d \in Device : pc'[d] = "locked" => lock' = d
  PROVE  Ordered'
<1>1. UNCHANGED <<table, bufs, known, call, opened, dentry, edits, shown, told>>
  BY AtTheHost
<1>2. \A d \in Device : AsksFiles(d)'
  <2>. TAKE d \in Device
  <2>1. AsksFiles(d)
    BY DEF Ordered
  <2>2. \A i : OfFiles(d, i)' = OfFiles(d, i)
    BY <1>1 DEF OfFiles
  <2>3. Mutating(d)' = Mutating(d)
    BY DEF Mutating
  <2>. QED
    BY <1>1, <2>1, <2>2, <2>3 DEF AsksFiles
<1>3. \A p \in DOMAIN disk' \ {Root} : Len(p) = 1 /\ IsFile(p)' /\ disk'[p].edit \in Clock
  BY DEF Ordered, IsFile, Exists
<1>4. \A d \in Device : pc'[d] = "locked" => lock' = d
  OBVIOUS
<1>5. Root \in DOMAIN disk' /\ disk'[Root] = Dir /\ now' # 0
  BY DEF Ordered
<1>6. /\ DOMAIN bufs' = Device /\ DOMAIN opened' = Device /\ DOMAIN dentry' = Device
      /\ DOMAIN edits' = Device /\ DOMAIN shown' = Device /\ DOMAIN told' = Device
  BY <1>1 DEF Ordered
<1>. QED
  BY <1>2, <1>3, <1>4, <1>5, <1>6 DEF Ordered

\* The staged copy of d.
StagedCopy(d) == LET p == TempPath(req[d].path, d)
                 IN Exists(p) /\ disk[p] = File(req[d].clock, req[d].data)

\* What others have staged stays.
OthersStaged(h) ==
  \A e \in Device \ {h} : HasStaged(e) => SameFile(TempPath(req[e].path, e))

\* What a mount sends waits in its staged copy, while others stage theirs.
LEMMA HostSends ==
  ASSUME AllSeen, UNCHANGED <<mount, history, req>>, NEW h \in Device, OthersRest(h),
         OthersStaged(h), HasStaged(h)' => StagedCopy(h)'
  PROVE  \A d \in Device : Sends(d)'
<1>. TAKE d \in Device
<1>1. UNCHANGED <<bufs, edits>> /\ Aware(d)' = Aware(d)
  BY AtTheHost, HostAware
<1>2. Sends(d)
  BY DEF AllSeen
<1>3. HasStaged(d)' => StagedCopy(d)'
  <2>1. CASE d = h
    BY <2>1
  <2>2. CASE d # h
    <3>1. pc'[d] = pc[d] /\ plan'[d] = plan[d] /\ req' = req
      BY <2>2 DEF OthersRest
    <3>2. HasStaged(d)' = HasStaged(d)
      BY <3>1 DEF HasStaged, OnDisk
    <3>3. HasStaged(d) => StagedCopy(d) /\ SameFile(TempPath(req[d].path, d))
      BY <1>2, <2>2 DEF Sends, OthersStaged, StagedCopy
    <3>4. TempPath(req[d].path, d)' = TempPath(req[d].path, d)
      BY <3>1 DEF TempPath
    <3>. QED
      BY <3>1, <3>2, <3>3, <3>4 DEF StagedCopy, SameFile, Exists
  <2>. QED
    BY <2>1, <2>2
<1>. QED
  BY <1>1, <1>2, <1>3 DEF Sends, StagedCopy

\* A staged copy is one by its name, and in the same directory.
LEMMA StagedIsTemp ==
  ASSUME Held, Ordered, FilesOriginal, NEW d \in Device, Mutating(d)
  PROVE  LET q == TempPath(req[d].path, d) IN
           q \in Path /\ q # Root /\ IsTemp(q) /\ Len(q) = 1
<1>. DEFINE p == req[d].path
            q == TempPath(p, d)
<1>1. p \in Files /\ p \in Path \ {Root} /\ Len(p) = 1 /\ now \in Nat
  BY WorkersAskFiles, MountAssumption DEF Held, Typed, IsName
<1>2. q \in Path /\ q # Root /\ ~IsOriginal(q) /\ LastCopy(q) = [by |-> d, at |-> 0]
  BY <1>1, CopiedPaths, CopiesEnd
<1>3. Len(q) = 1
  BY <1>1 DEF TempPath, Path
<1>4. q[Len(q)].copies # <<>>
  BY <1>2 DEF IsOriginal
<1>. HIDE DEF q
<1>5. IsTemp(q)
  BY <1>2, <1>4 DEF IsTemp, LastCopy
<1>. QED
  BY <1>2, <1>3, <1>5 DEF q

\* The handler of h changes no other file than its staged copy.
StagesOnly(h) ==
  \A p : \/ SameFile(p)
         \/ /\ Mutating(h) /\ p = TempPath(req[h].path, h)
            /\ p \in DOMAIN disk' => disk'[p] = File(req[h].clock, req[h].data)

\* The rest of the directory is as it was.
LEMMA StagingOnly ==
  ASSUME Held, AllSeen, FilesOriginal, NEW h \in Device, StagesOnly(h)
  PROVE  /\ SameFiles /\ OthersStaged(h)
         /\ Root \in DOMAIN disk' /\ disk'[Root] = disk[Root]
         /\ \A p \in DOMAIN disk' \ {Root} :
              \/ p \in DOMAIN disk /\ disk'[p] = disk[p]
              \/ Len(p) = 1 /\ disk'[p].kind = "file" /\ disk'[p].edit \in Clock
<1>. USE DEF AllSeen
<1>. DEFINE q == TempPath(req[h].path, h)
<1>1. Mutating(h) => q # Root /\ IsTemp(q) /\ Len(q) = 1
  BY StagedIsTemp
<1>2. SameFiles
  BY <1>1 DEF StagesOnly, SameFiles
<1>3. OthersStaged(h)
  <2>. SUFFICES ASSUME NEW e \in Device \ {h}, HasStaged(e)
                PROVE  SameFile(TempPath(req[e].path, e))
    BY DEF OthersStaged
  <2>1. Mutating(e)
    BY DEF HasStaged, Held, LinkInv, AtHost
  <2>2. req[e].path \in Path \ {Root}
    BY <2>1, WorkersAskFiles DEF IsName
  <2>3. Mutating(h) => req[h].path \in Path \ {Root}
    BY WorkersAskFiles DEF IsName
  <2>4. Mutating(h) => TempPath(req[e].path, e) # q
    BY <2>2, <2>3, StagedApart DEF Held, Typed, Ordered
  <2>. QED
    BY <2>4 DEF StagesOnly
<1>4. Root \in DOMAIN disk' /\ disk'[Root] = disk[Root]
  <2>1. Root \in DOMAIN disk
    BY DEF Ordered
  <2>. QED
    BY <1>1, <2>1 DEF StagesOnly, SameFile
<1>5. ASSUME NEW p \in DOMAIN disk' \ {Root}
      PROVE  \/ p \in DOMAIN disk /\ disk'[p] = disk[p]
             \/ Len(p) = 1 /\ disk'[p].kind = "file" /\ disk'[p].edit \in Clock
  <2>1. CASE SameFile(p)
    BY <2>1 DEF SameFile
  <2>2. CASE ~SameFile(p)
    <3>1. Mutating(h) /\ p = q /\ disk'[p] = File(req[h].clock, req[h].data)
      BY <2>2, <1>5 DEF StagesOnly
    <3>2. req[h].clock \in Clock
      BY <3>1, WorkersAskFiles, NextCounts DEF Held
    <3>. QED
      BY <1>1, <3>1, <3>2 DEF File
  <2>. QED
    BY <2>1, <2>2
<1>. QED
  BY <1>2, <1>3, <1>4, <1>5

\* What a handler answers that has done nothing: of its path what the host
\* lets anybody hear.
Tells(h) ==
  /\ reply'[h].clock \in {EmptyClock, LiveClock(req[h].path)}
  /\ Mutating(h) =>
       \/ reply'[h].result = "Error"
       \/ req[h].op = "delete" /\ (reply'[h].result \in {"Conflict", "Stale"} \/ ~Exists(req[h].path))

\* A handler moves on without having done anything but staging its data.
LEMMA HostQuiet ==
  ASSUME Held, Held', AllSeen, FilesOriginal, NEW h \in Device,
         UNCHANGED <<mount, history, req, clocks, tombs>>, now' # 0,
         OthersRest(h), StagesOnly(h), pc'[h] # "locked", ~Settling(h),
         pc'[h] = "replied" => Tells(h),
         HasStaged(h)' => StagedCopy(h)',
         \A d \in Device \ {h} : pc[d] = "locked" => lock' = d
  PROVE  AllSeen' /\ LostIsKnown
<1>. USE DEF AllSeen
<1>1. Ordered'
  <2>1. \A d \in Device : pc'[d] = "locked" => lock' = d
    BY DEF OthersRest
  <2>. QED
    BY <2>1, StagingOnly, HostOrdered
<1>2. \A d \in Device : Sends(d)'
  BY StagingOnly, HostSends
<1>3. Calm(h)
  BY StagingOnly, HostAware DEF Calm, OthersRest, Rests
<1>4. Delivered(h)'
  <2>1. req[h].op = "stream" => Mutating(h) /\ req[h].op # "delete"
    BY DEF Mutating, Mutation
  <2>2. pc'[h] = "replied" /\ req[h].op = "stream" => reply'[h].result = "Error"
    BY <2>1 DEF Tells
  <2>. QED
    BY <2>2 DEF Delivered
<1>5. ASSUME NEW p \in DOMAIN disk, NEW w \in Device, IsOriginal(p), Authored(p, w)
      PROVE  Told(h, p, w)
  <2>1. disk[p].edit[w] <= KnownClock(h, p)'[w] => disk[p].data \subseteq Aware(h)'
    BY <1>5, HostAware DEF Authored
  <2>2. ASSUME pc'[h] \in {"locked", "replied"}, req'[h].path = p,
               disk[p].edit[w] <= reply'[h].clock[w]
        PROVE  /\ Leq(disk[p].edit, reply'[h].clock)
               /\ Mutating(h)' => reply'[h].result \in {"Conflict", "Stale", "Error"}
    <3>1. Tells(h) /\ req[h].path = p
      BY <2>2
    <3>2. reply'[h].clock = LiveClock(p)
      <4>1. ~(disk[p].edit[w] <= EmptyClock[w])
        <5>1. EmptyClock[w] = 0 /\ 0 < disk[p].edit[w] /\ p # Root
          BY <1>5, NamesApart DEF EmptyClock, Authored
        <5>2. disk[p].edit \in Clock
          BY <5>1 DEF Ordered
        <5>. QED
          BY <5>1, <5>2 DEF Clock
      <4>. QED
        BY <2>2, <3>1, <4>1 DEF Tells
    <3>3. LiveClock(p) \in Heard(p)
      BY DEF Heard
    <3>4. Exists(p)
      BY DEF Exists
    <3>5. Mutating(h)' => Mutating(h)
      BY DEF Mutating
    <3>. QED
      BY <1>5, <2>2, <3>1, <3>2, <3>3, <3>4, <3>5 DEF Tells, Authored
  <2>. QED
    BY <2>1, <2>2 DEF Told
<1>6. Entrusted'
  BY <1>3, <1>4, <1>5, CalmStep
<1>7. LostIsKnown
  BY StagingOnly, KeptStay DEF LostIsKnown
<1>. QED
  BY <1>1, <1>2, <1>6, <1>7

\* A step that changes none of it.
LEMMA NothingSeen ==
  ASSUME AllSeen, now' # 0,
         UNCHANGED <<disk, clocks, tombs, lock, pc, req, plan, reply, table, bufs, known, call,
                     opened, dentry, edits, shown, told>>
  PROVE  AllSeen'
<1>1. \A p : LiveClock(p)' = LiveClock(p) /\ Tombed(p)' = Tombed(p) /\ Exists(p)' = Exists(p)
  BY DEF LiveClock, Tombed, TombClock, Exists
<1>2. \A d : Aware(d)' = Aware(d) /\ \A p : KnownClock(d, p)' = KnownClock(d, p)
  BY DEF Aware, KnownClock
<1>3. \A d : AsksFiles(d)' = AsksFiles(d)
  BY DEF AsksFiles, OfFiles, Mutating
<1>4. Ordered'
  BY <1>3 DEF AllSeen, Ordered, IsFile, Exists
<1>5. \A d : HasStaged(d)' = HasStaged(d)
  BY DEF HasStaged, OnDisk
<1>6. \A d \in Device : Sends(d)'
  <2>. TAKE d \in Device
  <2>1. TempPath(req[d].path, d)' = TempPath(req[d].path, d)
    BY DEF TempPath
  <2>2. Sends(d)
    BY DEF AllSeen
  <2>. QED
    BY <1>2, <1>5, <2>1, <2>2 DEF Sends, Exists
<1>7. \A d : /\ Settling(d)' = Settling(d) /\ Landing(d)' = Landing(d)
             /\ Burying(d)' = Burying(d)
  BY <1>1 DEF Settling, Landing, Burying, Landed, Exists, Tombed, TombClock
<1>8. \A d : Copying(d)' = Copying(d)
  BY DEF Copying, IsCopy, IsOriginal, IsTemp, LastBy, Place
<1>9. \A d : Works(d)' = Works(d)
  BY <1>2, <1>7, <1>8 DEF Works, Place, OnDisk, Exists
<1>10. Kept' = Kept
  BY DEF Kept, IsFile, Exists, IsTemp
<1>11. \A d : Delivered(d)' = Delivered(d)
  BY <1>2, <1>10 DEF Delivered, Preserved, OnDisk
<1>12. \A p, w : Authored(p, w)' = Authored(p, w)
  <2>. TAKE p, w
  <2>1. Heard(p)' = Heard(p)
    BY DEF Heard, LiveClock
  <2>2. \A e : Mutating(e)' = Mutating(e)
    BY DEF Mutating
  <2>. QED
    BY <1>2, <2>1, <2>2 DEF Authored
<1>13. \A p : Accounted(p)' = Accounted(p)
  <2>. TAKE p
  <2>1. IsOriginal(p)' = IsOriginal(p) /\ IsCopy(p)' = IsCopy(p) /\ LastBy(p)' = LastBy(p)
    BY DEF IsOriginal, IsCopy, IsTemp, LastBy
  <2>2. Aware(LastBy(p))' = Aware(LastBy(p))
    BY <1>2 DEF Aware, LastBy
  <2>. QED
    BY <1>1, <1>7, <1>12, <2>1, <2>2 DEF Accounted
<1>. QED
  BY <1>4, <1>6, <1>9, <1>11, <1>13 DEF AllSeen, Entrusted

\* The directory above a file is the root.
LEMMA AboveAFile ==
  ASSUME NEW p \in Files
  PROVE  Ancestors(p) = {Root}
<1>1. Len(p) = 1 /\ p \in Seq(Leaf)
  BY MountAssumption DEF Path
<1>2. Ancestors(p) = {SubSeq(p, 1, n) : n \in {0}}
  <2>1. 0..(Len(p) - 1) = {0}
    BY <1>1
  <2>. QED
    BY <2>1, Zenon DEF Ancestors
<1>3. SubSeq(p, 1, 0) = <<>>
  BY <1>1
<1>. QED
  BY <1>2, <1>3 DEF Root

\* No parent has to be made again.
LEMMA EnsureParentSeen ==
  ASSUME Held, Held', AllSeen, FilesOriginal, NEW h \in Device, EnsureParent(h),
         UNCHANGED <<mount, history>>
  PROVE  AllSeen' /\ LostIsKnown
<1>1. Mutating(h) /\ pc[h] = "accepted" /\ UNCHANGED <<clocks, tombs, lock, req, plan, now>>
  BY DEF EnsureParent, Mutating, Mutation, store
<1>2. Ancestors(req[h].path) = {Root}
  BY <1>1, WorkersAskFiles, AboveAFile DEF AllSeen
<1>3. \A p : SameFile(p)
  BY <1>2 DEF EnsureParent, SameFile, AllSeen, Ordered, Exists
<1>4. PICK x \in {"staging", "waiting"} :
        /\ \/ Finish(h, "Error", EmptyClock)
           \/ pc' = [pc EXCEPT ![h] = x] /\ reply' = reply
        /\ req[h].op = "stream" => x = "staging"
  BY DEF EnsureParent
<1>5. /\ OthersRest(h) /\ pc'[h] \in {"replied", "staging", "waiting"}
      /\ pc'[h] = "replied" => reply'[h].clock = EmptyClock /\ reply'[h].result = "Error"
      /\ req[h].op = "stream" => pc'[h] # "waiting"
  <2>1. CASE Finish(h, "Error", EmptyClock)
    <3>. DEFINE a == Reply("Error", EmptyClock)
    <3>1. a.clock = EmptyClock /\ a.result = "Error" /\ "replied" \in Busy
      BY AnswerFields DEF Busy
    <3>2. pc' = [pc EXCEPT ![h] = "replied"] /\ reply' = [reply EXCEPT ![h] = a]
      BY <2>1 DEF Finish
    <3>. HIDE DEF a
    <3>. QED
      BY <1>1, <3>1, <3>2, GoesTo DEF OthersRest, Held
  <2>2. CASE pc' = [pc EXCEPT ![h] = x] /\ reply' = reply
    <3>1. x \in Busy
      BY DEF Busy
    <3>. QED
      BY <1>1, <1>4, <2>2, <3>1, GoesToKeeping DEF OthersRest, Held
  <2>. QED
    BY <1>4, <2>1, <2>2
<1>6. ~Settling(h) /\ (HasStaged(h)' => StagedCopy(h)')
  BY <1>1, <1>5 DEF Settling, HasStaged
<1>7. StagesOnly(h) /\ (pc'[h] = "replied" => Tells(h))
  BY <1>3, <1>5 DEF StagesOnly, Tells
<1>8. now' # 0 /\ \A d \in Device \ {h} : pc[d] = "locked" => lock' = d
  BY <1>1 DEF AllSeen, Ordered
<1>. QED
  BY <1>1, <1>5, <1>6, <1>7, <1>8, HostQuiet

\* The data of a write is staged.
LEMMA StageSeen ==
  ASSUME Held, Held', AllSeen, FilesOriginal, NEW h \in Device, Stage(h),
         UNCHANGED <<mount, history>>
  PROVE  AllSeen' /\ LostIsKnown
<1>. DEFINE q == TempPath(req[h].path, h)
<1>1. Mutating(h) /\ pc[h] = "staging" /\ UNCHANGED <<clocks, tombs, lock, req, plan, now>>
  BY DEF Stage, store, Held, LinkInv, AtHost
<1>2. CASE IsDir(Parent(req[h].path))
  <2>1. disk' = With(disk, q, File(req[h].clock, req[h].data)) /\ reply' = reply
        /\ pc' = [pc EXCEPT ![h] = "waiting"]
    BY <1>2 DEF Stage
  <2>2. OthersRest(h) /\ pc'[h] = "waiting"
    <3>1. "waiting" \in Busy
      BY DEF Busy
    <3>. QED
      BY <1>1, <2>1, <3>1, GoesToKeeping DEF OthersRest, Held
  <2>3. StagesOnly(h) /\ q \in DOMAIN disk' /\ disk'[q] = File(req[h].clock, req[h].data)
    BY <1>1, <2>1 DEF StagesOnly, With, SameFile
  <2>4. StagedCopy(h)'
    <3>1. TempPath(req[h].path, h)' = q
      BY <1>1 DEF TempPath
    <3>. QED
      BY <1>1, <2>3, <3>1 DEF StagedCopy, Exists
  <2>5. ~Settling(h) /\ now' # 0 /\ \A d \in Device \ {h} : pc[d] = "locked" => lock' = d
    BY <1>1 DEF Settling, AllSeen, Ordered
  <2>. QED
    BY <1>1, <2>2, <2>3, <2>4, <2>5, HostQuiet
<1>3. CASE ~IsDir(Parent(req[h].path))
  <2>1. disk' = disk /\ Finish(h, "Error", EmptyClock)
    BY <1>3 DEF Stage
  <2>2. /\ OthersRest(h) /\ pc'[h] = "replied"
        /\ reply'[h].clock = EmptyClock /\ reply'[h].result = "Error"
    <3>. DEFINE a == Reply("Error", EmptyClock)
    <3>1. a.clock = EmptyClock /\ a.result = "Error" /\ "replied" \in Busy
      BY AnswerFields DEF Busy
    <3>2. pc' = [pc EXCEPT ![h] = "replied"] /\ reply' = [reply EXCEPT ![h] = a]
      BY <2>1 DEF Finish
    <3>. HIDE DEF a
    <3>. QED
      BY <1>1, <3>1, <3>2, GoesTo DEF OthersRest, Held
  <2>3. StagesOnly(h) /\ Tells(h) /\ ~Settling(h) /\ ~HasStaged(h)'
    BY <1>1, <2>1, <2>2 DEF StagesOnly, SameFile, Tells, Settling, HasStaged
  <2>4. now' # 0 /\ \A d \in Device \ {h} : pc[d] = "locked" => lock' = d
    BY <1>1 DEF AllSeen, Ordered
  <2>. QED
    BY <1>1, <2>2, <2>3, <2>4, HostQuiet
<1>. QED
  BY <1>2, <1>3

\* What a look at a file, its clock or a directory does.
LEMMA LookFacts ==
  ASSUME Held, NEW h \in Device, Look(h)
  PROVE  /\ pc[h] \in {"accepted", "found"} /\ req[h].op \in {"stat", "read", "list"}
         /\ UNCHANGED <<disk, clocks, tombs, lock, req, plan, detached, now>>
         /\ pc' \in [Device -> Busy] /\ pc'[h] \in {"found", "replied"}
         /\ DOMAIN reply' = Device /\ OthersRest(h)
         /\ reply'[h].clock \in {EmptyClock, LiveClock(req[h].path)}
         /\ pc'[h] = "found" => req[h].op = "stat"
         /\ req[h].op = "list" => \A p \in reply'[h].seen : IsName(p)
<1>0. {"found", "replied"} \subseteq Busy
  BY DEF Busy
<1>1. LiveClock(req[h].path) \in Clock /\ EmptyClock \in Clock
  BY ClocksAreClocks, EmptyClockType DEF Held
<1>2. AtHost(h) /\ DOMAIN disk \subseteq Path /\ Typed
  BY DEF LinkInv, Typed, Held
<1>4. /\ pc[h] \in {"accepted", "found"} /\ req[h].op \in {"stat", "read", "list"}
      /\ UNCHANGED <<disk, clocks, tombs, lock, req, plan, detached, now>>
  BY <1>2 DEF Look, StatFile, StatClock, ReadFile, ListDir, store, AtHost
<1>5. /\ pc' \in [Device -> Busy] /\ pc'[h] \in {"found", "replied"}
      /\ DOMAIN reply' = Device /\ OthersRest(h)
      /\ reply'[h].clock \in {EmptyClock, LiveClock(req[h].path)}
      /\ pc'[h] = "found" => req[h].op = "stat"
      /\ req[h].op = "list" => \A p \in reply'[h].seen : IsName(p)
  <2>1. CASE StatFile(h)
    <3>1. CASE reply' = [reply EXCEPT ![h] = Answer("Found", EmptyClock, {disk[req[h].path]})]
               /\ pc' = [pc EXCEPT ![h] = "found"]
      <4>. DEFINE a == Answer("Found", EmptyClock, {disk[req[h].path]})
      <4>1. /\ pc' = [pc EXCEPT ![h] = "found"] /\ reply' = [reply EXCEPT ![h] = a]
            /\ req[h].op = "stat" /\ a.clock = EmptyClock
        BY <2>1, <3>1, AnswerFields DEF StatFile
      <4>. HIDE DEF a
      <4>. QED
        BY <1>0, <1>2, <1>4, <4>1, GoesTo DEF OthersRest
    <3>2. ASSUME NEW result, Finish(h, result, EmptyClock)
          PROVE  /\ pc' \in [Device -> Busy] /\ pc'[h] \in {"found", "replied"}
                 /\ DOMAIN reply' = Device /\ OthersRest(h)
                 /\ reply'[h].clock \in {EmptyClock, LiveClock(req[h].path)}
                 /\ pc'[h] = "found" => req[h].op = "stat"
                 /\ req[h].op = "list" => \A p \in reply'[h].seen : IsName(p)
      <4>. DEFINE a == Reply(result, EmptyClock)
      <4>1. /\ pc' = [pc EXCEPT ![h] = "replied"] /\ reply' = [reply EXCEPT ![h] = a]
            /\ req[h].op = "stat" /\ a.clock = EmptyClock
        BY <2>1, <3>2, AnswerFields DEF StatFile, Finish
      <4>. HIDE DEF a
      <4>. QED
        BY <1>0, <1>2, <1>4, <4>1, GoesTo DEF OthersRest
    <3>. QED
      BY <2>1, <3>1, <3>2 DEF StatFile
  <2>2. CASE StatClock(h)
    <3>. DEFINE a == Answer("Found", LiveClock(req[h].path), reply[h].seen)
    <3>1. /\ pc' = [pc EXCEPT ![h] = "replied"] /\ reply' = [reply EXCEPT ![h] = a]
          /\ req[h].op = "stat" /\ a.clock = LiveClock(req[h].path)
      BY <1>2, <2>2, AnswerFields DEF StatClock, AtHost
    <3>. HIDE DEF a
    <3>. QED
      BY <1>0, <1>2, <1>4, <3>1, GoesTo DEF OthersRest
  <2>3. CASE ReadFile(h)
    <3>. DEFINE a == IF IsFile(req[h].path) THEN Answer("Data", EmptyClock, {disk[req[h].path]})
                     ELSE Reply("Error", EmptyClock)
    <3>1. /\ pc' = [pc EXCEPT ![h] = "replied"] /\ reply' = [reply EXCEPT ![h] = a]
          /\ req[h].op = "read" /\ a.clock = EmptyClock
      BY <2>3, AnswerFields DEF ReadFile
    <3>. HIDE DEF a
    <3>. QED
      BY <1>0, <1>2, <1>4, <3>1, GoesTo DEF OthersRest
  <2>4. CASE ListDir(h)
    <3>. DEFINE a == IF IsDir(req[h].path)
                     THEN Answer("Listing", EmptyClock, Children(req[h].path))
                     ELSE Reply("Error", EmptyClock)
    <3>1. /\ pc' = [pc EXCEPT ![h] = "replied"] /\ reply' = [reply EXCEPT ![h] = a]
          /\ a.clock = EmptyClock
      BY <2>4, AnswerFields DEF ListDir
    <3>2. \A p \in a.seen : IsName(p)
      <4>1. \A p \in Children(req[h].path) : IsName(p)
        BY <1>2 DEF Children, IsName
      <4>. QED
        BY <4>1, AnswerFields
    <3>. HIDE DEF a
    <3>. QED
      BY <1>0, <1>2, <1>4, <3>1, <3>2, GoesTo DEF OthersRest
  <2>. QED
    BY <2>1, <2>2, <2>3, <2>4 DEF Look
<1>. QED
  BY <1>4, <1>5

\* A look at a file, its clock or a directory.
LEMMA LookSeen ==
  ASSUME Held, Held', AllSeen, FilesOriginal, NEW h \in Device, Look(h),
         UNCHANGED <<mount, history>>
  PROVE  AllSeen' /\ LostIsKnown
<1>1. ~Mutating(h)
  BY LookFacts DEF Mutating, Mutation
<1>2. StagesOnly(h) /\ Tells(h) /\ ~Settling(h) /\ ~HasStaged(h)' /\ pc'[h] # "locked"
  BY <1>1, LookFacts DEF StagesOnly, SameFile, Tells, Settling, HasStaged
<1>3. /\ now' # 0 /\ \A d \in Device \ {h} : pc[d] = "locked" => lock' = d
      /\ UNCHANGED <<clocks, tombs, req>> /\ OthersRest(h)
  BY LookFacts DEF AllSeen, Ordered
<1>. QED
  BY <1>2, <1>3, HostQuiet

\* A file operation fails: nothing has happened to the files.
LEMMA StepFailsSeen ==
  ASSUME Held, Held', AllSeen, FilesOriginal, NEW h \in Device, StepFails(h),
         UNCHANGED <<mount, history>>
  PROVE  AllSeen' /\ LostIsKnown
<1>1. /\ AtHost(h) /\ Typed /\ pc[h] = "locked" /\ Mutating(h)
      /\ UNCHANGED <<clocks, tombs, req, now>>
      /\ disk' = WithoutTemp(disk, h) /\ plan' = [plan EXCEPT ![h] = <<>>]
  BY DEF StepFails, store, Held, LinkInv, AtHost
<1>2. OnDisk(plan[h][1])
  <2>1. ~Possible(plan[h][1])
    BY <1>1, TailChanges DEF StepFails, AtHost
  <2>. QED
    BY <2>1 DEF Possible, OnDisk
<1>3. ~Settling(h)
  BY <1>2, ShortPlans, OpFields DEF Settling, OnDisk
<1>4. /\ OthersRest(h) /\ pc'[h] = "replied"
      /\ reply'[h].clock = EmptyClock /\ reply'[h].result = "Error"
  <2>. DEFINE a == Reply("Error", EmptyClock)
  <2>1. a.clock = EmptyClock /\ a.result = "Error" /\ "replied" \in Busy
    BY AnswerFields DEF Busy
  <2>2. pc' = [pc EXCEPT ![h] = "replied"] /\ reply' = [reply EXCEPT ![h] = a]
    BY DEF StepFails, Finish
  <2>. HIDE DEF a
  <2>3. \A e \in Device \ {h} : plan'[e] = plan[e]
    BY <1>1 DEF Typed
  <2>. QED
    BY <1>1, <2>1, <2>2, <2>3, GoesTo DEF OthersRest
<1>5. StagesOnly(h)
  BY <1>1 DEF StagesOnly, SameFile, WithoutTemp, Without
<1>6. Tells(h) /\ ~HasStaged(h)'
  BY <1>4 DEF Tells, HasStaged
<1>7. now' # 0 /\ \A d \in Device \ {h} : pc[d] # "locked"
  BY <1>1 DEF AllSeen, Ordered
<1>. QED
  BY <1>1, <1>3, <1>4, <1>5, <1>6, <1>7, HostQuiet

\* The passing of a second.
LEMMA SecondSeen ==
  ASSUME Held, AllSeen, Second, UNCHANGED <<mount, history>>
  PROVE  AllSeen' /\ LostIsKnown
<1>1. /\ UNCHANGED <<disk, clocks, tombs, lock, pc, req, plan, reply>>
      /\ now' = now + 1 /\ now \in Nat
  BY DEF Second, store, rpc, Held, Typed
<1>2. now' # 0
  BY <1>1
<1>3. LostIsKnown
  BY <1>1, KeptStay DEF LostIsKnown, SameFiles, SameFile
<1>. QED
  BY <1>1, <1>2, <1>3, AtTheHost, NothingSeen

-----------------------------------------------------------------------------
(* What is decided takes the place of nothing unseen.                       *)

\* What the host decides of a request of h: to change nothing, or one of the
\* five plans of a streamed write and a delete.
Comes(h, o) ==
  LET r     == req[h]
      p     == r.path
      staged == TempPath(p, h)
      copy  == ConflictPath(p, h)
      stored == LiveClock(p)
  IN \/ /\ r.op = "delete" /\ o.ops = <<>> /\ o.clock = stored
        /\ o.result \in {"Conflict", "Stale"} \/ ~Exists(p)
     \/ /\ r.op = "stream" /\ o.result \in {"Applied", "Conflict"} /\ ~Exists(p)
        /\ o.clock = Merge(TombClock(p), r.clock)
        /\ o.ops = <<Move(staged, p), DropTomb(p), PutClock(p, o.clock)>>
     \/ /\ r.op = "stream" /\ o.result = "Applied" /\ ~Tombed(p) /\ Leq(stored, r.clock)
        /\ o.clock = Merge(stored, r.clock)
        /\ o.ops = <<Move(staged, p), PutClock(p, o.clock)>>
     \/ /\ r.op = "stream" /\ o.result = "Conflict" /\ o.clock = stored
        /\ o.ops = <<Move(staged, copy), PutClock(copy, r.clock)>>
     \/ /\ r.op = "delete" /\ ~Exists(p)
        /\ o.ops = <<PutTomb(p, o.clock)>>
     \/ /\ r.op = "delete" /\ Leq(stored, r.clock) /\ o.clock = Merge(stored, r.clock)
        /\ o.ops = <<RemoveFile(p), PutTomb(p, o.clock), DropClock(p)>>

\* While nobody has the lock, what is there has seen its stored clock and no
\* tombstone covers it.
LEMMA FreeIsLive ==
  ASSUME Held, AllSeen, lock = Unlocked, NEW p, IsOriginal(p), Exists(p)
  PROVE  Leq(disk[p].edit, LiveClock(p)) /\ ~Tombed(p) /\ disk[p].edit \in Clock
<1>1. \A d \in Device : pc[d] # "locked"
  BY FileHostAssumption DEF AllSeen, Ordered
<1>2. p \in DOMAIN disk \ {Root}
  BY NamesApart DEF Exists
<1>3. Accounted(p) /\ disk[p].edit \in Clock
  BY <1>2 DEF AllSeen, Entrusted, Ordered
<1>. QED
  BY <1>1, <1>3 DEF Accounted, Settling

\* A new change is never taken for an old one: it counts one more of its device
\* than the stores do.
LEMMA NeverStale ==
  ASSUME Held, AllSeen, FilesOriginal, NEW h \in Device, pc[h] = "waiting"
  PROVE  LET p == req[h].path IN
           /\ Compare(req[h].clock, LiveClock(p)) # "DominatedBy"
           /\ Compare(req[h].clock, TombClock(p)) # "DominatedBy"
           /\ Compare(req[h].clock, LiveClock(p)) \in {"Dominates", "Equal"}
                => Leq(LiveClock(p), req[h].clock)
<1>. DEFINE p == req[h].path
            n == req[h].clock
<1>1. Mutating(h)
  BY DEF Held, LinkInv, AtHost
<1>2. p \in Files /\ IsOriginal(p) /\ n = NextClock(h, p)
  BY <1>1, WorkersAskFiles DEF AllSeen
<1>3. /\ LiveClock(p) \in Clock /\ TombClock(p) \in Clock /\ n \in Clock
      /\ KnownClock(h, p)[h] \in Nat /\ n[h] = KnownClock(h, p)[h] + 1
  BY <1>2, ClocksAreClocks, NextCounts, CountsAreNumbers DEF Held
<1>4. LiveClock(p)[h] <= Limit(h, p) /\ TombClock(p)[h] <= Limit(h, p)
  BY <1>2 DEF Held, CountInv, Counted
<1>5. Limit(h, p) = KnownClock(h, p)[h]
  BY <1>3 DEF Limit, Published
<1>. HIDE DEF n
<1>6. LiveClock(p)[h] \in Nat /\ TombClock(p)[h] \in Nat
  BY <1>3 DEF Clock
<1>7. ~Leq(n, LiveClock(p)) /\ ~Leq(n, TombClock(p))
  BY <1>3, <1>4, <1>5, <1>6 DEF Leq
<1>. QED
  BY <1>3, <1>7, CompareClassifies DEF n

\* The decisions about the requests of the mounts.
LEMMA DecisionsCome ==
  ASSUME Held, AllSeen, FilesOriginal, NEW h \in Device, pc[h] = "waiting", lock = Unlocked
  PROVE  Comes(h, Decide(h, req[h]))
<1>. DEFINE r == req[h]
            p == r.path
            live == LiveClock(p)
            tomb == TombClock(p)
            copy == ConflictPath(p, h)
            n == Merge(live, r.clock)
            m == Merge(tomb, r.clock)
<1>1. Mutating(h)
  BY DEF Held, LinkInv, AtHost
<1>2. p \in Files /\ IsOriginal(p) /\ r.op \in {"stream", "delete"}
  BY <1>1, WorkersAskFiles DEF AllSeen
<1>3. Tombed(p) => ~Exists(p)
  BY <1>2, FreeIsLive
<1>4. /\ Compare(r.clock, live) # "DominatedBy" /\ Compare(r.clock, tomb) # "DominatedBy"
      /\ Compare(r.clock, live) \in {"Dominates", "Equal"} => Leq(live, r.clock)
  BY NeverStale
<1>5. \A res, c, s : /\ Outcome(res, c, s).result = res /\ Outcome(res, c, s).clock = c
                     /\ Outcome(res, c, s).ops = s
  BY DEF Outcome
<1>6. r.op = "stream" => \A q : Store(h, r, q) = Move(TempPath(p, h), q)
  BY DEF Store
<1>. HIDE DEF live, tomb, copy
<1>7. CASE r.op = "stream" /\ Tombed(p)
  <2>1. Decide(h, r) = WriteOverTombstone(h, r)
    BY <1>7, Zenon DEF Decide, WriteOutcome
  <2>2. \E res \in {"Conflict", "Applied"} :
          WriteOverTombstone(h, r) = Outcome(res, m, Revive(h, r, m))
    BY <1>4, Zenon DEF WriteOverTombstone, tomb
  <2>3. Revive(h, r, m) = <<Move(TempPath(p, h), p), DropTomb(p), PutClock(p, m)>>
    BY <1>6, <1>7 DEF Revive
  <2>. HIDE DEF m
  <2>4. PICK o : o = Decide(h, r)
    OBVIOUS
  <2>5. /\ o.result \in {"Conflict", "Applied"} /\ o.clock = m
        /\ o.ops = <<Move(TempPath(p, h), p), DropTomb(p), PutClock(p, m)>>
    BY <1>5, <2>1, <2>2, <2>3, <2>4
  <2>6. Comes(h, o)
    BY <1>3, <1>7, <2>5 DEF Comes, m, tomb
  <2>. QED
    BY <2>4, <2>6
<1>8. CASE r.op = "stream" /\ ~Tombed(p)
  <2>. DEFINE s == <<Store(h, r, p), PutClock(p, n)>>
              u == <<Store(h, r, copy), PutClock(copy, r.clock)>>
  <2>1. Decide(h, r) = WriteOverLive(h, r)
    BY <1>8, Zenon DEF Decide, WriteOutcome
  <2>2. \/ Compare(r.clock, live) \in {"Dominates", "Equal"}
           /\ WriteOverLive(h, r) = Outcome("Applied", n, s)
        \/ WriteOverLive(h, r) = Outcome("Conflict", live, u)
    BY <1>4, CompareInOrder, Zenon DEF WriteOverLive, Order, live, copy
  <2>3. /\ s = <<Move(TempPath(p, h), p), PutClock(p, n)>>
        /\ u = <<Move(TempPath(p, h), copy), PutClock(copy, r.clock)>>
    BY <1>6, <1>8
  <2>. HIDE DEF s, u, n
  <2>. QED
    BY <1>4, <1>5, <1>8, <2>1, <2>2, <2>3 DEF Comes, n, live, copy
<1>9. CASE r.op = "delete"
  <2>. DEFINE u == <<RemoveFile(p), PutTomb(p, n), DropClock(p)>>
  <2>1. Decide(h, r) = DeleteOutcome(h, r)
    BY <1>9, Zenon DEF Decide
  <2>2. \/ Tombed(p) /\ DeleteOutcome(h, r) = Outcome("Deleted", m, <<PutTomb(p, m)>>)
        \/ ~Exists(p) /\ DeleteOutcome(h, r) = Outcome("NotFound", live, <<>>)
        \/ Compare(r.clock, live) \in {"Dominates", "Equal"}
           /\ DeleteOutcome(h, r) = Outcome("Deleted", n, u)
        \/ \E res \in {"Stale", "Conflict"} : DeleteOutcome(h, r) = Outcome(res, live, <<>>)
    BY CompareInOrder, Zenon DEF DeleteOutcome, DeleteAgain, Order, live, tomb
  <2>. HIDE DEF n, m
  <2>. QED
    BY <1>3, <1>4, <1>5, <1>9, <2>1, <2>2 DEF Comes, n, m, live, tomb
<1>. QED
  BY <1>2, <1>7, <1>8, <1>9

\* A version that counts no more changes of its author than h knows and makes
\* is one that h has seen.
LEMMA CoveredIsKnown ==
  ASSUME Held, AllSeen, NEW h \in Device, NEW p, IsOriginal(p), Exists(p), NEW w \in Device,
         Authored(p, w), disk[p].edit[w] <= NextClock(h, p)[w]
  PROVE  disk[p].data \subseteq Aware(h)
<1>1. NextClock(h, p)[w] = KnownClock(h, p)[w] + (IF w = h THEN 1 ELSE 0)
  BY NextCounts DEF Held
<1>2. KnownClock(h, p)[w] \in Nat
  BY CountsAreNumbers DEF Held
<1>3. CASE w = h
  BY <1>3 DEF Authored
<1>4. CASE w # h
  <2>1. disk[p].edit[w] <= KnownClock(h, p)[w]
    BY <1>1, <1>2, <1>4
  <2>. QED
    BY <2>1 DEF Authored
<1>. QED
  BY <1>3, <1>4

\* So is one whose stored clock a new change of h has seen.
LEMMA OvertakenIsKnown ==
  ASSUME Held, AllSeen, NEW h \in Device, NEW p, IsOriginal(p), Exists(p), lock = Unlocked,
         Leq(LiveClock(p), NextClock(h, p))
  PROVE  disk[p].data \subseteq Aware(h)
<1>1. CASE disk[p].data = {}
  BY <1>1
<1>2. CASE disk[p].data # {}
  <2>1. p \in DOMAIN disk \ {Root}
    BY NamesApart DEF Exists
  <2>2. PICK w \in Device : Authored(p, w)
    BY <1>2, <2>1 DEF AllSeen, Entrusted, Accounted
  <2>3. Leq(disk[p].edit, LiveClock(p)) /\ disk[p].edit \in Clock
    BY FreeIsLive
  <2>4. LiveClock(p) \in Clock /\ NextClock(h, p) \in Clock
    BY ClocksAreClocks, NextCounts DEF Held
  <2>5. Leq(disk[p].edit, NextClock(h, p))
    BY <2>3, <2>4, LeqTransitive
  <2>6. disk[p].edit[w] <= NextClock(h, p)[w]
    BY <2>5 DEF Leq
  <2>. QED
    BY <2>2, <2>6, CoveredIsKnown
<1>. QED
  BY <1>1, <1>2

\* A conflict copy of h is one by its name, and in the same directory.
LEMMA CopyNames ==
  ASSUME Held, Ordered, FilesOriginal, NEW h \in Device, Mutating(h)
  PROVE  LET q == ConflictPath(req[h].path, h) IN
           q \in Path /\ q # Root /\ IsCopy(q) /\ LastBy(q) = h
<1>. DEFINE p == req[h].path
            q == ConflictPath(p, h)
<1>1. p \in Files /\ p \in Path \ {Root} /\ Len(p) = 1 /\ now \in Nat \ {0}
  BY WorkersAskFiles, MountAssumption DEF Held, Typed, IsName, Ordered
<1>2. q \in Path /\ q # Root /\ ~IsOriginal(q) /\ LastCopy(q) = [by |-> h, at |-> now]
  BY <1>1, CopiedPaths, CopiesAreNotOriginal, CopiesEnd
<1>3. Len(q) = 1
  BY <1>1 DEF ConflictPath, Path
<1>. HIDE DEF q
<1>4. ~IsTemp(q) /\ LastBy(q) = h
  BY <1>1, <1>2 DEF IsTemp, LastCopy, LastBy
<1>. QED
  BY <1>2, <1>3, <1>4 DEF IsCopy, q

\* A plan takes the place of nothing that h does not know of.
LEMMA PlansWork ==
  ASSUME Held, AllSeen, FilesOriginal, NEW h \in Device, pc[h] = "waiting", lock = Unlocked,
         UNCHANGED <<mount, history>>, NEW o, Comes(h, o), o.ops # <<>>,
         plan'[h] = o.ops, reply'[h].result = o.result, reply'[h].clock = o.clock,
         UNCHANGED <<disk, clocks, tombs, req>>
  PROVE  Works(h)'
<1>. DEFINE r == req[h]
            p == r.path
            q == ConflictPath(p, h)
            n == Merge(LiveClock(p), r.clock)
            m == Merge(TombClock(p), r.clock)
<1>1. Mutating(h)
  BY DEF Held, LinkInv, AtHost
<1>2. IsOriginal(p) /\ r.clock = NextClock(h, p)
  BY <1>1, WorkersAskFiles DEF AllSeen
<1>3. r.clock \in Clock /\ Leq(r.clock, n) /\ Leq(r.clock, m)
  <2>1. r.clock \in Clock /\ LiveClock(p) \in Clock /\ TombClock(p) \in Clock
    BY <1>2, ClocksAreClocks, NextCounts DEF Held
  <2>. QED
    BY <2>1, MergeIsLub
<1>4. r' = r /\ Aware(h)' = Aware(h)
  BY HostAware
<1>5. q \in Path /\ q # Root /\ IsCopy(q) /\ LastBy(q) = h
  BY <1>1, CopyNames DEF AllSeen
<1>6. TempPath(p, h)' = TempPath(p, h) /\ Tombed(p)' = Tombed(p)
  BY DEF TempPath, Tombed, TombClock
<1>. HIDE DEF n, m, q
<1>7. CASE r.op = "stream" /\ o.ops = <<Move(TempPath(p, h), p), DropTomb(p), PutClock(p, o.clock)>>
           /\ ~Exists(p) /\ o.clock = m
  <2>1. Landing(h)'
    BY <1>3, <1>4, <1>6, <1>7 DEF Landing
  <2>2. plan'[h][1] = Move(TempPath(p, h), p)
    BY <1>7
  <2>3. Place(plan'[h][1]) = p /\ p \notin DOMAIN disk'
    BY <1>7, <2>2, OpFields DEF Place, Exists
  <2>. QED
    BY <2>1, <2>3 DEF Works, Place, Exists
<1>8. CASE r.op = "stream" /\ o.ops = <<Move(TempPath(p, h), p), PutClock(p, o.clock)>>
           /\ ~Tombed(p) /\ o.clock = n /\ Leq(LiveClock(p), r.clock)
  <2>1. Landing(h)'
    BY <1>3, <1>4, <1>6, <1>8 DEF Landing
  <2>2. plan'[h][1] = Move(TempPath(p, h), p)
    BY <1>8
  <2>3. Place(plan'[h][1]) = p
    BY <2>2, OpFields DEF Place
  <2>4. Exists(p) => disk[p].data \subseteq Aware(h)
    BY <1>1, <1>2, <1>8, OvertakenIsKnown
  <2>. QED
    BY <1>4, <2>1, <2>3, <2>4 DEF Works, Place, Exists
<1>9. CASE r.op = "stream" /\ o.ops = <<Move(TempPath(p, h), q), PutClock(q, r.clock)>>
           /\ o.result = "Conflict"
  <2>1. plan'[h][1] = Move(TempPath(p, h), q) /\ plan'[h] = <<Move(TempPath(p, h), q), PutClock(q, r.clock)>>
    BY <1>9
  <2>2. Place(plan'[h][1]) = q
    BY <2>1, OpFields DEF Place
  <2>3. Copying(h)'
    BY <1>4, <1>5, <1>6, <1>9, <2>1, <2>2 DEF Copying, Place, IsCopy, IsOriginal, IsTemp, LastBy
  <2>4. Exists(q) => disk[q].data \subseteq Aware(h)
    BY <1>5 DEF AllSeen, Entrusted, Accounted, Exists
  <2>. QED
    BY <1>4, <2>2, <2>3, <2>4 DEF Works, Place, Exists
<1>10. CASE r.op = "delete" /\ ~Exists(p) /\ o.ops = <<PutTomb(p, o.clock)>>
  <2>1. Burying(h)'
    BY <1>4, <1>10 DEF Burying, Exists
  <2>2. ~OnDisk(plan'[h][1])
    BY <1>10, OpFields DEF OnDisk
  <2>. QED
    BY <2>1, <2>2 DEF Works, OnDisk
<1>11. CASE r.op = "delete" /\ Leq(LiveClock(p), r.clock)
            /\ o.ops = <<RemoveFile(p), PutTomb(p, o.clock), DropClock(p)>>
  <2>1. Burying(h)'
    BY <1>4, <1>11 DEF Burying
  <2>2. plan'[h][1] = RemoveFile(p)
    BY <1>11
  <2>3. Place(plan'[h][1]) = p
    BY <2>2, OpFields DEF Place
  <2>4. Exists(p) => disk[p].data \subseteq Aware(h)
    BY <1>1, <1>2, <1>11, OvertakenIsKnown
  <2>. QED
    BY <1>4, <2>1, <2>3, <2>4 DEF Works, Place, Exists
<1>. QED
  BY <1>7, <1>8, <1>9, <1>10, <1>11 DEF Comes, q, m, n

\* Who is answered after the decision is told of the version that is there.
LEMMA DecisionTells ==
  ASSUME Held, AllSeen, FilesOriginal, NEW h \in Device, pc[h] = "waiting", lock = Unlocked,
         UNCHANGED <<mount, history>>, NEW o, Comes(h, o), o.ops # <<>>, req' = req,
         reply'[h].result = o.result, reply'[h].clock = o.clock,
         NEW p \in DOMAIN disk, NEW w \in Device, IsOriginal(p), Authored(p, w)
  PROVE  Told(h, p, w)
<1>. DEFINE r == req[h]
<1>1. Mutating(h)
  BY DEF Held, LinkInv, AtHost
<1>2. r.clock = NextClock(h, r.path) /\ r.clock \in Clock
  BY <1>1, WorkersAskFiles, NextCounts DEF AllSeen, Held
<1>3. Aware(h)' = Aware(h) /\ KnownClock(h, p)' = KnownClock(h, p)
  BY HostAware
<1>4. disk[p].edit[w] <= KnownClock(h, p)'[w] => disk[p].data \subseteq Aware(h)'
  BY <1>3 DEF Authored
<1>5. ASSUME r.path = p, disk[p].edit[w] <= o.clock[w]
      PROVE  /\ Leq(disk[p].edit, o.clock)
             /\ o.result # "Conflict" => disk[p].data \subseteq Aware(h)
  <2>1. Exists(p)
    BY DEF Exists
  <2>2. CASE o.clock = LiveClock(p) /\ o.result = "Conflict"
    <3>1. LiveClock(p) \in Heard(p)
      BY DEF Heard
    <3>. QED
      BY <1>5, <2>2, <3>1 DEF Authored
  <2>3. CASE o.clock = Merge(LiveClock(p), r.clock) /\ Leq(LiveClock(p), r.clock)
    <3>1. Leq(disk[p].edit, LiveClock(p)) /\ disk[p].edit \in Clock
      BY <2>1, FreeIsLive
    <3>2. LiveClock(p) \in Clock
      BY ClocksAreClocks DEF Held
    <3>3. Leq(LiveClock(p), o.clock) /\ o.clock \in Clock
      BY <1>2, <2>3, <3>2, MergeIsLub, MergeType
    <3>4. Leq(disk[p].edit, o.clock)
      BY <3>1, <3>2, <3>3, LeqTransitive
    <3>5. disk[p].data \subseteq Aware(h)
      BY <1>2, <1>5, <2>1, <2>3, OvertakenIsKnown
    <3>. QED
      BY <3>4, <3>5
  <2>. QED
    BY <1>5, <2>1, <2>2, <2>3 DEF Comes
<1>. QED
  BY <1>3, <1>4, <1>5 DEF Told

\* The lock is taken, and what is to be done is what may be done.
LEMMA AcquireSeen ==
  ASSUME Held, Held', AllSeen, FilesOriginal, NEW h \in Device, Acquire(h),
         UNCHANGED <<mount, history>>
  PROVE  AllSeen' /\ LostIsKnown
<1>. DEFINE r == req[h]
            o == Decide(h, r)
            a == Reply(o.result, o.clock)
<1>1. /\ pc[h] = "waiting" /\ lock = Unlocked /\ Mutating(h)
      /\ UNCHANGED <<clocks, tombs, req, now>> /\ Typed
  BY DEF Acquire, LockFree, store, Held, LinkInv, AtHost
<1>2. Comes(h, o)
  BY <1>1, DecisionsCome
<1>3. a.result = o.result /\ a.clock = o.clock
  BY AnswerFields
<1>4. /\ o.ops = <<>> => /\ pc' = [pc EXCEPT ![h] = "replied"]
                         /\ reply' = [reply EXCEPT ![h] = a]
                         /\ plan' = plan /\ disk' = WithoutTemp(disk, h) /\ lock' = lock
      /\ o.ops # <<>> => /\ pc' = [pc EXCEPT ![h] = "locked"]
                         /\ reply' = [reply EXCEPT ![h] = a]
                         /\ plan' = [plan EXCEPT ![h] = o.ops] /\ disk' = disk /\ lock' = h
  BY DEF Acquire, Finish
<1>. HIDE DEF o, a
<1>5. \A d \in Device : pc[d] # "locked"
  BY <1>1, FileHostAssumption DEF AllSeen, Ordered
<1>6. ~Settling(h) /\ now' # 0
  BY <1>1 DEF Settling, AllSeen, Ordered
<1>7. "replied" \in Busy /\ "locked" \in Busy
  BY DEF Busy
<1>8. CASE o.ops = <<>>
  <2>1. pc'[h] = "replied" /\ OthersRest(h) /\ reply'[h] = a
    BY <1>1, <1>4, <1>7, <1>8, GoesTo DEF OthersRest
  <2>2. /\ r.op = "delete" /\ a.clock = LiveClock(r.path)
        /\ a.result \in {"Conflict", "Stale"} \/ ~Exists(r.path)
    BY <1>2, <1>3, <1>8, NoneIsEmpty DEF Comes
  <2>3. Tells(h) /\ ~HasStaged(h)'
    BY <2>1, <2>2 DEF Tells, HasStaged
  <2>4. StagesOnly(h)
    BY <1>1, <1>4, <1>8 DEF StagesOnly, SameFile, WithoutTemp, Without
  <2>. QED
    BY <1>1, <1>5, <1>6, <2>1, <2>3, <2>4, HostQuiet
<1>9. CASE o.ops # <<>>
  <2>1. /\ pc'[h] = "locked" /\ OthersRest(h) /\ reply'[h] = a /\ plan'[h] = o.ops
        /\ UNCHANGED <<disk, clocks, tombs, req>> /\ lock' = h
    <3>1. /\ plan'[h] = o.ops /\ \A e \in Device \ {h} : plan'[e] = plan[e]
      BY <1>1, <1>4, <1>9 DEF Typed
    <3>. QED
      BY <1>1, <1>4, <1>7, <1>9, <3>1, GoesTo DEF OthersRest
  <2>2. StagesOnly(h)
    BY <2>1 DEF StagesOnly, SameFile
  <2>3. \A d \in Device : pc'[d] = "locked" => lock' = d
    BY <1>5, <2>1 DEF OthersRest
  <2>4. Ordered'
    BY <1>6, <2>1, <2>2, <2>3, StagingOnly, HostOrdered DEF AllSeen
  <2>5. HasStaged(h)' => StagedCopy(h)'
    <3>1. HasStaged(h)' => HasStaged(h)
      BY <1>1, <2>1 DEF HasStaged
    <3>2. HasStaged(h) => StagedCopy(h)
      BY DEF AllSeen, Sends, StagedCopy
    <3>3. StagedCopy(h)' = StagedCopy(h)
      BY <2>1 DEF StagedCopy, Exists, TempPath
    <3>. QED
      BY <3>1, <3>2, <3>3
  <2>6. \A d \in Device : Sends(d)'
    BY <2>1, <2>2, <2>5, StagingOnly, HostSends
  <2>7. Works(h)'
    BY <1>1, <1>2, <1>3, <1>9, <2>1, PlansWork
  <2>8. Delivered(h)'
    <3>1. r.op = "stream" => a.result # "Stale" /\ OnDisk(o.ops[1])
      <4>1. \A x, y, b, c : OnDisk(<<Move(x, y), b>>[1]) /\ OnDisk(<<Move(x, y), b, c>>[1])
        BY OpFields DEF OnDisk
      <4>. QED
        BY <1>2, <1>3, <1>9, <4>1 DEF Comes
    <3>. QED
      BY <2>1, <3>1 DEF Delivered, OnDisk
  <2>9. Calm(h)
    BY <2>1, <2>2, StagingOnly, HostAware DEF Calm, OthersRest, Rests
  <2>10. \A p \in DOMAIN disk, w \in Device : IsOriginal(p) /\ Authored(p, w) => Told(h, p, w)
    BY <1>1, <1>2, <1>3, <1>9, <2>1, DecisionTells
  <2>11. Entrusted'
    BY <1>6, <2>7, <2>8, <2>9, <2>10, CalmStep
  <2>12. LostIsKnown
    BY <2>2, StagingOnly, KeptStay DEF LostIsKnown
  <2>. QED
    BY <2>4, <2>6, <2>11, <2>12 DEF AllSeen
<1>. QED
  BY <1>8, <1>9

-----------------------------------------------------------------------------
(* A handler at work.                                                       *)

\* A move in a flat directory moves that file alone.
LEMMA FlatMove ==
  ASSUME Held, Ordered, NEW from \in DOMAIN disk \ {Root}, NEW to \in Path
  PROVE  DiskAfter(Move(from, to)) = [q \in (DOMAIN disk \ {from}) \cup {to} |->
                                        IF q = to THEN disk[from] ELSE disk[q]]
<1>1. DOMAIN disk \subseteq Path /\ from \in Path /\ Len(from) = 1
  BY DEF Held, Typed, Ordered
<1>2. ASSUME NEW p \in DOMAIN disk, Within(from, p) PROVE p = from
  <2>1. p \in Seq(Leaf) /\ from \in Seq(Leaf)
    BY <1>1 DEF Path
  <2>2. CASE p = Root
    BY <1>1, <1>2, <2>2 DEF Within, Root
  <2>3. CASE p # Root
    <3>1. Len(p) = 1
      BY <2>3 DEF Ordered
    <3>2. SubSeq(p, 1, 1) = p
      BY <2>1, <3>1
    <3>. QED
      BY <1>1, <1>2, <3>2 DEF Within
  <2>. QED
    BY <2>2, <2>3
<1>3. Moved(disk, from, to) = [q \in (DOMAIN disk \ {from}) \cup {to} |->
                                 IF q = to THEN disk[from] ELSE disk[q]]
  BY <1>1, <1>2, MovedAlone
<1>4. Move(from, to).do = "move" /\ Move(from, to).path = from /\ Move(from, to).to = to
  BY OpFields
<1>5. DiskAfter(Move(from, to)) = Moved(disk, from, to)
  BY <1>4, Zenon DEF DiskAfter
<1>. QED
  BY <1>3, <1>5

\* A handler at work: nobody else is, and what is left of its plan are
\* operations on the stores.
AtWork(h) ==
  /\ pc[h] = "locked" /\ Mutating(h) /\ plan[h] # <<>> /\ \A e \in Device \ {h} : pc[e] # "locked"
  /\ Possible(plan[h][1])
  /\ disk' = DiskAfter(plan[h][1])
  /\ clocks' = ClocksAfter(plan[h][1]) /\ tombs' = TombsAfter(plan[h][1])
  /\ UNCHANGED <<req, reply, now>> /\ OthersRest(h)
  /\ plan'[h] = Tail(plan[h])
  /\ \/ plan'[h] = <<>> /\ pc'[h] = "replied"
     \/ plan'[h] # <<>> /\ pc'[h] = "locked" /\ lock' = h /\ ~OnDisk(plan'[h][1])

\* A step of a handler is of one at work.
LEMMA StepsAtWork ==
  ASSUME Held, Ordered, NEW h \in Device, Step(h)
  PROVE  AtWork(h)
<1>. DEFINE op   == plan[h][1]
            rest == Tail(plan[h])
<1>1. Typed /\ AtHost(h) /\ pc[h] = "locked"
  BY DEF Held, LinkInv, Step
<1>2. Mutating(h) /\ plan[h] # <<>> /\ ChangesAFile(plan[h]) /\ UNCHANGED <<req, reply, now>>
  BY <1>1 DEF Step, AtHost
<1>3. /\ Head(plan[h]) = op
      /\ \A i \in DOMAIN rest : ~OnDisk(rest[i])
      /\ rest # <<>> => 1 \in DOMAIN rest
  BY <1>2, TailChanges
<1>4. /\ Possible(op) /\ disk' = DiskAfter(op)
      /\ clocks' = ClocksAfter(op) /\ tombs' = TombsAfter(op)
      /\ plan' = [plan EXCEPT ![h] = rest]
      /\ rest = <<>> => pc' = [pc EXCEPT ![h] = "replied"]
      /\ rest # <<>> => pc' = pc /\ lock' = lock
  BY <1>3 DEF Step
<1>5. \A e \in Device : pc[e] = "locked" => lock = e
  BY DEF Ordered
<1>. HIDE DEF op, rest
<1>6. /\ OthersRest(h) /\ plan'[h] = rest
      /\ rest = <<>> => pc'[h] = "replied"
      /\ rest # <<>> => pc'[h] = "locked"
  BY <1>1, <1>2, <1>4 DEF Typed, OthersRest, Busy
<1>7. (\A e \in Device \ {h} : pc[e] # "locked") /\ lock = h
  BY <1>1, <1>5
<1>. QED
  BY <1>1, <1>2, <1>3, <1>4, <1>6, <1>7 DEF AtWork, op, rest

\* Who has heard of a version from a handler hears nothing else from it.
LEMMA WorkTold ==
  ASSUME NEW h \in Device, AtWork(h), UNCHANGED <<mount, history>>,
         NEW p, NEW w \in Device, Authored(p, w), NEW e \in Device
  PROVE  Told(e, p, w)
<1>1. Aware(e)' = Aware(e) /\ KnownClock(e, p)' = KnownClock(e, p)
  BY HostAware
<1>2. CASE e # h
  <2>1. Rests(e)
    BY <1>2 DEF AtWork, OthersRest, Rests
  <2>. QED
    BY <1>1, <2>1, RestingTold
<1>3. CASE e = h
  <2>1. req'[e] = req[e] /\ reply'[e] = reply[e] /\ pc[e] \in {"locked", "replied"}
    BY <1>3 DEF AtWork
  <2>2. req[e].path = p => reply[e].clock \in Heard(p)
    BY <2>1 DEF Heard
  <2>3. Mutating(e)' = Mutating(e)
    BY <2>1 DEF Mutating
  <2>. QED
    BY <1>1, <2>1, <2>2, <2>3 DEF Told, Authored
<1>. QED
  BY <1>2, <1>3

\* A file that the handler leaves alone stays accounted for.
LEMMA WorkAccounted ==
  ASSUME Held, AllSeen, NEW h \in Device, AtWork(h), UNCHANGED <<mount, history>>,
         NEW p \in DOMAIN disk \ {Root}, disk'[p] = disk[p],
         IsOriginal(p) =>
           /\ LiveClock(p)' # LiveClock(p) => req[h].path = p /\ LiveClock(p)' = reply[h].clock
           /\ Leq(disk[p].edit, LiveClock(p)) /\ ~Tombed(p) =>
                Leq(disk[p].edit, LiveClock(p)') /\ ~Tombed(p)'
           /\ Settling(h) /\ req[h].path = p =>
                Settling(h)' \/ (Leq(disk[p].edit, LiveClock(p)') /\ ~Tombed(p)')
  PROVE  Accounted(p)'
<1>1. Accounted(p) /\ MoreAware /\ p \in Path
  BY HostAware DEF AllSeen, Entrusted, Held, Typed
<1>2. IsCopy(p) => LastBy(p) \in Device
  BY <1>1, CopiesHaveOwners
<1>3. ASSUME IsOriginal(p), NEW w \in Device, Authored(p, w) PROVE Authored(p, w)'
  <2>1. \A e \in Device : Told(e, p, w)
    BY <1>3, WorkTold
  <2>2. LiveClock(p) \in Heard(p)
    BY DEF Heard
  <2>3. req[h].path = p => reply[h].clock \in Heard(p)
    BY DEF Heard, AtWork
  <2>4. disk[p].edit[w] <= LiveClock(p)'[w] => Leq(disk[p].edit, LiveClock(p)')
    BY <1>3, <2>2, <2>3 DEF Authored
  <2>. QED
    BY <1>1, <1>3, <2>1, <2>4, AuthoredStays
<1>4. \A d \in Device : Settling(d) => d = h
  BY DEF Settling, AtWork
<1>5. req'[h] = req[h]
  BY DEF AtWork
<1>6. IsOriginal(p) =>
           /\ Leq(disk[p].edit, LiveClock(p)) /\ ~Tombed(p) =>
                Leq(disk[p].edit, LiveClock(p)') /\ ~Tombed(p)'
           /\ \A d \in Device : Settling(d) /\ req[d].path = p =>
                \/ Settling(d)' /\ req'[d].path = p
                \/ Leq(disk[p].edit, LiveClock(p)') /\ ~Tombed(p)'
           /\ \A w \in Device : Authored(p, w) => Authored(p, w)'
  BY <1>3, <1>4, <1>5
<1>. QED
  BY <1>1, <1>2, <1>6, AccountedStays

\* A handler at work puts no clock of another file of the applications.
LEMMA WorkElsewhere ==
  ASSUME Held, NEW h \in Device, Works(h), AtWork(h), IsOriginal(req[h].path),
         NEW p, IsOriginal(p), p # req[h].path
  PROVE  LiveClock(p)' = LiveClock(p) /\ Tombed(p)' = Tombed(p)
<1>. DEFINE op == plan[h][1]
<1>1. IsCopy(p) = FALSE /\ IsTemp(p) = FALSE
  BY NamesApart
<1>2. op.do \notin {"rekey_clocks", "rekey_tombs"}
  <2>1. ChangesAFile(plan[h])
    BY DEF Held, LinkInv, AtHost
  <2>. QED
    BY <2>1, TailChanges DEF AtWork, Fine
<1>3. OnDisk(op) \/ op.path = req[h].path \/ IsCopy(op.path)
  <2>1. CASE Landing(h)
    BY <2>1, ShortPlans, OpFields DEF Landing, OnDisk
  <2>2. CASE Settling(h)
    BY <2>2, ShortPlans, OpFields DEF Settling
  <2>3. CASE Copying(h)
    <3>. DEFINE q == Place(op)
    <3>1. IsCopy(q)
      BY <2>3 DEF Copying
    <3>2. op \in {Move(TempPath(req[h].path, h), q), PutClock(q, req[h].clock)}
      BY <2>3, ShortPlans DEF Copying
    <3>. HIDE DEF q
    <3>. QED
      BY <3>1, <3>2, OpFields DEF OnDisk
  <2>4. CASE Burying(h)
    BY <2>4, ShortPlans, OpFields DEF Burying, OnDisk
  <2>. QED
    BY <2>1, <2>2, <2>3, <2>4 DEF Works
<1>4. clocks' = ClocksAfter(op) /\ tombs' = TombsAfter(op)
  BY DEF AtWork
<1>5. /\ LiveClock(p)' = ClockIn(ClocksAfter(op), p)
      /\ TombClock(p)' = ClockIn(TombsAfter(op), p)
  BY <1>4 DEF LiveClock, TombClock, ClockIn
<1>. HIDE DEF op
<1>6. CASE OnDisk(op)
  BY <1>4, <1>6, Effects DEF LiveClock, TombClock, ClockIn, Tombed
<1>7. CASE op.path # p
  BY <1>2, <1>5, <1>7, OthersUntouched DEF Tombed
<1>. QED
  BY <1>1, <1>3, <1>6, <1>7

\* The handler of h changes at most the file q, and its staged copy goes.
ChangesOnly(h, q) ==
  \A x : \/ SameFile(x)
         \/ x = q /\ (x \in DOMAIN disk => disk[x].data \subseteq Aware(h))
                  /\ (x \in DOMAIN disk' => disk'[x] = File(req[h].clock, req[h].data))
         \/ x = TempPath(req[h].path, h) /\ x \notin DOMAIN disk'

\* What it takes away it knows of.
LEMMA WorkKeeps ==
  ASSUME Held, Ordered, FilesOriginal, NEW h \in Device, AtWork(h), NEW q, ChangesOnly(h, q)
  PROVE  \A x \in Kept \ Kept' : x \in Aware(h)
<1>. SUFFICES ASSUME NEW x \in Kept, x \notin Kept' PROVE x \in Aware(h)
  OBVIOUS
<1>1. PICK p \in DOMAIN disk : IsFile(p) /\ ~IsTemp(p) /\ x \in disk[p].data
  BY DEF Kept
<1>2. ~SameFile(p)
  <2>. SUFFICES ASSUME SameFile(p) PROVE FALSE
    OBVIOUS
  <2>1. p \in DOMAIN disk' /\ disk'[p] = disk[p]
    BY DEF SameFile
  <2>2. IsFile(p)' /\ ~IsTemp(p)'
    BY <1>1, <2>1 DEF IsFile, Exists, IsTemp
  <2>. QED
    BY <1>1, <2>1, <2>2 DEF Kept
<1>3. p # TempPath(req[h].path, h)
  BY <1>1, StagedIsTemp DEF AtWork
<1>. QED
  BY <1>1, <1>2, <1>3 DEF ChangesOnly

\* A handler does one operation of its plan.
LEMMA WorkSeen ==
  ASSUME Held, Held', AllSeen, FilesOriginal, NEW h \in Device, AtWork(h),
         UNCHANGED <<mount, history>>,
         NEW q \in Path \ {Root}, Len(q) = 1, q = req[h].path \/ IsCopy(q), ChangesOnly(h, q),
         pc'[h] = "locked" => Works(h)',
         Delivered(h)',
         \A p \in {q, req[h].path} : p \in DOMAIN disk' => Accounted(p)'
  PROVE  AllSeen' /\ LostIsKnown
<1>. USE DEF AllSeen
<1>. DEFINE t == TempPath(req[h].path, h)
<1>1. req[h].path \in Path \ {Root} /\ IsOriginal(req[h].path) /\ req[h].clock \in Clock /\ Works(h)
  <2>1. Mutating(h) /\ pc[h] = "locked"
    BY DEF AtWork
  <2>. QED
    BY <2>1, WorkersAskFiles, NextCounts DEF Held, IsName, Entrusted
<1>2. t # Root /\ IsTemp(t) /\ ~IsTemp(q)
  BY <1>1, StagedIsTemp, NamesApart DEF AtWork
<1>3. Ordered'
  <2>1. Root \in DOMAIN disk' /\ disk'[Root] = disk[Root]
    <3>1. SameFile(Root)
      BY <1>2 DEF ChangesOnly
    <3>. QED
      BY <3>1 DEF SameFile, Ordered
  <2>2. \A p \in DOMAIN disk' \ {Root} :
           \/ p \in DOMAIN disk /\ disk'[p] = disk[p]
           \/ Len(p) = 1 /\ disk'[p].kind = "file" /\ disk'[p].edit \in Clock
    BY <1>1 DEF ChangesOnly, SameFile, File
  <2>3. \A d \in Device : pc'[d] = "locked" => lock' = d
    BY DEF AtWork, OthersRest
  <2>4. now' # 0
    BY DEF AtWork, Ordered
  <2>. QED
    BY <2>1, <2>2, <2>3, <2>4, HostOrdered DEF AtWork
<1>4. \A d \in Device : Sends(d)'
  <2>1. OthersStaged(h)
    <3>. SUFFICES ASSUME NEW e \in Device \ {h}, HasStaged(e)
                  PROVE  SameFile(TempPath(req[e].path, e))
      BY DEF OthersStaged
    <3>1. Mutating(e)
      BY DEF HasStaged, Held, LinkInv, AtHost
    <3>2. req[e].path \in Path \ {Root} /\ IsTemp(TempPath(req[e].path, e))
      BY <3>1, WorkersAskFiles, StagedIsTemp DEF IsName
    <3>3. TempPath(req[e].path, e) # t
      BY <1>1, <3>2, StagedApart DEF Held, Typed, Ordered
    <3>. QED
      BY <1>2, <3>2, <3>3 DEF ChangesOnly
  <2>2. ~HasStaged(h)'
    BY DEF HasStaged, AtWork
  <2>. QED
    BY <2>1, <2>2, HostSends DEF AtWork
<1>5. ASSUME NEW d \in Device PROVE Delivered(d)' /\ (pc'[d] = "locked" => Works(d)')
  <2>1. CASE d = h
    BY <2>1
  <2>2. CASE d # h
    <3>1. Rests(d) /\ Delivered(d) /\ MoreAware /\ pc'[d] # "locked"
      BY <2>2, HostAware DEF AtWork, OthersRest, Rests, Entrusted
    <3>2. \A x \in req[d].data : x \in Kept => x \in Kept' \/ \E f \in Device \ {d} : x \in Aware(f)
      BY <2>2, WorkKeeps
    <3>. QED
      BY <3>1, <3>2, DeliveredStays
  <2>. QED
    BY <2>1, <2>2
<1>6. ASSUME NEW p \in DOMAIN disk' \ {Root} PROVE Accounted(p)'
  <2>1. CASE p \in {q, req[h].path}
    BY <2>1
  <2>2. CASE p \notin {q, req[h].path}
    <3>1. p \in DOMAIN disk \ {Root} /\ disk'[p] = disk[p]
      BY <2>2 DEF ChangesOnly, SameFile
    <3>2. IsOriginal(p) => LiveClock(p)' = LiveClock(p) /\ Tombed(p)' = Tombed(p)
      BY <1>1, <2>2, WorkElsewhere
    <3>. QED
      BY <2>2, <3>1, <3>2, WorkAccounted
  <2>. QED
    BY <2>1, <2>2
<1>7. LostIsKnown
  BY WorkKeeps DEF LostIsKnown, AtWork, Ordered
<1>. QED
  BY <1>3, <1>4, <1>5, <1>6, <1>7 DEF Entrusted

\* A change that has just landed is that of its device: nobody has heard of it.
LEMMA LandedAuthored ==
  ASSUME Held, AllSeen, FilesOriginal, NEW h \in Device, AtWork(h), UNCHANGED <<mount, history>>,
         Landing(h), OnDisk(plan[h][1]), NEW p, p = req[h].path,
         disk'[p] = File(req[h].clock, req[h].data), LiveClock(p)' = LiveClock(p)
  PROVE  Authored(p, h)'
<1>. DEFINE x == File(req[h].clock, req[h].data)
            n == KnownClock(h, p)[h]
<1>1. p \in Files /\ IsOriginal(p) /\ req[h].clock = NextClock(h, p)
  BY WorkersAskFiles DEF AtWork, AllSeen
<1>2. x.edit = req[h].clock /\ x.data = req[h].data
  BY DEF File
<1>3. n \in Nat /\ x.edit[h] = n + 1
  BY <1>1, <1>2, NextCounts, CountsAreNumbers DEF Held
<1>4. Limit(h, p) = n
  BY <1>3 DEF Limit, Published, AtWork
<1>5. Counted(h, p)
  BY <1>1 DEF Held, CountInv
<1>6. \A e : Aware(e)' = Aware(e) /\ KnownClock(e, p)' = KnownClock(e, p)
  BY HostAware
<1>7. x.data \subseteq Aware(h)
  BY <1>2 DEF AllSeen, Sends, Landing
<1>. HIDE DEF x, n
<1>8. \A m \in Nat : m <= n => ~(x.edit[h] <= m)
  BY <1>3
<1>9. /\ LiveClock(p)[h] \in Nat /\ LiveClock(p)[h] <= n
      /\ \A e \in Device \ {h} : KnownClock(e, p)[h] \in Nat /\ KnownClock(e, p)[h] <= n
      /\ \A e \in Device \ {h} : pc[e] \in {"locked", "replied"} /\ req[e].path = p =>
            reply[e].clock[h] \in Nat /\ reply[e].clock[h] <= n
  BY <1>4, <1>5, CountsAreNumbers, HeardCounts DEF Held, Counted
<1>10. \A e \in Device \ {h} : pc'[e] = pc[e] /\ req'[e] = req[e] /\ reply'[e] = reply[e]
  BY DEF AtWork, OthersRest
<1>11. req'[h] = req[h] /\ reply'[h] = reply[h] /\ Leq(x.edit, reply[h].clock)
  BY <1>2 DEF AtWork, Landing
<1>12. ~(x.edit[h] <= LiveClock(p)[h])
  BY <1>8, <1>9
<1>13. ASSUME NEW e \in Device \ {h}
       PROVE  /\ ~(x.edit[h] <= KnownClock(e, p)[h])
              /\ pc'[e] \in {"locked", "replied"} /\ req'[e].path = p => ~(x.edit[h] <= reply'[e].clock[h])
  BY <1>8, <1>9, <1>10
<1>14. \A c \in Heard(p)' : x.edit[h] <= c[h] => Leq(x.edit, c)
  BY <1>11, <1>12, <1>13 DEF Heard
<1>15. \A e \in Device :
         /\ x.edit[h] <= KnownClock(e, p)'[h] => x.data \subseteq Aware(e)'
         /\ /\ Mutating(e)' /\ req'[e].path = p /\ pc'[e] \in {"locked", "replied"}
            /\ reply'[e].result \notin {"Conflict", "Stale", "Error"}
            /\ x.edit[h] <= reply'[e].clock[h]
            => x.data \subseteq Aware(e)'
  <2>. TAKE e \in Device
  <2>1. CASE e = h
    BY <1>6, <1>7, <2>1
  <2>2. CASE e # h
    BY <1>6, <1>13, <2>2
  <2>. QED
    BY <2>1, <2>2
<1>16. 0 < x.edit[h] /\ disk'[p] = x
  BY <1>3 DEF x
<1>. QED
  BY <1>6, <1>7, <1>14, <1>15, <1>16 DEF Authored

\* The staged copy of a write is moved to where it goes.
LEMMA StagedMoves ==
  ASSUME Held, AllSeen, FilesOriginal, NEW h \in Device, AtWork(h), UNCHANGED <<mount, history>>,
         Works(h), req[h].op = "stream", NEW q \in Path \ {Root}, ~IsTemp(q),
         plan[h][1] = Move(TempPath(req[h].path, h), q)
  PROVE  /\ ChangesOnly(h, q)
         /\ Exists(q)' /\ disk'[q] = File(req[h].clock, req[h].data)
         /\ \A x \in req[h].data : x \in Kept'
         /\ UNCHANGED <<clocks, tombs>> /\ OnDisk(plan[h][1]) /\ Place(plan[h][1]) = q
<1>. DEFINE t == TempPath(req[h].path, h)
            new == File(req[h].clock, req[h].data)
<1>1. Move(t, q).do = "move" /\ Move(t, q).to = q
  BY OpFields
<1>2. OnDisk(plan[h][1]) /\ Place(plan[h][1]) = q
  BY <1>1 DEF OnDisk, Place
<1>3. UNCHANGED <<clocks, tombs>>
  BY <1>2, Effects DEF AtWork
<1>4. t \in DOMAIN disk /\ disk[t] = new /\ t # Root /\ IsTemp(t)
  <2>1. HasStaged(h)
    BY <1>2 DEF HasStaged, AtWork
  <2>2. Exists(t) /\ disk[t] = new
    BY <2>1 DEF AllSeen, Sends
  <2>3. t # Root /\ IsTemp(t)
    BY StagedIsTemp DEF AtWork, AllSeen
  <2>. QED
    BY <2>2, <2>3 DEF Exists
<1>5. disk' = [x \in (DOMAIN disk \ {t}) \cup {q} |-> IF x = q THEN disk[t] ELSE disk[x]]
  <2>1. disk' = DiskAfter(Move(t, q)) /\ t \in DOMAIN disk \ {Root} /\ q \in Path
    BY <1>4 DEF AtWork
  <2>. HIDE DEF t
  <2>. QED
    BY <2>1, FlatMove DEF AllSeen
<1>6. q \in DOMAIN disk => disk[q].data \subseteq Aware(h)
  BY <1>2 DEF Works, Exists
<1>7. q \in DOMAIN disk' /\ disk'[q] = new /\ t \notin DOMAIN disk'
  BY <1>4, <1>5
<1>8. \A x : x # q /\ x # t => SameFile(x)
  BY <1>5 DEF SameFile
<1>9. ChangesOnly(h, q)
  BY <1>6, <1>7, <1>8 DEF ChangesOnly
<1>10. \A x \in req[h].data : x \in Kept'
  <2>1. new.kind = "file" /\ new.data = req[h].data
    BY DEF File
  <2>2. IsFile(q)' /\ ~IsTemp(q)'
    BY <1>7, <2>1 DEF IsFile, Exists, IsTemp
  <2>. HIDE DEF new
  <2>. QED
    BY <1>7, <2>1, <2>2 DEF Kept
<1>. QED
  BY <1>2, <1>3, <1>7, <1>9, <1>10 DEF Exists

\* What is left of the answer of a write whose data is in place.
LEMMA DeliveredOnce ==
  ASSUME AllSeen, NEW h \in Device, AtWork(h),
         req[h].op = "stream" => \A x \in req[h].data : Preserved(h, x)'
  PROVE  Delivered(h)'
<1>1. Delivered(h) /\ pc[h] = "locked" /\ req'[h] = req[h] /\ reply'[h] = reply[h]
  BY DEF AllSeen, Entrusted, AtWork
<1>. QED
  BY <1>1 DEF Delivered

\* A change lands.
LEMMA LandSeen ==
  ASSUME Held, Held', AllSeen, FilesOriginal, NEW h \in Device, AtWork(h),
         UNCHANGED <<mount, history>>, Works(h), Landing(h), OnDisk(plan[h][1])
  PROVE  AllSeen' /\ LostIsKnown
<1>. DEFINE c == reply[h].clock
<1>0. PICK p : p = req[h].path
  OBVIOUS
<1>. DEFINE t == TempPath(p, h)
            put == PutClock(p, c)
<1>1. p \in Files /\ p \in Path \ {Root} /\ Len(p) = 1 /\ IsOriginal(p) /\ ~IsTemp(p)
  <2>1. p \in Files /\ IsOriginal(p) /\ IsName(p)
    BY <1>0, WorkersAskFiles DEF AtWork, AllSeen
  <2>. QED
    BY <2>1, MountAssumption, NamesApart DEF IsName
<1>2. /\ plan[h][1] = Move(t, p) /\ plan'[h] # <<>>
      /\ plan'[h] = <<DropTomb(p), put>> \/ (plan'[h] = <<put>> /\ ~Tombed(p))
  <2>1. /\ plan[h] = <<Move(t, p), DropTomb(p), put>>
           \/ (plan[h] = <<Move(t, p), put>> /\ ~Tombed(p))
        /\ plan'[h] = Tail(plan[h])
    BY <1>0 DEF Landing, AtWork
  <2>. DEFINE move == Move(t, p)
              drop == DropTomb(p)
  <2>. HIDE DEF put, move, drop
  <2>2. CASE plan[h] = <<move, drop, put>>
    BY <2>1, <2>2, ShortPlans, NoneIsEmpty
  <2>3. CASE plan[h] = <<move, put>> /\ ~Tombed(p)
    BY <2>1, <2>3, ShortPlans, NoneIsEmpty
  <2>4. /\ plan[h][1] = move /\ plan'[h] # <<>>
        /\ plan'[h] = <<drop, put>> \/ (plan'[h] = <<put>> /\ ~Tombed(p))
    BY <2>1, <2>2, <2>3 DEF move, drop
  <2>. QED
    BY <2>4 DEF move, drop
<1>3. /\ ChangesOnly(h, p) /\ Exists(p)' /\ disk'[p] = File(req[h].clock, req[h].data)
      /\ \A x \in req[h].data : x \in Kept'
      /\ UNCHANGED <<clocks, tombs>> /\ OnDisk(plan[h][1])
  BY <1>0, <1>1, <1>2, StagedMoves DEF Landing
<1>4. pc'[h] = "locked" /\ req'[h] = req[h] /\ reply'[h] = reply[h] /\ ~OnDisk(plan'[h][1])
  BY <1>2 DEF AtWork
<1>5. Tombed(p)' = Tombed(p) /\ LiveClock(p)' = LiveClock(p)
  BY <1>3 DEF Tombed, TombClock, LiveClock
<1>6. Settling(h)' /\ req'[h].path = p
  <2>1. Landed(h)'
    BY <1>0, <1>3, <1>4 DEF Landed, Exists
  <2>2. req[h].op = "stream" /\ Leq(req[h].clock, reply[h].clock)
    BY DEF Landing
  <2>3. ~Tombed(p)' <=> ~Tombed(p)
    BY <1>5
  <2>4. reply'[h].clock = c
    BY <1>4
  <2>. HIDE DEF c
  <2>. QED
    BY <1>0, <1>2, <1>4, <2>1, <2>2, <2>3, <2>4 DEF Settling
<1>7. Works(h)'
  BY <1>4, <1>6 DEF Works, OnDisk
<1>8. Delivered(h)'
  BY <1>3, DeliveredOnce DEF Preserved
<1>9. Authored(p, h)'
  BY <1>0, <1>3, <1>5, LandedAuthored
<1>10. Accounted(p)'
  <2>1. IsOriginal(p)' /\ ~IsCopy(p)'
    BY <1>1, NamesApart DEF IsOriginal, IsCopy, IsTemp
  <2>. QED
    BY <1>6, <1>9, <2>1 DEF Accounted
<1>. QED
  BY <1>0, <1>1, <1>3, <1>7, <1>8, <1>10, WorkSeen

\* What a handler changes: the file it was asked to, whose name is no copy's.
LEMMA AskedPlace ==
  ASSUME Held, AllSeen, FilesOriginal, NEW h \in Device, AtWork(h), NEW p, p = req[h].path
  PROVE  p \in Files /\ p \in Path \ {Root} /\ Len(p) = 1 /\ IsOriginal(p) /\ ~IsTemp(p) /\ ~IsCopy(p)
<1>1. p \in Files /\ IsOriginal(p) /\ IsName(p)
  BY WorkersAskFiles DEF AtWork, AllSeen
<1>. QED
  BY <1>1, MountAssumption, NamesApart DEF IsName

\* An operation on the stores alone.
LEMMA StoreStep ==
  ASSUME NEW h \in Device, AtWork(h), UNCHANGED <<mount, history>>, AllSeen, ~OnDisk(plan[h][1])
  PROVE  /\ disk' = disk /\ (\A q : ChangesOnly(h, q)) /\ Delivered(h)'
         /\ \A p : Exists(p)' = Exists(p)
<1>1. disk' = disk
  BY Effects DEF AtWork
<1>2. \A q : SameFile(q)
  BY <1>1 DEF SameFile
<1>3. SameFiles /\ MoreAware
  BY <1>2, HostAware DEF SameFiles
<1>4. Kept' = Kept /\ \A e : Aware(e)' = Aware(e)
  BY <1>3, KeptStay, HostAware
<1>5. Delivered(h) /\ pc[h] = "locked" /\ req'[h] = req[h] /\ reply'[h] = reply[h]
  BY DEF AllSeen, Entrusted, AtWork
<1>6. \A x : Preserved(h, x) => Preserved(h, x)'
  BY <1>4 DEF Preserved
<1>7. req[h].op = "stream" => \A x \in req[h].data : Preserved(h, x)'
  BY <1>5, <1>6 DEF Delivered
<1>8. Delivered(h)'
  BY <1>7, DeliveredOnce
<1>. QED
  BY <1>1, <1>2, <1>8 DEF ChangesOnly, Exists

\* What is stored for p after an operation on the stores.
LEMMA StoresAfter ==
  ASSUME NEW h \in Device, AtWork(h), NEW op, op = plan[h][1], NEW p
  PROVE  /\ op.do \in {"put_clock", "drop_clock"} => Tombed(p)' = Tombed(p)
         /\ op.do \in {"put_tomb", "drop_tomb"} => LiveClock(p)' = LiveClock(p)
         /\ op.do = "put_clock" /\ op.path = p => LiveClock(p)' = op.clock
         /\ op.do = "drop_tomb" /\ op.path = p => ~Tombed(p)'
         /\ op.do \notin {"rekey_clocks", "rekey_tombs"} /\ op.path # p =>
              LiveClock(p)' = LiveClock(p) /\ Tombed(p)' = Tombed(p)
<1>1. clocks' = ClocksAfter(op) /\ tombs' = TombsAfter(op)
  BY DEF AtWork
<1>2. /\ LiveClock(p)' = ClockIn(ClocksAfter(op), p)
      /\ TombClock(p)' = ClockIn(TombsAfter(op), p)
  BY <1>1 DEF LiveClock, TombClock, ClockIn
<1>3. /\ op.do \in {"put_clock", "drop_clock"} => TombsAfter(op) = tombs
      /\ op.do \in {"put_tomb", "drop_tomb"} => ClocksAfter(op) = clocks
      /\ op.do = "put_clock" => ClockIn(ClocksAfter(op), op.path) = op.clock
      /\ op.do = "drop_tomb"  => ClockIn(TombsAfter(op), op.path) = EmptyClock
  BY Effects
<1>4. op.do \notin {"rekey_clocks", "rekey_tombs"} /\ op.path # p =>
        /\ ClockIn(ClocksAfter(op), p) = LiveClock(p)
        /\ ClockIn(TombsAfter(op), p) = TombClock(p)
  BY OthersUntouched
<1>. QED
  BY <1>2, <1>3, <1>4 DEF Tombed, LiveClock, TombClock

\* The clock of a change that has landed is put.
LEMMA SettleSeen ==
  ASSUME Held, Held', AllSeen, FilesOriginal, NEW h \in Device, AtWork(h),
         UNCHANGED <<mount, history>>, Works(h), Settling(h)
  PROVE  AllSeen' /\ LostIsKnown
<1>. DEFINE c == reply[h].clock
<1>0. PICK p : p = req[h].path
  OBVIOUS
<1>. DEFINE put == PutClock(p, c)
            drop == DropTomb(p)
<1>1. p \in Path \ {Root} /\ Len(p) = 1 /\ IsOriginal(p)
  BY <1>0, AskedPlace
<1>2. /\ put.do = "put_clock" /\ put.path = p /\ put.clock = c
      /\ drop.do = "drop_tomb" /\ drop.path = p
  BY OpFields
<1>3. plan[h] = <<drop, put>> \/ (plan[h] = <<put>> /\ ~Tombed(p))
  BY <1>0 DEF Settling
<1>4. p \in DOMAIN disk /\ disk[p] = File(req[h].clock, req[h].data) /\ Leq(req[h].clock, c)
      /\ req[h].op = "stream"
  BY <1>0 DEF Settling, Landed, Exists
<1>5. disk[p].edit = req[h].clock
  BY <1>4 DEF File
<1>. HIDE DEF put, drop
<1>6. \/ plan[h][1] = drop /\ plan'[h] = <<put>>
      \/ plan[h][1] = put /\ plan'[h] = <<>> /\ ~Tombed(p)
  <2>1. plan'[h] = Tail(plan[h])
    BY DEF AtWork
  <2>2. CASE plan[h] = <<drop, put>>
    BY <2>1, <2>2, ShortPlans
  <2>3. CASE plan[h] = <<put>> /\ ~Tombed(p)
    BY <2>1, <2>3, ShortPlans
  <2>. QED
    BY <1>3, <2>2, <2>3
<1>7. ~OnDisk(plan[h][1])
  BY <1>2, <1>6 DEF OnDisk
<1>8. disk' = disk /\ ChangesOnly(h, p) /\ Delivered(h)'
  BY <1>7, StoreStep
<1>9. /\ plan[h][1] = drop => LiveClock(p)' = LiveClock(p) /\ ~Tombed(p)'
      /\ plan[h][1] = put => LiveClock(p)' = c /\ Tombed(p)' = Tombed(p)
  BY <1>2, StoresAfter
<1>10. plan[h][1] = drop => Settling(h)'
  <2>. HAVE plan[h][1] = drop
  <2>1. plan'[h] = <<put>>
    BY <1>2, <1>6
  <2>2. pc'[h] = "locked" /\ req'[h] = req[h] /\ reply'[h] = reply[h]
    BY <2>1, NoneIsEmpty DEF AtWork
  <2>3. Landed(h)'
    BY <1>0, <1>4, <1>8, <2>2 DEF Landed, Exists
  <2>4. ~Tombed(p)' /\ reply'[h].clock = c /\ req'[h].path = p
    BY <1>0, <1>9, <2>2
  <2>5. Leq(req'[h].clock, c) /\ req'[h].op = "stream"
    BY <1>4, <2>2
  <2>. HIDE DEF c
  <2>6. plan'[h] = <<PutClock(p, c)>>
    BY <2>1 DEF put
  <2>. QED
    BY <2>2, <2>3, <2>4, <2>5, <2>6 DEF Settling
<1>11. pc'[h] = "locked" => Works(h)'
  <2>. HAVE pc'[h] = "locked"
  <2>1. plan'[h] # <<>> /\ ~OnDisk(plan'[h][1])
    BY DEF AtWork
  <2>2. Settling(h)'
    BY <1>6, <1>10, <2>1
  <2>. QED
    BY <2>1, <2>2 DEF Works, OnDisk
<1>12. Accounted(p)'
  <2>1. LiveClock(p)' # LiveClock(p) => req[h].path = p /\ LiveClock(p)' = reply[h].clock
    BY <1>0, <1>6, <1>9
  <2>2. Leq(disk[p].edit, LiveClock(p)) /\ ~Tombed(p) =>
                Leq(disk[p].edit, LiveClock(p)') /\ ~Tombed(p)'
    BY <1>4, <1>5, <1>6, <1>9
  <2>3. Settling(h)' \/ (Leq(disk[p].edit, LiveClock(p)') /\ ~Tombed(p)')
    BY <1>4, <1>5, <1>6, <1>9, <1>10
  <2>. QED
    BY <1>1, <1>4, <1>8, <2>1, <2>2, <2>3, WorkAccounted
<1>. QED
  BY <1>0, <1>1, <1>8, <1>11, <1>12, WorkSeen

\* A conflict copy gets its place, and then its clock.
LEMMA CopySeen ==
  ASSUME Held, Held', AllSeen, FilesOriginal, NEW h \in Device, AtWork(h),
         UNCHANGED <<mount, history>>, Works(h), Copying(h)
  PROVE  AllSeen' /\ LostIsKnown
<1>0. PICK p, q, c : p = req[h].path /\ q = Place(plan[h][1]) /\ c = req[h].clock
  OBVIOUS
<1>. DEFINE t == TempPath(req[h].path, h)
            move == Move(t, q)
            put == PutClock(q, c)
<1>1. p \in Path \ {Root} /\ Len(p) = 1 /\ IsOriginal(p) /\ ~IsTemp(p)
  BY <1>0, AskedPlace
<1>2. /\ q \in Path \ {Root} /\ Len(q) = 1 /\ IsCopy(q) /\ ~IsTemp(q) /\ ~IsOriginal(q)
      /\ LastBy(q) = h /\ p # q /\ req[h].op = "stream" /\ reply[h].result = "Conflict"
  <2>1. q \in Path /\ IsCopy(q) /\ LastBy(q) = h /\ req[h].op = "stream" /\ reply[h].result = "Conflict"
    BY <1>0 DEF Copying
  <2>2. Len(q) = 1 /\ Len(Root) = 0
    BY <2>1 DEF IsCopy, Root
  <2>. QED
    BY <1>1, <2>1, <2>2, NamesApart
<1>3. /\ put.do = "put_clock" /\ put.path = q /\ move.do = "move" /\ move.to = q
  BY OpFields
<1>4. plan[h] = <<move, put>> \/ plan[h] = <<put>>
  BY <1>0 DEF Copying
<1>. HIDE DEF move, put
<1>5. \/ plan[h][1] = move /\ plan'[h] = <<put>>
      \/ plan[h][1] = put /\ plan'[h] = <<>>
  <2>1. plan'[h] = Tail(plan[h])
    BY DEF AtWork
  <2>2. CASE plan[h] = <<move, put>>
    BY <2>1, <2>2, ShortPlans
  <2>3. CASE plan[h] = <<put>>
    BY <2>1, <2>3, ShortPlans
  <2>. QED
    BY <1>4, <2>2, <2>3
<1>6. req'[h] = req[h] /\ reply'[h] = reply[h]
  BY DEF AtWork
<1>7. CASE plan[h][1] = move /\ plan'[h] = <<put>>
  <2>1. /\ ChangesOnly(h, q) /\ Exists(q)' /\ disk'[q] = File(req[h].clock, req[h].data)
        /\ \A x \in req[h].data : x \in Kept'
        /\ UNCHANGED <<clocks, tombs>> /\ OnDisk(plan[h][1])
    BY <1>2, <1>7, StagedMoves DEF move
  <2>2. Delivered(h)'
    BY <2>1, DeliveredOnce DEF Preserved
  <2>3. pc'[h] = "locked" /\ ~OnDisk(plan'[h][1]) /\ plan'[h][1] = put
    BY <1>7, NoneIsEmpty, ShortPlans DEF AtWork
  <2>4. Works(h)'
    <3>1. Place(plan'[h][1]) = q
      BY <1>3, <2>3 DEF Place
    <3>2. IsCopy(q)' /\ LastBy(q)' = LastBy(q)
      BY <1>2 DEF IsCopy, IsOriginal, IsTemp, LastBy
    <3>3. plan'[h] = <<PutClock(q, c)>> /\ req'[h].clock = c
      BY <1>0, <1>6, <1>7 DEF put
    <3>4. Copying(h)'
      <4>1. /\ req'[h].op = "stream" /\ reply'[h].result = "Conflict"
            /\ IsCopy(q)' /\ q \in Path /\ LastBy(q)' = h
        BY <1>2, <1>6, <3>2
      <4>2. plan'[h] = <<PutClock(q, req'[h].clock)>>
        BY <3>3
      <4>. QED
        <5>1. IsCopy(q) /\ LastBy(q) = h
          BY <1>2
        <5>. QED
          BY <3>1, <4>1, <4>2, <5>1 DEF Copying
    <3>. QED
      BY <2>3, <3>4 DEF Works, OnDisk
  <2>5. Accounted(q)'
    <3>1. disk'[q].data \subseteq Aware(h)'
      <4>1. req[h].data \subseteq Aware(h)
        BY <1>2 DEF AllSeen, Sends
      <4>2. disk'[q].data = req[h].data
        BY <2>1 DEF File
      <4>. QED
        BY <4>1, <4>2, HostAware
    <3>2. ~IsOriginal(q)' /\ LastBy(q)' = h
      BY <1>2 DEF IsOriginal, LastBy
    <3>. QED
      BY <3>1, <3>2 DEF Accounted
  <2>6. p \in DOMAIN disk' => Accounted(p)'
    <3>. HAVE p \in DOMAIN disk'
    <3>1. p # t
      BY <1>0, <1>1, StagedIsTemp DEF AtWork, AllSeen
    <3>2. p \in DOMAIN disk \ {Root} /\ disk'[p] = disk[p]
      BY <1>1, <1>2, <2>1, <3>1 DEF ChangesOnly, SameFile
    <3>3. LiveClock(p)' = LiveClock(p) /\ Tombed(p)' = Tombed(p)
      BY <2>1 DEF LiveClock, Tombed, TombClock
    <3>4. ~Settling(h)
      BY <2>1, ShortPlans, OpFields DEF Settling, OnDisk
    <3>. QED
      BY <3>2, <3>3, <3>4, WorkAccounted
  <2>. QED
    BY <1>0, <1>2, <2>1, <2>2, <2>4, <2>5, <2>6, WorkSeen
<1>8. CASE plan[h][1] = put /\ plan'[h] = <<>>
  <2>1. ~OnDisk(plan[h][1])
    BY <1>3, <1>8 DEF OnDisk
  <2>2. disk' = disk /\ ChangesOnly(h, q) /\ Delivered(h)'
    BY <2>1, StoreStep
  <2>3. pc'[h] # "locked"
    BY <1>8 DEF AtWork
  <2>4. LiveClock(p)' = LiveClock(p) /\ Tombed(p)' = Tombed(p)
    BY <1>2, <1>3, <1>8, StoresAfter
  <2>5. ~Settling(h)
    <3>1. \A b : DropTomb(p).path = p /\ PutClock(p, b).path = p
      BY OpFields
    <3>. QED
      BY <1>0, <1>2, <1>3, <1>8, <3>1, ShortPlans DEF Settling
  <2>6. p \in DOMAIN disk' => Accounted(p)'
    BY <1>1, <2>2, <2>4, <2>5, WorkAccounted
  <2>7. q \in DOMAIN disk' => Accounted(q)'
    BY <1>2, <2>2, WorkAccounted
  <2>8. \A y \in {q, p} : y \in DOMAIN disk' => Accounted(y)'
    BY <2>6, <2>7
  <2>. QED
    BY <1>0, <1>2, <2>2, <2>3, <2>8, WorkSeen
<1>. QED
  BY <1>5, <1>7, <1>8

\* A file is removed, and then its tombstone put.
LEMMA BurySeen ==
  ASSUME Held, Held', AllSeen, FilesOriginal, NEW h \in Device, AtWork(h),
         UNCHANGED <<mount, history>>, Works(h), Burying(h)
  PROVE  AllSeen' /\ LostIsKnown
<1>0. PICK p, c : p = req[h].path /\ c = reply[h].clock
  OBVIOUS
<1>. DEFINE remove == RemoveFile(p)
            put == PutTomb(p, c)
            drop == DropClock(p)
<1>1. p \in Path \ {Root} /\ Len(p) = 1
  BY <1>0, AskedPlace
<1>2. /\ put.do = "put_tomb" /\ drop.do = "drop_clock"
      /\ remove.do = "remove" /\ remove.path = p
  BY OpFields
<1>3. /\ \/ plan[h] = <<remove, put, drop>>
         \/ ~Exists(p) /\ plan[h] \in {<<put, drop>>, <<put>>, <<drop>>}
      /\ req[h].op = "delete"
  BY <1>0 DEF Burying
<1>. HIDE DEF put, drop, remove
<1>4. \/ plan[h][1] = remove /\ plan'[h] = <<put, drop>>
      \/ ~Exists(p) /\ plan[h][1] \in {put, drop} /\ plan'[h] \in {<<drop>>, <<>>}
  <2>1. plan'[h] = Tail(plan[h])
    BY DEF AtWork
  <2>2. CASE plan[h] = <<remove, put, drop>>
    BY <2>1, <2>2, ShortPlans
  <2>3. CASE ~Exists(p) /\ plan[h] = <<put, drop>>
    BY <2>1, <2>3, ShortPlans
  <2>4. CASE ~Exists(p) /\ plan[h] = <<put>>
    BY <2>1, <2>4, ShortPlans
  <2>5. CASE ~Exists(p) /\ plan[h] = <<drop>>
    BY <2>1, <2>5, ShortPlans
  <2>. QED
    BY <1>3, <2>2, <2>3, <2>4, <2>5
<1>5. req'[h] = req[h] /\ reply'[h] = reply[h]
  BY DEF AtWork
<1>6. ChangesOnly(h, p) /\ p \notin DOMAIN disk'
  <2>1. CASE plan[h][1] = remove
    <3>1. disk' = Without(disk, {p})
      <4>1. disk' = DiskAfter(remove)
        BY <2>1 DEF AtWork
      <4>. QED
        BY <1>2, <4>1, Zenon DEF DiskAfter
    <3>2. p \notin DOMAIN disk' /\ \A x : x # p => SameFile(x)
      BY <3>1 DEF Without, SameFile
    <3>3. p \in DOMAIN disk => disk[p].data \subseteq Aware(h)
      BY <1>2, <2>1 DEF Works, Exists, Place, OnDisk
    <3>. QED
      BY <3>2, <3>3 DEF ChangesOnly
  <2>2. CASE ~Exists(p) /\ plan[h][1] \in {put, drop}
    <3>1. ~OnDisk(plan[h][1])
      BY <1>2, <2>2 DEF OnDisk
    <3>. QED
      BY <2>2, <3>1, StoreStep DEF Exists
  <2>. QED
    BY <1>4, <2>1, <2>2
<1>7. Delivered(h)'
  BY <1>3, DeliveredOnce
<1>8. pc'[h] = "locked" => Works(h)'
  <2>. HAVE pc'[h] = "locked"
  <2>1. plan'[h] # <<>> /\ ~OnDisk(plan'[h][1])
    BY DEF AtWork
  <2>2. plan'[h] \in {<<put, drop>>, <<drop>>}
    BY <1>4, <2>1
  <2>3. plan'[h] \in {<<PutTomb(p, c), DropClock(p)>>, <<DropClock(p)>>}
    BY <2>2 DEF put, drop
  <2>4. req'[h].path = p /\ reply'[h].clock = c /\ req'[h].op = "delete"
    BY <1>0, <1>3, <1>5
  <2>5. Burying(h)'
    BY <1>6, <2>3, <2>4 DEF Burying, Exists
  <2>. QED
    BY <2>1, <2>5 DEF Works, OnDisk
<1>. QED
  BY <1>0, <1>1, <1>6, <1>7, <1>8, WorkSeen

\* A handler does an operation of its plan.
LEMMA StepSeen ==
  ASSUME Held, Held', AllSeen, FilesOriginal, NEW h \in Device, Step(h), UNCHANGED <<mount, history>>
  PROVE  AllSeen' /\ LostIsKnown
<1>1. AtWork(h)
  BY StepsAtWork DEF AllSeen
<1>2. Works(h)
  BY <1>1 DEF AllSeen, Entrusted, AtWork
<1>3. Landing(h) => OnDisk(plan[h][1])
  BY ShortPlans, OpFields DEF Landing, OnDisk
<1>. QED
  BY <1>1, <1>2, <1>3, LandSeen, SettleSeen, CopySeen, BurySeen DEF Works

\* A step of the host.
LEMMA HostSeen ==
  ASSUME Held, Held', AllSeen, FilesOriginal, HostStep
  PROVE  AllSeen' /\ LostIsKnown
<1>1. UNCHANGED <<mount, history>> /\ detached = {}
  BY DEF HostStep, Held, LinkInv
<1>2. CASE Second
  BY <1>1, <1>2, SecondSeen
<1>3. ASSUME NEW h \in Device, Handle(h) PROVE AllSeen' /\ LostIsKnown
  BY <1>1, <1>3, EnsureParentSeen, StageSeen, LookSeen, AcquireSeen, StepSeen, StepFailsSeen
     DEF Handle
<1>. QED
  BY <1>1, <1>2, <1>3 DEF HostStep

-----------------------------------------------------------------------------
(* The inodes that the applications have.                                   *)

\* The table u comes from t: an inode of t that u still has is of the same path.
Follows(u, t) ==
  /\ t.next <= u.next /\ t.next \in Nat /\ u.next \in Nat
  /\ \A i \in DOMAIN u.paths : i < t.next => i \in DOMAIN t.paths /\ u.paths[i] = t.paths[i]

\* What the operations of a table make of it.
LEMMA TouchFollows ==
  ASSUME NEW t, NEW i, SoundTable(t)
  PROVE  Follows(Touch(t, i), t)
  BY TouchFacts DEF SoundTable, Agrees, Follows

\* After ino_for_path the table has an inode for the path.
LEMMA InoFollows ==
  ASSUME NEW t, NEW p, SoundTable(t)
  PROVE  LET u == InoForPath(t, p) IN
           /\ Follows(u, t)
           /\ p \in DOMAIN u.inos /\ u.inos[p] \in DOMAIN u.paths /\ u.paths[u.inos[p]] = p
           /\ u.inos[p] \in 0..(u.next - 1)
<1>. DEFINE v == InoForPath(t, p)
<1>1. SoundTable(v)
  BY InoForPathSound
<1>2. Follows(v, t) /\ p \in DOMAIN v.inos
  <2>1. CASE p \in DOMAIN t.inos
    <3>1. v = Touch(t, t.inos[p])
      BY <2>1 DEF InoForPath
    <3>. HIDE DEF v
    <3>. QED
      BY <2>1, <3>1, TouchFollows, TouchFacts DEF SoundTable
  <2>2. CASE p \notin DOMAIN t.inos
    <3>. DEFINE s == [t EXCEPT !.next = @ + 1]
                u == [s EXCEPT !.inos = With(@, p, t.next)]
                w == Push(u, t.next, p)
    <3>1. IsTable(s) /\ s.paths = t.paths /\ s.next = t.next + 1 /\ t.next \in Nat
      BY DEF SoundTable, IsTable, Agrees
    <3>. HIDE DEF s
    <3>2. IsTable(u) /\ u.paths = t.paths /\ u.next = t.next + 1
      BY <3>1 DEF IsTable
    <3>3. t.next \notin DOMAIN u.paths
      BY <3>2 DEF SoundTable, Agrees
    <3>4. Pushed(w, u, t.next, p)
      BY <3>2, <3>3, PushFacts
    <3>5. Insert(s, t.next, p).paths = w.paths /\ Insert(s, t.next, p).next = w.next
      <4>1. IsTable(w)
        BY <3>4 DEF Pushed
      <4>2. \E x, y : Insert(s, t.next, p) = [w EXCEPT !.inos = x, !.dirs = y]
        BY DEF Insert
      <4>. QED
        BY <4>1, <4>2 DEF IsTable
    <3>6. v = Insert(s, t.next, p)
      BY <2>2 DEF InoForPath, s
    <3>. HIDE DEF u, v, w
    <3>7. /\ v.next = t.next + 1 /\ t.next \in DOMAIN v.paths /\ v.paths[t.next] = p
          /\ \A j \in DOMAIN v.paths : j = t.next \/ (j \in DOMAIN t.paths /\ v.paths[j] = t.paths[j])
      BY <3>2, <3>4, <3>5, <3>6 DEF Pushed
    <3>8. Follows(v, t)
      BY <3>1, <3>7 DEF Follows
    <3>9. p \in DOMAIN v.inos
      BY <1>1, <3>7 DEF SoundTable, Agrees
    <3>. QED
      BY <3>8, <3>9
  <2>. QED
    BY <2>1, <2>2
<1>. HIDE DEF v
<1>3. v.inos[p] \in DOMAIN v.paths /\ v.paths[v.inos[p]] = p /\ v.inos[p] \in 0..(v.next - 1)
  BY <1>1, <1>2 DEF SoundTable, Agrees
<1>. QED
  BY <1>2, <1>3 DEF v

\* The inode of a directory.
LEMMA InoDirFollows ==
  ASSUME NEW t, NEW p, SoundTable(t)
  PROVE  LET u == InoForPath(TrackDir(t, p), p) IN
           /\ Follows(u, t)
           /\ p \in DOMAIN u.inos /\ u.inos[p] \in DOMAIN u.paths /\ u.paths[u.inos[p]] = p
           /\ u.inos[p] \in 0..(u.next - 1)
<1>. DEFINE s == TrackDir(t, p)
<1>1. SoundTable(s)
  BY TrackDirSound
<1>2. s.next = t.next /\ s.paths = t.paths
  BY DEF TrackDir, SoundTable, IsTable
<1>. HIDE DEF s
<1>3. \A u : Follows(u, s) => Follows(u, t)
  BY <1>2 DEF Follows
<1>. QED
  BY <1>1, <1>3, InoFollows DEF s

\* OfFiles, of a table.
FilesIno(t, i) ==
  /\ i \in 0..(t.next - 1)
  /\ i \in DOMAIN t.paths => t.paths[i] \in Files

\* What stays an inode of a file.
LEMMA InoStays ==
  ASSUME NEW t, NEW u, Follows(u, t), NEW i, FilesIno(t, i)
  PROVE  FilesIno(u, i)
  BY DEF Follows, FilesIno

\* A mount that goes on asks of the host only files to change.
LEMMA AsksStays ==
  ASSUME NEW h, AsksFiles(h), Follows(table'[h], table[h]),
         \A p \in DOMAIN dentry'[h] :
           \/ p \in DOMAIN dentry[h] /\ dentry'[h][p] = dentry[h][p]
           \/ FilesIno(table'[h], dentry'[h][p]),
         \A f \in DOMAIN opened'[h] : f \in DOMAIN opened[h] \/ FilesIno(table'[h], f.ino),
         \A i \in DOMAIN bufs'[h] : i \in DOMAIN bufs[h] \/ FilesIno(table'[h], i),
         \/ call'[h] = call[h]
         \/ /\ call'[h].op \in {"open", "size", "fetch", "load"} => FilesIno(table'[h], call'[h].ino)
            /\ call'[h].op = "lookup" => call'[h].path \in Files,
         Mutating(h)' => req'[h].path \in Files
  PROVE  AsksFiles(h)'
<1>1. \A i : FilesIno(table[h], i) => FilesIno(table'[h], i)
  BY InoStays
<1>2. /\ \A p \in DOMAIN dentry[h] : FilesIno(table[h], dentry[h][p])
      /\ \A f \in DOMAIN opened[h] : FilesIno(table[h], f.ino)
      /\ \A i \in DOMAIN bufs[h] : FilesIno(table[h], i)
      /\ call[h].op \in {"open", "size", "fetch", "load"} => FilesIno(table[h], call[h].ino)
      /\ call[h].op = "lookup" => call[h].path \in Files
  BY DEF AsksFiles, OfFiles, FilesIno
<1>3. /\ \A p \in DOMAIN dentry'[h] : FilesIno(table'[h], dentry'[h][p])
      /\ \A f \in DOMAIN opened'[h] : FilesIno(table'[h], f.ino)
      /\ \A i \in DOMAIN bufs'[h] : FilesIno(table'[h], i)
      /\ call'[h].op \in {"open", "size", "fetch", "load"} => FilesIno(table'[h], call'[h].ino)
      /\ call'[h].op = "lookup" => call'[h].path \in Files
  BY <1>1, <1>2
<1>. QED
  BY <1>3 DEF AsksFiles, OfFiles, FilesIno

\* The files that are open.
LEMMA OpenFiles ==
  ASSUME NEW b, NEW f
  PROVE  /\ \A g \in DOMAIN (b (+) SetToBag({f})) : g \in DOMAIN b \/ g = f
         /\ DOMAIN (b (-) SetToBag({f})) \subseteq DOMAIN b
         /\ BagToSet(b) = DOMAIN b /\ \A g : BagIn(g, b) <=> g \in DOMAIN b
         /\ DOMAIN EmptyBag = {}
<1>1. DOMAIN SetToBag({f}) = {f} /\ DOMAIN EmptyBag = {}
  BY DEF SetToBag, EmptyBag
<1>2. \A x : DOMAIN (b (+) x) = DOMAIN b \cup DOMAIN x /\ DOMAIN (b (-) x) \subseteq DOMAIN b
  BY DEF (+), (-)
<1>. QED
  BY <1>1, <1>2 DEF BagToSet, BagIn

-----------------------------------------------------------------------------
(* The mounts' steps, and the edits.                                        *)

\* At most the part of h changes.
One(g, f, h) == DOMAIN g = DOMAIN f /\ \A e \in DOMAIN f \ {h} : g[e] = f[e]

\* Only the mount of h moves on.
Alone(h) ==
  /\ One(table', table, h) /\ One(bufs', bufs, h) /\ One(known', known, h)
  /\ One(opened', opened, h) /\ One(dentry', dentry, h) /\ One(call', call, h)
  /\ One(edits', edits, h) /\ One(shown', shown, h) /\ One(told', told, h)

\* What it has to write it has made or read.
Carries(h) ==
  /\ edits'[h] \in Nat /\ Aware(h) \subseteq Aware(h)'
  /\ \A i \in DOMAIN bufs'[h] : /\ "data" \in DOMAIN bufs'[h][i]
                                /\ \/ i \in DOMAIN bufs[h] /\ bufs'[h][i].data = bufs[h][i].data
                                   \/ bufs'[h][i].data \subseteq Aware(h)'
  /\ req'[h].op = "stream" => req'[h] = req[h] \/ req'[h].data \subseteq Aware(h)'

\* The mount of h moves on, and no handler works for it.
LEMMA MountSeen ==
  ASSUME Held, Held', AllSeen, SoundTables, FilesOriginal, NEW h \in Device,
         Alone(h), OthersRest(h), UNCHANGED <<clocks, tombs, lock, now>>, StagesOnly(h),
         pc[h] # "locked", pc'[h] # "locked",
         pc'[h] = "replied" => Rests(h) /\ ~Mutating(h),
         AsksFiles(h)', Carries(h), ~HasStaged(h)',
         \A p \in DOMAIN disk, w \in Device :
           /\ IsOriginal(p) /\ Authored(p, w) /\ disk[p].edit[w] <= KnownClock(h, p)'[w]
           => disk[p].data \subseteq Aware(h)'
  PROVE  AllSeen'
<1>. USE DEF AllSeen
<1>1. /\ DOMAIN bufs' = Device /\ DOMAIN opened' = Device /\ DOMAIN dentry' = Device
      /\ DOMAIN edits' = Device /\ DOMAIN shown' = Device /\ DOMAIN told' = Device
      /\ \A e \in Device \ {h} :
           /\ table'[e] = table[e] /\ bufs'[e] = bufs[e] /\ known'[e] = known[e]
           /\ opened'[e] = opened[e] /\ dentry'[e] = dentry[e] /\ call'[e] = call[e]
           /\ edits'[e] = edits[e] /\ shown'[e] = shown[e] /\ told'[e] = told[e]
      /\ DOMAIN known = Device /\ DOMAIN known' = Device
  BY DEF Alone, One, Ordered, SoundTables, Held, Typed
<1>2. \A e \in Device \ {h} : Aware(e)' = Aware(e) /\ \A p : KnownClock(e, p)' = KnownClock(e, p)
  BY <1>1 DEF Aware, KnownClock
<1>3. MoreAware
  BY <1>2 DEF MoreAware, Carries
<1>4. \A e \in Device \ {h} : Rests(e)
  BY DEF OthersRest, Rests
<1>5. Ordered'
  <2>1. \A e \in Device \ {h} : AsksFiles(e)'
    <3>. TAKE e \in Device \ {h}
    <3>1. AsksFiles(e) /\ Rests(e)
      BY <1>4 DEF Ordered
    <3>2. \A i : OfFiles(e, i)' <=> OfFiles(e, i)
      BY <1>1 DEF OfFiles
    <3>3. Mutating(e)' = Mutating(e)
      BY <3>1 DEF Mutating, Rests
    <3>. QED
      BY <1>1, <3>1, <3>2, <3>3 DEF AsksFiles, Rests
  <2>2. /\ Root \in DOMAIN disk' /\ disk'[Root] = disk[Root]
        /\ \A p \in DOMAIN disk' \ {Root} :
              \/ p \in DOMAIN disk /\ disk'[p] = disk[p]
              \/ Len(p) = 1 /\ disk'[p].kind = "file" /\ disk'[p].edit \in Clock
    BY StagingOnly
  <2>3. \A p \in DOMAIN disk' \ {Root} : Len(p) = 1 /\ IsFile(p)' /\ disk'[p].edit \in Clock
    BY <2>2 DEF Ordered, IsFile, Exists
  <2>4. \A d \in Device : pc'[d] = "locked" => lock' = d
    BY <1>4 DEF Ordered, Rests
  <2>5. \A d \in Device : AsksFiles(d)'
    BY <2>1
  <2>. QED
    BY <1>1, <2>2, <2>3, <2>4, <2>5 DEF Ordered
<1>6. \A e \in Device \ {h} : Sends(e)'
  <2>. TAKE e \in Device \ {h}
  <2>1. Sends(e) /\ Rests(e)
    BY <1>4
  <2>2. HasStaged(e)' = HasStaged(e) /\ TempPath(req[e].path, e)' = TempPath(req[e].path, e)
    BY <2>1 DEF Rests, HasStaged, OnDisk, TempPath
  <2>3. HasStaged(e) => StagedCopy(e) /\ SameFile(TempPath(req[e].path, e))
    BY <2>1, StagingOnly DEF Sends, OthersStaged, StagedCopy
  <2>4. HasStaged(e)' => StagedCopy(e)'
    BY <2>1, <2>2, <2>3 DEF StagedCopy, SameFile, Exists, Rests
  <2>. QED
    BY <1>1, <1>2, <2>1, <2>4 DEF Sends, StagedCopy, Rests
<1>7. Sends(h)'
  <2>1. Sends(h)
    OBVIOUS
  <2>2. \A i \in DOMAIN bufs'[h] :
          "data" \in DOMAIN bufs'[h][i] /\ bufs'[h][i].data \subseteq Aware(h)'
    BY <2>1 DEF Sends, Carries
  <2>3. req'[h].op = "stream" => req'[h].data \subseteq Aware(h)'
    BY <2>1 DEF Sends, Carries
  <2>. QED
    BY <2>2, <2>3 DEF Sends, Carries
<1>8. Calm(h)
  BY <1>2, <1>3, <1>4, StagingOnly DEF Calm
<1>9. Delivered(h)' /\ ~Settling(h)
  BY DEF Delivered, Settling, Mutating, Mutation, Rests
<1>10. ASSUME NEW p \in DOMAIN disk, NEW w \in Device, IsOriginal(p), Authored(p, w)
       PROVE  Told(h, p, w)
  <2>1. ASSUME pc'[h] \in {"locked", "replied"}, req'[h].path = p,
               disk[p].edit[w] <= reply'[h].clock[w]
        PROVE  Leq(disk[p].edit, reply'[h].clock) /\ ~Mutating(h)'
    <3>1. Rests(h) /\ ~Mutating(h) /\ pc[h] = "replied"
      BY <2>1 DEF Rests
    <3>2. reply[h].clock \in Heard(p)
      BY <2>1, <3>1 DEF Heard, Rests
    <3>. QED
      BY <1>10, <2>1, <3>1, <3>2 DEF Authored, Rests, Mutating
  <2>. QED
    BY <1>10, <2>1 DEF Told
<1>11. Entrusted'
  BY <1>8, <1>9, <1>10, CalmStep
<1>. QED
  BY <1>5, <1>6, <1>7, <1>11

\* A handler at work is one of a change.
LEMMA OnlyChangesLock ==
  ASSUME Held, NEW h \in Device
  PROVE  /\ pc[h] = "locked" => Mutating(h)
         /\ pc[h] = "idle" => ~Mutating(h)
         /\ ~Mutating(h) => req[h].op # "stream"
  BY DEF Held, LinkInv, AtHost, Mutating, Mutation, NoRequest

\* Nobody hears of anything more.
LEMMA KnownStays ==
  ASSUME NEW h \in Device, known' = known, Aware(h) \subseteq Aware(h)'
  PROVE  \A p \in DOMAIN disk, w \in Device :
           /\ IsOriginal(p) /\ Authored(p, w) /\ disk[p].edit[w] <= KnownClock(h, p)'[w]
           => disk[p].data \subseteq Aware(h)'
<1>1. \A p : KnownClock(h, p)' = KnownClock(h, p)
  BY DEF KnownClock
<1>. QED
  BY <1>1 DEF Authored

\* A callback that asks the host nothing.
LEMMA LocalSeen ==
  ASSUME Held, Held', AllSeen, SoundTables, FilesOriginal, NEW h \in Device,
         UNCHANGED <<vars, known>>, ~Mutating(h), Alone(h), AsksFiles(h)', Carries(h)
  PROVE  AllSeen'
<1>1. UNCHANGED <<disk, clocks, tombs, lock, pc, req, plan, reply, now>>
  BY DEF vars, store
<1>2. pc[h] # "locked" /\ req[h].op # "stream"
  BY OnlyChangesLock
<1>3. ~HasStaged(h)' /\ Rests(h) /\ OthersRest(h) /\ StagesOnly(h)
  BY <1>1, <1>2 DEF HasStaged, Rests, OthersRest, StagesOnly, SameFile
<1>. QED
  BY <1>1, <1>2, <1>3, KnownStays, MountSeen DEF Carries

\* A callback that asks the host.
LEMMA AskSeen ==
  ASSUME Held, Held', AllSeen, SoundTables, FilesOriginal, NEW h \in Device,
         NEW c, NEW r, Ask(h, c, r), known' = known, Alone(h), AsksFiles(h)', Carries(h)
  PROVE  AllSeen'
<1>1. UNCHANGED <<disk, clocks, tombs, lock, plan, reply, now>> /\ pc[h] = "idle"
  BY DEF Ask, Submit, store
<1>2. PICK x \in {"accepted", "waiting"} :
        pc' = [pc EXCEPT ![h] = x] /\ (x = "waiting" => r.op # "stream")
  BY DEF Ask, Submit
<1>3. req' = [req EXCEPT ![h] = r]
  BY DEF Ask, Submit
<1>4. pc'[h] = x /\ req'[h] = r /\ OthersRest(h)
  BY <1>1, <1>2, <1>3 DEF OthersRest, Held, Typed
<1>5. ~HasStaged(h)' /\ StagesOnly(h)
  BY <1>1, <1>2, <1>4 DEF HasStaged, StagesOnly, SameFile
<1>. QED
  BY <1>1, <1>4, <1>5, KnownStays, MountSeen DEF Carries

\* A request is over.
LEMMA EndSeen ==
  ASSUME Held, Held', AllSeen, SoundTables, FilesOriginal, NEW h \in Device,
         Ends(h), UNCHANGED <<disk, lock>>, Alone(h), AsksFiles(h)', Carries(h),
         \A p \in DOMAIN disk, w \in Device :
           /\ IsOriginal(p) /\ Authored(p, w) /\ disk[p].edit[w] <= KnownClock(h, p)'[w]
           => disk[p].data \subseteq Aware(h)'
  PROVE  AllSeen'
<1>1. /\ pc' = [pc EXCEPT ![h] = "idle"] /\ req' = [req EXCEPT ![h] = NoRequest]
      /\ plan' = [plan EXCEPT ![h] = <<>>] /\ reply' = [reply EXCEPT ![h] = NoReply]
  BY DEF Ends, Forget
<1>2. pc'[h] = "idle" /\ OthersRest(h)
  BY <1>1 DEF OthersRest, Held, Typed
<1>3. pc[h] # "locked" /\ ~HasStaged(h)' /\ StagesOnly(h)
  BY <1>2, OnlyChangesLock DEF Ends, HasStaged, StagesOnly, SameFile
<1>4. UNCHANGED <<clocks, tombs, lock, now>>
  BY DEF Ends
<1>. QED
  BY <1>2, <1>3, <1>4, MountSeen

\* Of an ended request to look, and of one that is answered, nothing is staged.
LEMMA EndsPlain ==
  ASSUME Held, NEW h \in Device, Hear(h) \/ (Break(h) /\ Whole')
  PROVE  Ends(h) /\ UNCHANGED <<disk, lock>> /\ (pc[h] = "replied" \/ ~Mutating(h))
<1>1. CASE Hear(h)
  <2>1. UNCHANGED <<disk, lock>>
    BY <1>1 DEF Hear, Return
  <2>. QED
    BY <1>1, <2>1, HearEnds
<1>2. CASE Break(h) /\ Whole'
  <2>1. Ends(h) /\ ~Mutating(h)
    BY <1>2, BreakEnds
  <2>2. WithoutTemp(disk, h) = disk
    BY <2>1, OnlyChangesLock DEF WithoutTemp
  <2>3. ~DropUnderLock(h)
    BY <2>1, OnlyChangesLock DEF DropUnderLock
  <2>4. UNCHANGED <<disk, lock>>
    BY <1>2, <2>2, <2>3 DEF Break, Disconnect, Return, DropBeforeLock
  <2>. QED
    BY <2>1, <2>4
<1>. QED
  BY <1>1, <1>2

\* What h may do with its table, the names and the open files of its kernel, its
\* buffers and its callback.
TableMoves(h) == One(table', table, h) /\ Follows(table'[h], table[h])

\* Its kernel has a name more, or one less.
DentryMoves(h) ==
  /\ One(dentry', dentry, h)
  /\ \A p \in DOMAIN dentry'[h] :
       \/ p \in DOMAIN dentry[h] /\ dentry'[h][p] = dentry[h][p]
       \/ FilesIno(table'[h], dentry'[h][p])

\* It opens a file, or closes one.
OpenedMoves(h) ==
  /\ One(opened', opened, h)
  /\ \A f \in DOMAIN opened'[h] : f \in DOMAIN opened[h] \/ FilesIno(table'[h], f.ino)

\* Its buffers have what they had, or what it knows of.
BufsMove(h) ==
  /\ One(bufs', bufs, h)
  /\ \A i \in DOMAIN bufs'[h] :
       /\ i \in DOMAIN bufs[h] \/ FilesIno(table'[h], i)
       /\ "data" \in DOMAIN bufs'[h][i]
       /\ \/ i \in DOMAIN bufs[h] /\ bufs'[h][i].data = bufs[h][i].data
          \/ bufs'[h][i].data \subseteq Aware(h)'

\* It answers a callback, which is about a file.
CallMoves(h) ==
  /\ One(call', call, h)
  /\ \/ call'[h] = call[h]
     \/ /\ call'[h].op \in {"open", "size", "fetch", "load"} => FilesIno(table'[h], call'[h].ino)
        /\ call'[h].op = "lookup" => call'[h].path \in Files

\* It makes, reads or hears of edits.
HistoryMoves(h) ==
  /\ One(edits', edits, h) /\ One(shown', shown, h) /\ One(told', told, h)
  /\ edits'[h] \in Nat /\ Aware(h) \subseteq Aware(h)'

\* All of this.
Moves(h) ==
  /\ TableMoves(h) /\ DentryMoves(h) /\ OpenedMoves(h) /\ BufsMove(h) /\ CallMoves(h)
  /\ HistoryMoves(h)

\* A mount that does no more than that asks for files only, and has what it has
\* to write from where it may.
LEMMA MountGoesOn ==
  ASSUME Ordered, NEW h \in Device, Moves(h), One(known', known, h),
         req'[h] = req[h]
           \/ ((req'[h].op = "stream" => req'[h].data \subseteq Aware(h)')
               /\ (Mutating(h)' => req'[h].path \in Files))
  PROVE  Alone(h) /\ AsksFiles(h)' /\ Carries(h)
<1>1. AsksFiles(h)
  BY DEF Ordered
<1>2. Mutating(h)' => req'[h].path \in Files
  BY <1>1 DEF AsksFiles, Mutating
<1>3. AsksFiles(h)'
  BY <1>1, <1>2, AsksStays DEF Moves, TableMoves, DentryMoves, OpenedMoves, BufsMove, CallMoves
<1>4. Alone(h)
  BY DEF Alone, Moves, TableMoves, DentryMoves, OpenedMoves, BufsMove, CallMoves, HistoryMoves
<1>5. Carries(h)
  BY DEF Carries, Moves, BufsMove, HistoryMoves
<1>. QED
  BY <1>3, <1>4, <1>5

\* What makes such a move.
LEMMA Shapes ==
  ASSUME Held, AllSeen, SoundTables, NEW h \in Device
  PROVE  /\ table' = table => TableMoves(h)
         /\ \A t : table' = [table EXCEPT ![h] = t] =>
              table'[h] = t /\ (Follows(t, table[h]) => TableMoves(h))
         /\ dentry' = dentry => DentryMoves(h)
         /\ \A p, i : /\ dentry' = [dentry EXCEPT ![h] = With(dentry[h], p, i)]
                      /\ FilesIno(table'[h], i)
                      => DentryMoves(h)
         /\ \A p : dentry' = [dentry EXCEPT ![h] = Without(dentry[h], p)] => DentryMoves(h)
         /\ opened' = opened => OpenedMoves(h)
         /\ \A i, m : Opening(h, i, m) /\ FilesIno(table'[h], i) => OpenedMoves(h)
         /\ \A f : Closing(h, f) => OpenedMoves(h)
         /\ bufs' = bufs => BufsMove(h)
         /\ \A i, x : SetBuf(h, i, FileBuf(x, TRUE, TRUE)) /\ FilesIno(table'[h], i)
                        /\ x \subseteq Aware(h)'
                      => BufsMove(h)
         /\ \A s : bufs' = [bufs EXCEPT ![h] = Without(bufs[h], s)] => BufsMove(h)
         /\ call' = call => CallMoves(h)
         /\ \A c : call' = [call EXCEPT ![h] = c] => call'[h] = c /\ One(call', call, h)
         /\ UNCHANGED <<edits, shown, told>> => HistoryMoves(h) /\ Aware(h)' = Aware(h)
<1>0. \A i \in DOMAIN bufs[h] : "data" \in DOMAIN bufs[h][i]
  BY DEF AllSeen, Sends
<1>1. /\ DOMAIN bufs = Device /\ DOMAIN opened = Device /\ DOMAIN dentry = Device
      /\ DOMAIN table = Device /\ DOMAIN call = Device /\ table[h].next \in Nat /\ edits[h] \in Nat
  BY DEF AllSeen, Ordered, Held, Typed, SoundTables, SoundTable, Agrees, Sends
<1>2. /\ table' = table => TableMoves(h)
      /\ \A t : table' = [table EXCEPT ![h] = t] =>
            table'[h] = t /\ (Follows(t, table[h]) => TableMoves(h))
  BY <1>1 DEF TableMoves, One, Follows
<1>3. /\ dentry' = dentry => DentryMoves(h)
      /\ \A p, i : /\ dentry' = [dentry EXCEPT ![h] = With(dentry[h], p, i)]
                   /\ FilesIno(table'[h], i)
                   => DentryMoves(h)
      /\ \A p : dentry' = [dentry EXCEPT ![h] = Without(dentry[h], p)] => DentryMoves(h)
  BY <1>1 DEF DentryMoves, One, With, Without
<1>4. opened' = opened => OpenedMoves(h)
  BY DEF OpenedMoves, One
<1>5. ASSUME NEW i, NEW m, Opening(h, i, m), FilesIno(table'[h], i) PROVE OpenedMoves(h)
  <2>. DEFINE f == [ino |-> i, mode |-> m]
              b == opened[h] (+) SetToBag({f})
  <2>1. opened' = [opened EXCEPT ![h] = b] /\ f.ino = i
    BY <1>5 DEF Opening
  <2>2. \A g \in DOMAIN b : g \in DOMAIN opened[h] \/ g = f
    BY OpenFiles
  <2>. HIDE DEF b, f
  <2>. QED
    BY <1>1, <1>5, <2>1, <2>2 DEF OpenedMoves, One
<1>6. ASSUME NEW f, Closing(h, f) PROVE OpenedMoves(h)
  <2>. DEFINE b == opened[h] (-) SetToBag({f})
  <2>1. opened' = [opened EXCEPT ![h] = b]
    BY <1>6 DEF Closing
  <2>2. DOMAIN b \subseteq DOMAIN opened[h]
    BY OpenFiles
  <2>. HIDE DEF b
  <2>. QED
    BY <1>1, <2>1, <2>2 DEF OpenedMoves, One
<1>7. bufs' = bufs => BufsMove(h)
  BY <1>0 DEF BufsMove, One
<1>8. ASSUME NEW i, NEW x, SetBuf(h, i, FileBuf(x, TRUE, TRUE)), FilesIno(table'[h], i),
             x \subseteq Aware(h)'
      PROVE  BufsMove(h)
  <2>. DEFINE b == FileBuf(x, TRUE, TRUE)
  <2>1. b.data = x /\ "data" \in DOMAIN b
    BY DEF FileBuf
  <2>2. bufs' = [bufs EXCEPT ![h] = With(bufs[h], i, b)]
    BY <1>8 DEF SetBuf
  <2>. HIDE DEF b
  <2>. QED
    BY <1>0, <1>1, <1>8, <2>1, <2>2 DEF BufsMove, One, With
<1>9. \A s : bufs' = [bufs EXCEPT ![h] = Without(bufs[h], s)] => BufsMove(h)
  BY <1>0, <1>1 DEF BufsMove, One, Without
<1>10. /\ call' = call => CallMoves(h)
       /\ \A c : call' = [call EXCEPT ![h] = c] => call'[h] = c /\ One(call', call, h)
  BY <1>1 DEF CallMoves, One
<1>11. UNCHANGED <<edits, shown, told>> => HistoryMoves(h) /\ Aware(h)' = Aware(h)
  BY <1>1 DEF HistoryMoves, One, Aware
<1>. QED
  BY <1>2, <1>3, <1>4, <1>5, <1>6, <1>7, <1>8, <1>9, <1>10, <1>11

\* A device that asks the host, and closes a file or not.
LEMMA AskingSeen ==
  ASSUME Held, Held', AllSeen, SoundTables, FilesOriginal, NEW h \in Device, NEW c, NEW r, NEW i,
         Ask(h, c, r), UNCHANGED <<known, bufs, dentry, edits, shown, told>>,
         table' = table \/ table' = [table EXCEPT ![h] = Touch(table[h], i)],
         opened' = opened \/ \E f : Closing(h, f),
         c.op \in {"open", "size", "fetch", "load"} => OfFiles(h, c.ino),
         c.op = "lookup" => c.path \in Files,
         r.op \in Mutation => r.path \in Files,
         r.op = "stream" => r.data \subseteq Aware(h)
  PROVE  AllSeen'
<1>1. SoundTable(table[h])
  BY DEF SoundTables
<1>2. TableMoves(h) /\ Follows(table'[h], table[h])
  BY <1>1, Shapes, TouchFollows DEF TableMoves
<1>3. DentryMoves(h) /\ OpenedMoves(h) /\ BufsMove(h) /\ HistoryMoves(h) /\ Aware(h)' = Aware(h)
  BY Shapes
<1>4. CallMoves(h)
  <2>1. call'[h] = c /\ One(call', call, h)
    BY Shapes DEF Ask
  <2>2. c.op \in {"open", "size", "fetch", "load"} => FilesIno(table'[h], c.ino)
    BY <1>2, InoStays DEF OfFiles, FilesIno
  <2>. QED
    BY <2>1, <2>2 DEF CallMoves
<1>5. req'[h] = r
  <2>1. req' = [req EXCEPT ![h] = r] /\ DOMAIN req = Device
    BY DEF Ask, Submit, Held, Typed
  <2>. QED
    BY <2>1
<1>6. Alone(h) /\ AsksFiles(h)' /\ Carries(h)
  <2>1. One(known', known, h)
    BY DEF One
  <2>2. Ordered /\ Moves(h)
    BY <1>2, <1>3, <1>4 DEF Moves, AllSeen
  <2>3. (Mutating(h)' => req'[h].path \in Files)
    BY <1>5 DEF Mutating
  <2>4. req'[h].op = "stream" => req'[h].data \subseteq Aware(h)'
    BY <1>3, <1>5
  <2>. QED
    BY <2>1, <2>2, <2>3, <2>4, MountGoesOn
<1>. QED
  BY <1>6, AskSeen

\* A callback that goes without the host.
LEMMA AloneSeen ==
  ASSUME Held, Held', AllSeen, SoundTables, FilesOriginal, NEW h \in Device,
         UNCHANGED <<vars, known>>, ~Mutating(h), Moves(h)
  PROVE  AllSeen'
<1>1. One(known', known, h) /\ req'[h] = req[h]
  BY DEF One, vars
<1>2. Ordered
  BY DEF AllSeen
<1>3. Alone(h) /\ AsksFiles(h)' /\ Carries(h)
  BY <1>1, <1>2, MountGoesOn
<1>. QED
  BY <1>3, LocalSeen

\* What the kernel and the buffers of h have is of files.
LEMMA OfItsFiles ==
  ASSUME AllSeen, NEW h \in Device
  PROVE  /\ \A p \in DOMAIN dentry[h] : FilesIno(table[h], dentry[h][p])
         /\ \A f : BagIn(f, opened[h]) => f \in DOMAIN opened[h] /\ FilesIno(table[h], f.ino)
         /\ \A i, m : HasOpen(h, i, m) => FilesIno(table[h], i)
         /\ \A i \in DOMAIN bufs[h] : FilesIno(table[h], i) /\ bufs[h][i].data \subseteq Aware(h)
         /\ call[h].op \in {"open", "size", "fetch", "load"} => FilesIno(table[h], call[h].ino)
         /\ call[h].op = "lookup" => call[h].path \in Files
         /\ \A i : FilesIno(table[h], i) <=> OfFiles(h, i)
<1>1. AsksFiles(h) /\ Sends(h)
  BY DEF AllSeen, Ordered
<1>2. \A i : FilesIno(table[h], i) <=> OfFiles(h, i)
  BY DEF FilesIno, OfFiles
<1>3. \A f : BagIn(f, opened[h]) <=> f \in DOMAIN opened[h]
  BY OpenFiles
<1>4. \A f : BagIn(f, opened[h]) => FilesIno(table[h], f.ino)
  BY <1>1, <1>2, <1>3 DEF AsksFiles
<1>5. ASSUME NEW i, NEW m, HasOpen(h, i, m) PROVE FilesIno(table[h], i)
  <2>1. PICK x \in m : BagIn([ino |-> i, mode |-> x], opened[h])
    BY <1>5 DEF HasOpen
  <2>. QED
    BY <1>4, <2>1
<1>. QED
  BY <1>1, <1>2, <1>3, <1>4, <1>5 DEF AsksFiles, Sends

\* The table of h when an inode becomes the most recent.
LEMMA TouchMoves ==
  ASSUME Held, AllSeen, SoundTables, NEW h \in Device, NEW i,
         table' = [table EXCEPT ![h] = Touch(table[h], i)]
  PROVE  /\ TableMoves(h) /\ table'[h].paths = table[h].paths
         /\ \A j : FilesIno(table[h], j) => FilesIno(table'[h], j)
<1>1. SoundTable(table[h])
  BY DEF SoundTables
<1>2. table'[h] = Touch(table[h], i) /\ Follows(Touch(table[h], i), table[h]) /\ TableMoves(h)
  BY <1>1, Shapes, TouchFollows
<1>3. Touch(table[h], i).paths = table[h].paths
  BY <1>1, TouchFacts DEF SoundTable
<1>. QED
  BY <1>2, <1>3, InoStays

\* The callbacks that look.
LEMMA BrowseSeen ==
  ASSUME Held, Held', AllSeen, SoundTables, FilesOriginal, NEW h \in Device, Browse(h, Files)
  PROVE  AllSeen'
<1>1. ASSUME NEW p \in Files, Lookup(h, p) PROVE AllSeen'
  <2>1. /\ UNCHANGED <<table, bufs, known, opened, edits, shown, told>>
        /\ pc[h] = "idle"
    BY <1>1 DEF Lookup, Ready, history
  <2>2. CASE p \in DOMAIN table[h].inos /\ table[h].inos[p] \in DOMAIN bufs[h]
    <3>1. /\ dentry' = [dentry EXCEPT ![h] = With(dentry[h], p, table[h].inos[p])]
          /\ UNCHANGED <<vars, call>>
      BY <1>1, <2>2 DEF Lookup
    <3>2. FilesIno(table'[h], table[h].inos[p])
      BY <2>1, <2>2, OfItsFiles
    <3>3. DentryMoves(h)
      BY <3>1, <3>2, Shapes
    <3>4. Moves(h)
      BY <2>1, <3>1, <3>3, Shapes DEF Moves
    <3>. QED
      BY <2>1, <3>1, <3>4, OnlyChangesLock, AloneSeen
  <2>3. CASE ~(p \in DOMAIN table[h].inos /\ table[h].inos[p] \in DOMAIN bufs[h])
    <3>. DEFINE c == Call("lookup", 0, p)
                r == Looking("stat", p)
    <3>1. Ask(h, c, r) /\ dentry' = dentry
      BY <1>1, <2>3 DEF Lookup
    <3>2. c.op = "lookup" /\ c.path = p /\ r.op \notin Mutation /\ r.op # "stream"
      BY DEF Call, Looking, Mutation
    <3>. HIDE DEF c, r
    <3>. QED
      BY <2>1, <3>1, <3>2, AskingSeen
  <2>. QED
    BY <2>2, <2>3
<1>2. ASSUME NEW i, GetAttr(h, i) \/ Read(h, i) PROVE AllSeen'
  <2>1. /\ UNCHANGED <<bufs, known, opened, dentry, edits, shown, told>>
        /\ table' = [table EXCEPT ![h] = Touch(table[h], i)] /\ pc[h] = "idle"
    BY <1>2 DEF GetAttr, Read, Ready, history
  <2>2. CASE UNCHANGED <<vars, call>>
    <3>1. Moves(h)
      BY <2>1, <2>2, Shapes, TouchMoves DEF Moves
    <3>. QED
      BY <2>1, <2>2, <3>1, OnlyChangesLock, AloneSeen
  <2>3. ASSUME NEW c, NEW r, Ask(h, c, r), c.op \in {"getattr", "read"},
               r.op \notin Mutation, r.op # "stream"
        PROVE  AllSeen'
    BY <2>1, <2>3, AskingSeen
  <2>4. \A p : /\ Call("getattr", i, p).op = "getattr" /\ Call("read", i, p).op = "read"
               /\ Looking("stat", p).op \notin Mutation \cup {"stream"}
               /\ Looking("read", p).op \notin Mutation \cup {"stream"}
    BY DEF Call, Looking, Mutation
  <2>. QED
    BY <1>2, <2>2, <2>3, <2>4 DEF GetAttr, Read
<1>3. ASSUME ReadDir(h) PROVE AllSeen'
  <2>. DEFINE c == Call("readdir", 1, Root)
              r == Looking("list", Root)
  <2>1. /\ UNCHANGED <<table, bufs, known, opened, dentry, edits, shown, told>> /\ Ask(h, c, r)
    BY <1>3 DEF ReadDir, history
  <2>2. c.op = "readdir" /\ r.op \notin Mutation /\ r.op # "stream"
    BY DEF Call, Looking, Mutation
  <2>. HIDE DEF c, r
  <2>. QED
    BY <2>1, <2>2, AskingSeen
<1>. QED
  BY <1>1, <1>2, <1>3 DEF Browse

\* A buffer is sent to be written.
LEMMA WriteBackSeen ==
  ASSUME Held, Held', AllSeen, SoundTables, FilesOriginal, NEW h \in Device, NEW i,
         NEW op \in {"release", "fsync"}, WriteBack(h, op, i), Dirty(h, i),
         i \in DOMAIN table[h].paths,
         UNCHANGED <<known, dentry, edits, shown, told>>, opened' = opened \/ \E f : Closing(h, f)
  PROVE  AllSeen'
<1>. DEFINE p == table[h].paths[i]
            c == Call(op, i, p)
            r == Change(h, "stream", p, bufs[h][i].data)
<1>1. /\ Ask(h, c, r) /\ table' = [table EXCEPT ![h] = Touch(table[h], i)] /\ bufs' = bufs
  BY DEF WriteBack
<1>2. FilesIno(table[h], i) /\ bufs[h][i].data \subseteq Aware(h)
  BY OfItsFiles DEF Dirty
<1>3. p \in Files
  BY <1>2 DEF FilesIno
<1>4. c.op = op /\ r.path = p /\ r.data = bufs[h][i].data
  BY DEF Call, Change
<1>. HIDE DEF c, r, p
<1>. QED
  BY <1>1, <1>2, <1>3, <1>4, AskingSeen

\* Opening a file.
LEMMA OpenSeen ==
  ASSUME Held, Held', AllSeen, SoundTables, FilesOriginal, NEW h \in Device,
         NEW p, NEW m, Open(h, p, m)
  PROVE  AllSeen'
<1>0. PICK i : i = dentry[h][p]
  OBVIOUS
<1>1. /\ UNCHANGED <<bufs, known, dentry, edits, shown, told>> /\ pc[h] = "idle"
      /\ FilesIno(table[h], i)
  BY <1>0, OfItsFiles DEF Open, Ready, history
<1>2. CASE m # "write" /\ i \in DOMAIN table[h].paths
  <2>. DEFINE q == table[h].paths[i]
              c == [op |-> "open", ino |-> i, path |-> q, mode |-> m]
              r == Looking("stat", q)
  <2>1. /\ Ask(h, c, r) /\ opened' = opened /\ table' = [table EXCEPT ![h] = Touch(table[h], i)]
    BY <1>0, <1>2 DEF Open
  <2>2. c.op = "open" /\ c.ino = i /\ r.op \notin Mutation /\ r.op # "stream" /\ OfFiles(h, i)
    BY <1>1, OfItsFiles DEF Looking, Mutation
  <2>. HIDE DEF c, r
  <2>. QED
    BY <1>1, <2>1, <2>2, AskingSeen
<1>3. CASE ~(m # "write" /\ i \in DOMAIN table[h].paths)
  <2>1. Opening(h, i, m) /\ UNCHANGED <<vars, call, table>>
    BY <1>0, <1>3 DEF Open
  <2>2. Moves(h)
    BY <1>1, <2>1, Shapes DEF Moves
  <2>. QED
    BY <1>1, <2>1, <2>2, OnlyChangesLock, AloneSeen
<1>. QED
  BY <1>2, <1>3

\* A new file.
LEMMA CreateSeen ==
  ASSUME Held, Held', AllSeen, SoundTables, FilesOriginal, NEW h \in Device,
         NEW p \in Files, NEW m, Create(h, p, m)
  PROVE  AllSeen'
<1>0. PICK after : after = InoForPath(table[h], p)
  OBVIOUS
<1>1. PICK i : i = after.inos[p]
  OBVIOUS
<1>2. /\ table' = [table EXCEPT ![h] = after] /\ SetBuf(h, i, FileBuf({}, TRUE, TRUE))
      /\ dentry' = [dentry EXCEPT ![h] = With(dentry[h], p, i)] /\ Opening(h, i, m)
      /\ UNCHANGED <<vars, known, call, edits, shown, told>> /\ pc[h] = "idle"
  BY <1>0, <1>1 DEF Create, Ready, history
<1>3. SoundTable(table[h])
  BY DEF SoundTables
<1>4. /\ Follows(after, table[h]) /\ i \in DOMAIN after.paths /\ after.paths[i] = p
      /\ i \in 0..(after.next - 1)
  BY <1>0, <1>1, <1>3, InoFollows
<1>5. TableMoves(h) /\ table'[h] = after
  BY <1>2, <1>4, Shapes
<1>6. FilesIno(table'[h], i)
  BY <1>4, <1>5 DEF FilesIno
<1>7. BufsMove(h)
  <2>1. PICK x : x = {}
    OBVIOUS
  <2>2. SetBuf(h, i, FileBuf(x, TRUE, TRUE)) /\ x \subseteq Aware(h)'
    BY <1>2, <2>1
  <2>. QED
    BY <1>6, <2>2, Shapes
<1>8. Moves(h)
  BY <1>2, <1>5, <1>6, <1>7, Shapes DEF Moves
<1>. QED
  BY <1>2, <1>8, OnlyChangesLock, AloneSeen

\* An edit of h, which it has made of what it knows.
LEMMA ModifyMoves ==
  ASSUME Held, AllSeen, SoundTables, NEW h \in Device, NEW i, NEW base, Modify(h, i, base),
         FilesIno(table'[h], i), base \subseteq Aware(h)', told' = told,
         One(shown', shown, h), shown[h] \subseteq shown'[h]
  PROVE  BufsMove(h) /\ HistoryMoves(h)
<1>1. edits' = [edits EXCEPT ![h] = edits[h] + 1] /\ edits[h] \in Nat /\ DOMAIN edits = Device
  BY DEF Modify, AllSeen, Ordered, Sends
<1>2. edits'[h] = edits[h] + 1 /\ One(edits', edits, h) /\ edits'[h] \in Nat
  BY <1>1 DEF One
<1>3. Aware(h) \subseteq Aware(h)' /\ Edit(h, edits[h] + 1) \in Aware(h)'
  <2>1. 1..edits[h] \subseteq 1..edits'[h] /\ edits[h] + 1 \in 1..edits'[h]
    BY <1>1, <1>2
  <2>. QED
    BY <2>1 DEF Aware
<1>4. HistoryMoves(h)
  BY <1>2, <1>3 DEF HistoryMoves, One
<1>5. BufsMove(h)
  <2>. DEFINE x == base \cup {Edit(h, edits[h] + 1)}
  <2>1. SetBuf(h, i, FileBuf(x, TRUE, TRUE)) /\ x \subseteq Aware(h)'
    BY <1>3 DEF Modify
  <2>. HIDE DEF x
  <2>. QED
    BY <2>1, Shapes
<1>. QED
  BY <1>4, <1>5

\* Writing.
LEMMA WriteSeen ==
  ASSUME Held, Held', AllSeen, SoundTables, FilesOriginal, NEW h \in Device, NEW i, Write(h, i)
  PROVE  AllSeen'
<1>1. /\ UNCHANGED <<known, opened, dentry, shown, told>> /\ pc[h] = "idle"
      /\ table' = [table EXCEPT ![h] = Touch(table[h], i)] /\ FilesIno(table[h], i)
  BY OfItsFiles DEF Write, Ready
<1>2. TableMoves(h) /\ FilesIno(table'[h], i)
  BY <1>1, TouchMoves
<1>3. CASE Loaded(h, i)
  <2>1. Modify(h, i, bufs[h][i].data) /\ UNCHANGED <<vars, call>>
    BY <1>3 DEF Write
  <2>2. bufs[h][i].data \subseteq Aware(h)'
    <3>1. bufs[h][i].data \subseteq Aware(h)
      BY <1>3, OfItsFiles DEF Loaded
    <3>2. edits' = [edits EXCEPT ![h] = edits[h] + 1] /\ edits[h] \in Nat /\ DOMAIN edits = Device
      BY <2>1 DEF Modify, AllSeen, Ordered, Sends
    <3>3. 1..edits[h] \subseteq 1..edits'[h]
      BY <3>2
    <3>. QED
      BY <1>1, <3>1, <3>3 DEF Aware
  <2>3. BufsMove(h) /\ HistoryMoves(h)
    BY <1>1, <1>2, <2>1, <2>2, ModifyMoves DEF One
  <2>4. Moves(h)
    BY <1>1, <1>2, <2>1, <2>3, Shapes DEF Moves
  <2>. QED
    BY <1>1, <2>1, <2>4, OnlyChangesLock, AloneSeen
<1>4. CASE ~Loaded(h, i)
  <2>. DEFINE p == table[h].paths[i]
              c == Call("size", i, p)
              r == Looking("stat", p)
  <2>1. Ask(h, c, r) /\ UNCHANGED <<bufs, edits>>
    BY <1>4 DEF Write
  <2>2. c.op = "size" /\ c.ino = i /\ r.op \notin Mutation /\ r.op # "stream" /\ OfFiles(h, i)
    BY <1>1, OfItsFiles DEF Call, Looking, Mutation
  <2>. HIDE DEF c, r
  <2>. QED
    BY <1>1, <2>1, <2>2, AskingSeen
<1>. QED
  BY <1>3, <1>4

\* Cutting a file to nothing.
LEMMA TruncateSeen ==
  ASSUME Held, Held', AllSeen, SoundTables, FilesOriginal, NEW h \in Device, NEW i, Truncate(h, i)
  PROVE  AllSeen'
<1>1. /\ UNCHANGED <<vars, known, call, opened, dentry, edits, shown, told>> /\ pc[h] = "idle"
      /\ table' = [table EXCEPT ![h] = Touch(table[h], i)] /\ SetBuf(h, i, FileBuf({}, TRUE, TRUE))
  BY DEF Truncate, Ready, history
<1>2. FilesIno(table[h], i)
  BY OfItsFiles DEF Truncate
<1>3. TableMoves(h) /\ FilesIno(table'[h], i)
  BY <1>1, <1>2, TouchMoves
<1>4. BufsMove(h)
  <2>1. PICK x : x = {}
    OBVIOUS
  <2>2. SetBuf(h, i, FileBuf(x, TRUE, TRUE)) /\ x \subseteq Aware(h)'
    BY <1>1, <2>1
  <2>. QED
    BY <1>3, <2>2, Shapes
<1>5. Moves(h)
  BY <1>1, <1>3, <1>4, Shapes DEF Moves
<1>. QED
  BY <1>1, <1>5, OnlyChangesLock, AloneSeen

\* fsync.
LEMMA FSyncSeen ==
  ASSUME Held, Held', AllSeen, SoundTables, FilesOriginal, NEW h \in Device, NEW i, FSync(h, i)
  PROVE  AllSeen'
<1>1. UNCHANGED <<known, opened, dentry, edits, shown, told>> /\ pc[h] = "idle"
  BY DEF FSync, Ready, history
<1>2. CASE i \in DOMAIN table[h].paths /\ Dirty(h, i)
  <2>1. WriteBack(h, "fsync", i)
    BY <1>2 DEF FSync
  <2>. QED
    BY <1>1, <1>2, <2>1, WriteBackSeen
<1>3. CASE ~(i \in DOMAIN table[h].paths /\ Dirty(h, i))
  <2>1. table' = [table EXCEPT ![h] = Touch(table[h], i)] /\ UNCHANGED <<vars, call, bufs>>
    BY <1>3 DEF FSync
  <2>2. Moves(h)
    BY <1>1, <2>1, TouchMoves, Shapes DEF Moves
  <2>. QED
    BY <1>1, <2>1, <2>2, OnlyChangesLock, AloneSeen
<1>. QED
  BY <1>2, <1>3

\* The callbacks that open files and write to them.
LEMMA UseSeen ==
  ASSUME Held, Held', AllSeen, SoundTables, FilesOriginal, NEW h \in Device, Use(h, Files)
  PROVE  AllSeen'
  BY OpenSeen, CreateSeen, WriteSeen, TruncateSeen, FSyncSeen DEF Use

\* release.
LEMMA CloseSeen ==
  ASSUME Held, Held', AllSeen, SoundTables, FilesOriginal, NEW h \in Device, Close(h)
  PROVE  AllSeen'
<1>1. PICK f : Release(h, f)
  BY DEF Close
<1>2. /\ UNCHANGED <<known, dentry, edits, shown, told>> /\ pc[h] = "idle" /\ Closing(h, f)
  BY <1>1 DEF Release, Ready, history
<1>3. CASE f.ino \in DOMAIN table[h].paths /\ Dirty(h, f.ino)
  <2>1. WriteBack(h, "release", f.ino)
    BY <1>1, <1>3 DEF Release
  <2>. QED
    BY <1>2, <1>3, <2>1, WriteBackSeen
<1>4. CASE ~(f.ino \in DOMAIN table[h].paths /\ Dirty(h, f.ino))
  <2>1. /\ bufs' = [bufs EXCEPT ![h] = Without(bufs[h], {f.ino})]
        /\ table' = [table EXCEPT ![h] = Touch(table[h], f.ino)] /\ UNCHANGED <<vars, call>>
    BY <1>1, <1>4 DEF Release
  <2>2. Moves(h)
    BY <1>2, <2>1, TouchMoves, Shapes DEF Moves
  <2>. QED
    BY <1>2, <2>1, <2>2, OnlyChangesLock, AloneSeen
<1>. QED
  BY <1>3, <1>4

\* unlink.
LEMMA RemoveSeen ==
  ASSUME Held, Held', AllSeen, SoundTables, FilesOriginal, NEW h \in Device,
         Remove(h, Files), Whole'
  PROVE  AllSeen'
<1>1. ASSUME NEW p \in Files, Unlink(h, p) PROVE AllSeen'
  <2>. DEFINE c == Call("unlink", 0, p)
              r == Change(h, "delete", p, NoData)
  <2>1. /\ UNCHANGED <<table, bufs, known, opened, dentry, edits, shown, told>> /\ Ask(h, c, r)
    BY <1>1 DEF Unlink, history
  <2>2. c.op = "unlink" /\ r.op = "delete" /\ r.path = p
    BY DEF Call, Change
  <2>. HIDE DEF c, r
  <2>. QED
    BY <2>1, <2>2, AskingSeen
<1>2. ASSUME NEW p, NEW q, Rename(h, p, q) PROVE FALSE
  BY <1>2 DEF Rename, Whole
<1>. QED
  BY <1>1, <1>2 DEF Remove

\* A request is over, and its device goes on.
LEMMA AnswerSeen ==
  ASSUME Held, Held', AllSeen, SoundTables, FilesOriginal, NEW h \in Device,
         Ends(h), UNCHANGED <<disk, lock>>, Moves(h), One(known', known, h),
         \A p \in DOMAIN disk, w \in Device :
           /\ IsOriginal(p) /\ Authored(p, w) /\ disk[p].edit[w] <= KnownClock(h, p)'[w]
           => disk[p].data \subseteq Aware(h)'
  PROVE  AllSeen'
<1>1. req' = [req EXCEPT ![h] = NoRequest] /\ DOMAIN req = Device
  BY DEF Ends, Forget, Held, Typed
<1>2. req'[h].op = "none"
  BY <1>1 DEF NoRequest
<1>3. ~Mutating(h)' /\ req'[h].op # "stream" /\ Ordered
  BY <1>2 DEF Mutating, Mutation, AllSeen
<1>4. Alone(h) /\ AsksFiles(h)' /\ Carries(h)
  BY <1>3, MountGoesOn
<1>. QED
  BY <1>4, EndSeen

\* The answer to a lookup.
LEMMA LookedUpMoves ==
  ASSUME Held, AllSeen, SoundTables, NEW h \in Device, NEW a, LookedUp(h, a)
  PROVE  Moves(h)
<1>1. /\ call[h].op = "lookup" /\ call' = [call EXCEPT ![h] = NoCall]
      /\ UNCHANGED <<bufs, opened, edits, shown, told>>
  BY DEF LookedUp, Done
<1>2. CallMoves(h)
  <2>1. NoCall.op = "none"
    BY DEF NoCall
  <2>. HIDE DEF NoCall
  <2>2. call'[h].op = "none" /\ One(call', call, h)
    BY <1>1, <2>1, Shapes
  <2>. QED
    BY <2>2 DEF CallMoves
<1>3. PICK p : p = call[h].path
  OBVIOUS
<1>4. p \in Files /\ SoundTable(table[h])
  BY <1>1, <1>3, OfItsFiles DEF SoundTables
<1>5. TableMoves(h) /\ DentryMoves(h)
  <2>1. CASE a.result = "Found"
    <3>0. PICK dir \in BOOLEAN : dir = \E n \in a.seen : n.kind = "dir"
      OBVIOUS
    <3>. DEFINE after == InoForPath(IF dir THEN TrackDir(table[h], p) ELSE table[h], p)
    <3>1. /\ table' = [table EXCEPT ![h] = after]
          /\ dentry' = [dentry EXCEPT ![h] = With(dentry[h], p, after.inos[p])]
      BY <1>3, <2>1, <3>0 DEF LookedUp
    <3>4. after \in {InoForPath(table[h], p), InoForPath(TrackDir(table[h], p), p)}
      OBVIOUS
    <3>. HIDE DEF after
    <3>2. /\ Follows(after, table[h]) /\ after.inos[p] \in DOMAIN after.paths
          /\ after.paths[after.inos[p]] = p /\ after.inos[p] \in 0..(after.next - 1)
      BY <1>4, <3>4, InoFollows, InoDirFollows
    <3>3. FilesIno(after, after.inos[p])
      BY <1>4, <3>2 DEF FilesIno
    <3>5. TableMoves(h) /\ table'[h] = after
      BY <3>1, <3>2, Shapes
    <3>6. PICK i : i = after.inos[p]
      OBVIOUS
    <3>7. dentry' = [dentry EXCEPT ![h] = With(dentry[h], p, i)] /\ FilesIno(table'[h], i)
      BY <3>1, <3>3, <3>5, <3>6
    <3>8. DentryMoves(h)
      BY <3>7, Shapes
    <3>. QED
      BY <3>5, <3>8
  <2>2. CASE a.result # "Found"
    <3>1. table' = table /\ (dentry' = dentry
                             \/ dentry' = [dentry EXCEPT ![h] = Without(dentry[h], {p})])
      BY <1>3, <2>2 DEF LookedUp
    <3>. QED
      BY <3>1, Shapes
  <2>. QED
    BY <2>1, <2>2
<1>. QED
  BY <1>1, <1>2, <1>5, Shapes DEF Moves

\* A callback that is done.
LEMMA DoneMoves ==
  ASSUME Held, AllSeen, SoundTables, NEW h \in Device
  PROVE  /\ Done(h) => CallMoves(h)
         /\ \A c : call' = [call EXCEPT ![h] = c] /\ c.op \in {"none", "enlist"} => CallMoves(h)
<1>1. NoCall.op = "none"
  BY DEF NoCall
<1>. HIDE DEF NoCall
<1>2. \A c : call' = [call EXCEPT ![h] = c] /\ c.op \in {"none", "enlist"} => CallMoves(h)
  <2>. SUFFICES ASSUME NEW c, call' = [call EXCEPT ![h] = c], c.op \in {"none", "enlist"}
                PROVE  CallMoves(h)
    OBVIOUS
  <2>1. call'[h] = c /\ One(call', call, h)
    BY Shapes
  <2>. QED
    BY <2>1 DEF CallMoves
<1>. QED
  BY <1>1, <1>2 DEF Done

\* A device that is shown more.
LEMMA ShownMoves ==
  ASSUME AllSeen, NEW h \in Device, NEW x, shown' = [shown EXCEPT ![h] = shown[h] \cup x]
  PROVE  One(shown', shown, h) /\ shown'[h] = shown[h] \cup x
  BY DEF AllSeen, Ordered, One

\* The answers to what only looks.
LEMMA LookedMoves ==
  ASSUME Held, AllSeen, SoundTables, NEW h \in Device, NEW a,
         \/ LookedUp(h, a) \/ GotAttr(h, a) \/ GotListing(h, a) \/ GotData(h, a)
         \/ GotSize(h, a) \/ GotContent(h, a)
  PROVE  Moves(h) /\ known' = known
<1>1. CASE LookedUp(h, a)
  BY <1>1, LookedUpMoves DEF LookedUp
<1>2. CASE GotAttr(h, a)
  BY <1>2, Shapes, DoneMoves DEF GotAttr, Moves
<1>3. CASE GotListing(h, a)
  <2>1. PICK c : c = IF a.result = "Listing" /\ a.seen # {}
                     THEN [op |-> "enlist", todo |-> a.seen] ELSE NoCall
    OBVIOUS
  <2>2. CallMoves(h)
    <3>1. c.op \in {"none", "enlist"}
      BY <2>1 DEF NoCall
    <3>2. call' = [call EXCEPT ![h] = c]
      BY <1>3, <2>1 DEF GotListing
    <3>. QED
      BY <3>1, <3>2, DoneMoves
  <2>. QED
    BY <1>3, <2>2, Shapes DEF GotListing, Moves
<1>4. CASE GotData(h, a)
  <2>1. /\ UNCHANGED <<table, bufs, known, opened, dentry, edits, told>> /\ Done(h)
        /\ \E x : shown' = [shown EXCEPT ![h] = shown[h] \cup x]
    BY <1>4 DEF GotData
  <2>2. One(shown', shown, h) /\ shown[h] \subseteq shown'[h]
    BY <2>1, ShownMoves
  <2>3. HistoryMoves(h)
    <3>1. edits[h] \in Nat
      BY DEF AllSeen, Sends
    <3>. QED
      BY <2>1, <2>2, <3>1 DEF HistoryMoves, One, Aware
  <2>. QED
    BY <2>1, <2>3, Shapes, DoneMoves DEF Moves
<1>5. CASE GotSize(h, a)
  <2>0. PICK i : i = call[h].ino
    OBVIOUS
  <2>1. /\ UNCHANGED <<table, known, opened, dentry, shown, told>> /\ FilesIno(table'[h], i)
    BY <1>5, <2>0, OfItsFiles DEF GotSize
  <2>2. \/ Done(h) /\ UNCHANGED <<bufs, edits>>
        \/ /\ \E x, p : call' = [call EXCEPT ![h] = [op |-> "fetch", ino |-> i, path |-> p, size |-> x]]
           /\ UNCHANGED <<bufs, edits>>
        \/ Modify(h, i, {}) /\ Done(h)
    BY <1>5, <2>0 DEF GotSize
  <2>3. CASE Done(h) /\ UNCHANGED <<bufs, edits>>
    BY <2>1, <2>3, Shapes, DoneMoves DEF Moves
  <2>4. CASE /\ \E x, p : call' = [call EXCEPT ![h] = [op |-> "fetch", ino |-> i, path |-> p, size |-> x]]
             /\ UNCHANGED <<bufs, edits>>
    <3>0. PICK x, p : call' = [call EXCEPT ![h] =
                                 [op |-> "fetch", ino |-> i, path |-> p, size |-> x]]
      BY <2>4
    <3>1. PICK c : call' = [call EXCEPT ![h] = c] /\ c.op = "fetch" /\ c.ino = i
      <4>1. PICK c : c = [op |-> "fetch", ino |-> i, path |-> p, size |-> x]
        OBVIOUS
      <4>2. c.op = "fetch" /\ c.ino = i
        BY <4>1
      <4>. QED
        BY <3>0, <4>1, <4>2
    <3>2. call'[h] = c /\ One(call', call, h)
      BY <3>1, Shapes
    <3>3. CallMoves(h)
      BY <2>1, <3>1, <3>2 DEF CallMoves
    <3>. QED
      BY <2>1, <2>4, <3>3, Shapes DEF Moves
  <2>5. CASE Modify(h, i, {}) /\ Done(h)
    <3>1. BufsMove(h) /\ HistoryMoves(h)
      <4>1. PICK x : x = {}
        OBVIOUS
      <4>2. Modify(h, i, x) /\ x \subseteq Aware(h)' /\ One(shown', shown, h)
        BY <2>1, <2>5, <4>1 DEF One
      <4>. QED
        BY <2>1, <4>2, ModifyMoves
    <3>. QED
      BY <2>1, <2>5, <3>1, Shapes, DoneMoves DEF Moves
  <2>. QED
    BY <2>1, <2>2, <2>3, <2>4, <2>5
<1>6. CASE GotContent(h, a)
  <2>0. PICK i : i = call[h].ino
    OBVIOUS
  <2>1. /\ UNCHANGED <<table, known, opened, dentry, told>> /\ FilesIno(table'[h], i) /\ Done(h)
    BY <1>6, <2>0, OfItsFiles DEF GotContent
  <2>2. CASE a.result = "Data"
    <3>1. PICK part : Modify(h, i, part) /\ shown' = [shown EXCEPT ![h] = shown[h] \cup part]
      BY <1>6, <2>0, <2>2 DEF GotContent
    <3>2. One(shown', shown, h) /\ shown'[h] = shown[h] \cup part
      BY <3>1, ShownMoves
    <3>3. part \subseteq Aware(h)'
      BY <3>2 DEF Aware
    <3>4. BufsMove(h) /\ HistoryMoves(h)
      BY <2>1, <3>1, <3>2, <3>3, ModifyMoves
    <3>. QED
      BY <2>1, <3>4, Shapes, DoneMoves DEF Moves
  <2>3. CASE a.result # "Data"
    <3>1. UNCHANGED <<bufs, edits, shown>>
      BY <1>6, <2>3 DEF GotContent
    <3>. QED
      BY <2>1, <3>1, Shapes, DoneMoves DEF Moves
  <2>. QED
    BY <2>2, <2>3
<1>. QED
  BY <1>1, <1>2, <1>3, <1>4, <1>5, <1>6

\* What a merge has heard of, one of the two has.
LEMMA HeardOfOne ==
  ASSUME NEW a \in Clock, NEW b \in Clock, NEW w \in Device, NEW n \in Nat, n <= Merge(a, b)[w]
  PROVE  n <= a[w] \/ n <= b[w]
  BY DEF Merge, Larger, Clock

\* A clock that covers the version that is there comes with its content.
LEMMA OffersContent ==
  ASSUME NEW a, NEW p
  PROVE  IsFile(p) /\ Leq(disk[p].edit, a.clock) => disk[p].data \subseteq Offered(a, p)
  BY DEF Offered

\* A device that hears of a version knows it, or is told of it with the answer.
LEMMA LearnsTold ==
  ASSUME Held, AllSeen, FilesOriginal, NEW h \in Device, NEW p, NEW c, Learns(h, p, c),
         Aware(h) \subseteq Aware(h)',
         Mutating(h) => reply[h].result # "Error",
         ~Mutating(h) \/ reply[h].result \in {"Conflict", "Stale"}
           => Offered(reply[h], p) \subseteq Aware(h)',
         NEW q \in DOMAIN disk, NEW w \in Device, IsOriginal(q), Authored(q, w),
         disk[q].edit[w] <= KnownClock(h, q)'[w]
  PROVE  disk[q].data \subseteq Aware(h)'
<1>. DEFINE x == disk[q]
<1>1. Typed /\ LinkInv /\ q # Root /\ IsFile(q) /\ x.edit \in Clock
  BY NamesApart DEF Held, AllSeen, Ordered
<1>2. x.edit[w] \in Nat
  BY <1>1 DEF Clock
<1>3. /\ KnownClock(h, p)' = c /\ \A r : r # p => KnownClock(h, r)' = KnownClock(h, r)
      /\ pc[h] = "replied" /\ req[h].path = p
      /\ c = Merge(IF Mutating(h) THEN NextClock(h, p) ELSE KnownClock(h, p), reply[h].clock)
  BY <1>1, LearntClocks DEF Learns
<1>4. x.edit[w] <= KnownClock(h, q)[w] => x.data \subseteq Aware(h)'
  BY DEF Authored
<1>5. x.data \subseteq Aware(w)
  BY DEF Authored
<1>6. CASE q # p
  BY <1>3, <1>4, <1>6
<1>7. CASE q = p
  <2>1. PICK k : k = IF Mutating(h) THEN NextClock(h, p) ELSE KnownClock(h, p)
    OBVIOUS
  <2>2. /\ k \in Clock /\ reply[h].clock \in Clock
        /\ k[w] = KnownClock(h, p)[w] + (IF Mutating(h) /\ w = h THEN 1 ELSE 0)
        /\ KnownClock(h, p)[w] \in Nat
    <3>1. KnownClock(h, p) \in Clock /\ reply[h].clock \in Clock
      BY <1>1, ClocksAreClocks DEF LinkInv, AtHost
    <3>2. KnownClock(h, p)[w] \in Nat
      BY <3>1 DEF Clock
    <3>. QED
      BY <1>1, <2>1, <3>1, <3>2, NextCounts
  <2>3. x.edit[w] <= k[w] \/ x.edit[w] <= reply[h].clock[w]
    <3>1. x.edit[w] <= Merge(k, reply[h].clock)[w]
      BY <1>3, <1>7, <2>1
    <3>. HIDE DEF x
    <3>. QED
      BY <1>2, <2>2, <3>1, HeardOfOne
  <2>4. CASE x.edit[w] <= k[w]
    <3>1. CASE w = h
      BY <1>5, <3>1
    <3>2. CASE w # h
      BY <1>4, <1>7, <2>2, <2>4, <3>2
    <3>. QED
      BY <3>1, <3>2
  <2>5. CASE x.edit[w] <= reply[h].clock[w]
    <3>1. reply[h].clock \in Heard(q)
      BY <1>3, <1>7 DEF Heard
    <3>2. Leq(x.edit, reply[h].clock)
      BY <2>5, <3>1 DEF Authored
    <3>3. x.data \subseteq Offered(reply[h], p)
      <4>1. IsFile(p) /\ Leq(disk[p].edit, reply[h].clock)
        BY <1>1, <1>7, <3>2
      <4>2. disk[p].data \subseteq Offered(reply[h], p)
        BY <4>1, OffersContent
      <4>. QED
        BY <1>7, <4>2
    <3>4. CASE ~Mutating(h) \/ reply[h].result \in {"Conflict", "Stale"}
      BY <3>3, <3>4
    <3>5. CASE Mutating(h) /\ reply[h].result \notin {"Conflict", "Stale"}
      <4>1. reply[h].result \notin {"Conflict", "Stale", "Error"}
        BY <3>5
      <4>2. x.data \subseteq Aware(h)
        BY <1>3, <1>7, <2>5, <3>5, <4>1 DEF Authored
      <4>. QED
        BY <4>2
    <3>. QED
      BY <3>4, <3>5
  <2>. QED
    BY <2>3, <2>4, <2>5
<1>. QED
  BY <1>6, <1>7

\* An open that has the clock of its file.
LEMMA OpenSyncedSeen ==
  ASSUME Held, Held', AllSeen, SoundTables, FilesOriginal, NEW h \in Device, NEW a,
         Ends(h), UNCHANGED <<disk, lock>>,
         (a = Broken /\ ~Mutating(h)) \/ (a = reply[h] /\ pc[h] = "replied"),
         OpenSynced(h, a)
  PROVE  AllSeen'
<1>0. PICK p : p = call[h].path
  OBVIOUS
<1>1. /\ UNCHANGED <<table, bufs, dentry, edits, told>> /\ Done(h)
      /\ Opening(h, call[h].ino, call[h].mode) /\ FilesIno(table'[h], call[h].ino)
  BY OfItsFiles DEF OpenSynced
<1>2. Broken.result = "Error"
  BY AnswerFields DEF Broken
<1>3. ~Mutating(h) /\ req[h].path = p
  BY <1>0 DEF OpenSynced, Held, LinkInv, AtMount
<1>4. TableMoves(h) /\ BufsMove(h) /\ DentryMoves(h) /\ OpenedMoves(h) /\ CallMoves(h)
  BY <1>1, Shapes, DoneMoves
<1>5. CASE a.result = "Found"
  <2>0. PICK c : c = Merge(KnownClock(h, p), a.clock)
    OBVIOUS
  <2>1. /\ a = reply[h] /\ pc[h] = "replied" /\ Learn(h, p, c)
        /\ shown' = [shown EXCEPT ![h] = shown[h] \cup Offered(a, p)]
    BY <1>0, <1>2, <1>5, <2>0 DEF OpenSynced
  <2>2. Learns(h, p, c)
    BY <1>3, <2>0, <2>1 DEF Learns
  <2>3. One(shown', shown, h) /\ shown'[h] = shown[h] \cup Offered(a, p)
    BY <2>1, ShownMoves
  <2>4. HistoryMoves(h) /\ Offered(a, p) \subseteq Aware(h)' /\ Aware(h) \subseteq Aware(h)'
    <3>1. edits[h] \in Nat
      BY DEF AllSeen, Sends
    <3>. QED
      BY <1>1, <2>3, <3>1 DEF HistoryMoves, One, Aware
  <2>5. One(known', known, h)
    <3>1. DOMAIN known = Device
      BY DEF Held, Typed
    <3>. QED
      BY <2>2, <3>1, LearntClocks DEF One, Held
  <2>6. ASSUME NEW q \in DOMAIN disk, NEW w \in Device, IsOriginal(q), Authored(q, w),
               disk[q].edit[w] <= KnownClock(h, q)'[w]
        PROVE  disk[q].data \subseteq Aware(h)'
    BY <1>3, <2>1, <2>2, <2>4, <2>6, LearnsTold
  <2>7. Moves(h)
    BY <1>4, <2>4 DEF Moves
  <2>. QED
    BY <2>5, <2>6, <2>7, AnswerSeen
<1>6. CASE a.result # "Found"
  <2>1. UNCHANGED <<known, shown>>
    BY <1>6 DEF OpenSynced
  <2>2. Moves(h) /\ Aware(h)' = Aware(h)
    BY <1>1, <1>4, <2>1, Shapes DEF Moves
  <2>. QED
    BY <2>1, <2>2, KnownStays, AnswerSeen DEF One
<1>. QED
  BY <1>5, <1>6

\* The answer to a change.
LEMMA ChangedMoves ==
  ASSUME Held, AllSeen, SoundTables, NEW h \in Device, NEW a, WrittenBack(h, a) \/ Unlinked(h, a)
  PROVE  /\ Moves(h) /\ Aware(h) \subseteq Aware(h)'
         /\ a.result \in {"Conflict", "Stale"} => Offered(a, call[h].path) \subseteq Aware(h)'
<1>0. PICK p : p = call[h].path
  OBVIOUS
<1>1. /\ UNCHANGED <<table, opened, edits, shown>> /\ Done(h)
      /\ told' = [told EXCEPT ![h] = IF a.result \in {"Conflict", "Stale"}
                                     THEN told[h] \cup Offered(a, p) ELSE told[h]]
  BY <1>0 DEF WrittenBack, Unlinked
<1>2. DOMAIN told = Device /\ edits[h] \in Nat /\ DOMAIN bufs = Device
      /\ \A i \in DOMAIN bufs[h] : "data" \in DOMAIN bufs[h][i]
  BY DEF AllSeen, Ordered, Sends
<1>3. /\ One(told', told, h) /\ told[h] \subseteq told'[h]
      /\ a.result \in {"Conflict", "Stale"} => Offered(a, p) \subseteq told'[h]
  BY <1>1, <1>2 DEF One
<1>4. /\ HistoryMoves(h) /\ Aware(h) \subseteq Aware(h)'
      /\ a.result \in {"Conflict", "Stale"} => Offered(a, p) \subseteq Aware(h)'
  BY <1>1, <1>2, <1>3 DEF HistoryMoves, One, Aware
<1>5. TableMoves(h) /\ OpenedMoves(h) /\ CallMoves(h)
  BY <1>1, Shapes, DoneMoves
<1>6. DentryMoves(h) /\ BufsMove(h)
  <2>1. CASE WrittenBack(h, a)
    <3>1. dentry' = dentry
      BY <2>1 DEF WrittenBack
    <3>2. PICK i : i = call[h].ino
      OBVIOUS
    <3>3. \/ bufs' = [bufs EXCEPT ![h] = Without(bufs[h], {i})]
          \/ bufs' = [bufs EXCEPT ![h] = [bufs[h] EXCEPT ![i].dirty = FALSE]]
          \/ bufs' = [bufs EXCEPT ![h] = bufs[h]]
      BY <1>2, <2>1, <3>2 DEF WrittenBack
    <3>5. CASE bufs' = [bufs EXCEPT ![h] = bufs[h]]
      <4>1. bufs'[h] = bufs[h] /\ One(bufs', bufs, h)
        BY <1>2, <3>5 DEF One
      <4>. QED
        BY <1>2, <3>1, <4>1, Shapes DEF BufsMove
    <3>4. CASE bufs' = [bufs EXCEPT ![h] = [bufs[h] EXCEPT ![i].dirty = FALSE]]
      <4>1. bufs'[h] = [bufs[h] EXCEPT ![i].dirty = FALSE] /\ One(bufs', bufs, h)
        BY <1>2, <3>4 DEF One
      <4>2. DOMAIN bufs'[h] = DOMAIN bufs[h]
        BY <4>1
      <4>3. ASSUME NEW j \in DOMAIN bufs[h]
            PROVE  "data" \in DOMAIN bufs'[h][j] /\ bufs'[h][j].data = bufs[h][j].data
        <5>1. CASE j # i
          BY <1>2, <4>1, <5>1
        <5>2. CASE j = i
          <6>1. bufs'[h][j] = [bufs[h][j] EXCEPT !.dirty = FALSE]
            BY <4>1, <5>2
          <6>. QED
            BY <1>2, <6>1
        <5>. QED
          BY <5>1, <5>2
      <4>. QED
        BY <3>1, <4>1, <4>2, <4>3, Shapes DEF BufsMove
    <3>. QED
      BY <3>1, <3>3, <3>4, <3>5, Shapes
  <2>2. CASE Unlinked(h, a)
    <3>1. bufs' = bufs \/ \E s : bufs' = [bufs EXCEPT ![h] = Without(bufs[h], s)]
      BY <2>2 DEF Unlinked
    <3>2. dentry' = dentry \/ \E s : dentry' = [dentry EXCEPT ![h] = Without(dentry[h], s)]
      BY <2>2 DEF Unlinked
    <3>. QED
      BY <3>1, <3>2, Shapes
  <2>. QED
    BY <2>1, <2>2
<1>. QED
  BY <1>0, <1>4, <1>5, <1>6 DEF Moves

\* The answer to a change.
LEMMA ChangedSeen ==
  ASSUME Held, Held', AllSeen, SoundTables, FilesOriginal, NEW h \in Device, NEW a,
         Ends(h), UNCHANGED <<disk, lock>>,
         (a = Broken /\ ~Mutating(h)) \/ (a = reply[h] /\ pc[h] = "replied"),
         WrittenBack(h, a) \/ Unlinked(h, a)
  PROVE  AllSeen'
<1>0. PICK p : p = call[h].path
  OBVIOUS
<1>1. AtMount(h)
  BY DEF Held, LinkInv
<1>2. /\ Mutating(h) /\ a = reply[h] /\ pc[h] = "replied"
      /\ req[h].path = p /\ req[h].clock = NextClock(h, p)
  BY <1>0, <1>1 DEF AtMount, WrittenBack, Unlinked
<1>3. /\ Moves(h) /\ Aware(h) \subseteq Aware(h)'
      /\ a.result \in {"Conflict", "Stale"} => Offered(a, p) \subseteq Aware(h)'
  BY <1>0, ChangedMoves
<1>4. CASE a.result = "Error"
  <2>1. known' = known
    BY <1>4 DEF WrittenBack, Unlinked
  <2>. QED
    BY <1>3, <2>1, KnownStays, AnswerSeen DEF One
<1>5. CASE a.result # "Error"
  <2>0. PICK c : c = Merge(NextClock(h, p), a.clock)
    OBVIOUS
  <2>1. Learn(h, p, c)
    BY <1>0, <1>2, <1>5, <2>0 DEF WrittenBack, Unlinked
  <2>2. Learns(h, p, c)
    BY <1>2, <2>0, <2>1 DEF Learns
  <2>3. One(known', known, h)
    <3>1. DOMAIN known = Device
      BY DEF Held, Typed
    <3>. QED
      BY <2>2, <3>1, LearntClocks DEF One, Held
  <2>4. ASSUME NEW q \in DOMAIN disk, NEW w \in Device, IsOriginal(q), Authored(q, w),
               disk[q].edit[w] <= KnownClock(h, q)'[w]
        PROVE  disk[q].data \subseteq Aware(h)'
    BY <1>2, <1>3, <1>5, <2>2, <2>4, LearnsTold
  <2>. QED
    BY <1>3, <2>3, <2>4, AnswerSeen
<1>. QED
  BY <1>4, <1>5

\* All the answers.
LEMMA ProceedSeen ==
  ASSUME Held, Held', AllSeen, SoundTables, FilesOriginal, NEW h \in Device, NEW a,
         Ends(h), UNCHANGED <<disk, lock>>,
         (a = Broken /\ ~Mutating(h)) \/ (a = reply[h] /\ pc[h] = "replied"), Proceed(h, a)
  PROVE  AllSeen'
<1>1. ~Renamed(h, a)
  BY DEF Held, LinkInv, AtMount, Renamed
<1>2. CASE OpenSynced(h, a)
  BY <1>2, OpenSyncedSeen
<1>3. CASE WrittenBack(h, a) \/ Unlinked(h, a)
  BY <1>3, ChangedSeen
<1>4. CASE \/ LookedUp(h, a) \/ GotAttr(h, a) \/ GotListing(h, a) \/ GotData(h, a)
           \/ GotSize(h, a) \/ GotContent(h, a)
  <2>1. Moves(h) /\ known' = known
    BY <1>4, LookedMoves
  <2>2. Aware(h) \subseteq Aware(h)'
    BY <2>1 DEF Moves, HistoryMoves
  <2>. QED
    BY <2>1, <2>2, KnownStays, AnswerSeen DEF One
<1>. QED
  BY <1>1, <1>2, <1>3, <1>4 DEF Proceed

\* The content of a file of that size is asked for.
LEMMA FetchSeen ==
  ASSUME Held, Held', AllSeen, SoundTables, FilesOriginal, NEW h \in Device, Fetch(h)
  PROVE  AllSeen'
<1>1. PICK c : c = [op |-> "load", ino |-> call[h].ino, path |-> call[h].path,
                    size |-> call[h].size]
  OBVIOUS
<1>2. PICK r : r = Looking("read", call[h].path)
  OBVIOUS
<1>3. /\ Ask(h, c, r) /\ UNCHANGED <<table, opened, known, bufs, dentry, edits, shown, told>>
      /\ call[h].op = "fetch"
  BY <1>1, <1>2 DEF Fetch, history
<1>4. OfFiles(h, c.ino) /\ c.op = "load"
  BY <1>1, <1>3 DEF AllSeen, Ordered, AsksFiles
<1>5. r.op = "read"
  BY <1>2 DEF Looking
<1>. QED
  BY <1>3, <1>4, <1>5, AskingSeen DEF Mutation

\* An entry of a listing gets an inode.
LEMMA EnlistSeen ==
  ASSUME Held, Held', AllSeen, SoundTables, FilesOriginal, NEW h \in Device, NEW p, Enlist(h, p)
  PROVE  AllSeen'
<1>1. PICK c : c = IF call[h].todo = {p} THEN NoCall
                   ELSE [call[h] EXCEPT !.todo = call[h].todo \ {p}]
  OBVIOUS
<1>2. /\ UNCHANGED <<vars, known, bufs, opened, dentry, edits, shown, told>>
      /\ call' = [call EXCEPT ![h] = c] /\ call[h].op = "enlist"
      /\ table' = [table EXCEPT ![h] = InoForPath(table[h], p)]
  BY <1>1 DEF Enlist, history
<1>3. AtMount(h)
  BY DEF Held, LinkInv
<1>4. ~Mutating(h) /\ "op" \in DOMAIN call[h]
  BY <1>2, <1>3 DEF AtMount
<1>5. c.op \in {"none", "enlist"}
  BY <1>1, <1>2, <1>4 DEF NoCall
<1>6. CallMoves(h)
  BY <1>2, <1>5, DoneMoves
<1>7. TableMoves(h)
  BY <1>2, InoFollows, Shapes DEF SoundTables
<1>8. Moves(h)
  BY <1>2, <1>6, <1>7, Shapes DEF Moves
<1>. QED
  BY <1>2, <1>4, <1>8, AloneSeen

\* What a mount does with an answer or without one.
LEMMA ResumeSeen ==
  ASSUME Held, Held', AllSeen, SoundTables, FilesOriginal, NEW h \in Device,
         Resume(h) \/ Unanswered(h), Whole'
  PROVE  AllSeen'
<1>1. CASE Hear(h) /\ Proceed(h, reply[h])
  BY <1>1, HearEnds, EndsPlain, ProceedSeen
<1>2. CASE Unanswered(h)
  BY <1>2, BreakEnds, EndsPlain, ProceedSeen DEF Unanswered
<1>3. CASE Fetch(h)
  BY <1>3, FetchSeen
<1>4. ASSUME NEW p, Enlist(h, p) PROVE AllSeen'
  BY <1>4, EnlistSeen
<1>. QED
  BY <1>1, <1>2, <1>3, <1>4 DEF Resume

-----------------------------------------------------------------------------
(* The edits are always accounted for.                                      *)

\* The death of a mount.
LEMMA RemountSeen ==
  ASSUME Held, Held', AllSeen, SoundTables, FilesOriginal, NEW h \in Device, Remount(h), Whole'
  PROVE  AllSeen'
<1>1. /\ table' = [table EXCEPT ![h] = NewTable] /\ bufs' = [bufs EXCEPT ![h] = EmptyMap]
      /\ call' = [call EXCEPT ![h] = NoCall] /\ opened' = [opened EXCEPT ![h] = EmptyBag]
      /\ dentry' = [dentry EXCEPT ![h] = EmptyMap]
      /\ UNCHANGED <<known, edits, shown, told>>
  BY DEF Remount
<1>2. /\ DOMAIN bufs = Device /\ DOMAIN opened = Device /\ DOMAIN dentry = Device
      /\ DOMAIN table = Device /\ DOMAIN call = Device /\ edits[h] \in Nat
  BY DEF AllSeen, Ordered, Held, Typed, SoundTables, Sends
<1>3. NoCall.op = "none" /\ DOMAIN EmptyMap = {} /\ DOMAIN EmptyBag = {}
  BY OpenFiles DEF NoCall, EmptyMap
<1>. HIDE DEF NoCall, EmptyMap, EmptyBag
<1>4. Alone(h)
  BY <1>1, <1>2 DEF Alone, One
<1>5. Aware(h)' = Aware(h)
  BY <1>1 DEF Aware
<1>6. /\ DOMAIN bufs'[h] = {} /\ DOMAIN dentry'[h] = {} /\ DOMAIN opened'[h] = {}
      /\ call'[h].op = "none"
  BY <1>1, <1>2, <1>3
<1>7. CASE Break(h)
  <2>1. Ends(h) /\ UNCHANGED <<disk, lock>>
    BY <1>7, EndsPlain
  <2>2. req'[h] = NoRequest
    <3>1. req' = [req EXCEPT ![h] = NoRequest] /\ DOMAIN req = Device
      BY <2>1 DEF Ends, Forget, Held, Typed
    <3>. QED
      BY <3>1
  <2>3. req'[h].op = "none"
    BY <2>2 DEF NoRequest
  <2>4. AsksFiles(h)'
    BY <1>6, <2>3 DEF AsksFiles, Mutating, Mutation
  <2>5. Carries(h)
    BY <1>1, <1>2, <1>5, <1>6, <2>3 DEF Carries
  <2>. QED
    BY <1>1, <1>4, <1>5, <2>1, <2>4, <2>5, KnownStays, EndSeen
<1>8. CASE pc[h] = "idle" /\ UNCHANGED <<vars, cut>>
  <2>1. ~Mutating(h) /\ req' = req
    BY <1>8, OnlyChangesLock DEF vars
  <2>2. AsksFiles(h)'
    BY <1>6, <2>1 DEF AsksFiles, Mutating
  <2>3. Carries(h)
    BY <1>1, <1>2, <1>5, <1>6, <2>1 DEF Carries
  <2>. QED
    BY <1>1, <1>4, <1>8, <2>1, <2>2, <2>3, LocalSeen
<1>. QED
  BY <1>7, <1>8 DEF Remount

\* What the mounts do leaves the directory alone.
LEMMA MountsKeepFiles ==
  ASSUME Held, NEW h \in Device, Whole',
         \/ Browse(h, Files) \/ Use(h, Files) \/ Close(h) \/ Remove(h, Files)
         \/ Resume(h) \/ Unanswered(h) \/ Remount(h)
  PROVE  disk' = disk
<1>1. ASSUME NEW c, NEW r, Ask(h, c, r) PROVE disk' = disk
  BY <1>1 DEF Ask, Submit
<1>2. ASSUME UNCHANGED vars PROVE disk' = disk
  BY <1>2 DEF vars
<1>3. ASSUME Browse(h, Files) PROVE disk' = disk
  BY <1>1, <1>2, <1>3 DEF Browse, Lookup, GetAttr, ReadDir, Read
<1>4. ASSUME Use(h, Files) PROVE disk' = disk
  BY <1>1, <1>2, <1>4 DEF Use, Open, Create, Write, Truncate, FSync, WriteBack
<1>5. ASSUME Close(h) \/ Remove(h, Files) PROVE disk' = disk
  BY <1>1, <1>2, <1>5 DEF Close, Release, WriteBack, Remove, Unlink, Rename
<1>6. ASSUME Resume(h) \/ Unanswered(h) \/ Remount(h) PROVE disk' = disk
  BY <1>1, <1>2, <1>6, EndsPlain DEF Resume, Unanswered, Remount, Fetch, Enlist
<1>. QED
  BY <1>3, <1>4, <1>5, <1>6

\* Every step leaves the edits accounted for, and takes none away that its
\* device does not know of.
LEMMA NextSeen ==
  ASSUME Held, Held', AllSeen, SoundTables, FilesOriginal, [MountNext]_all, Whole'
  PROVE  AllSeen' /\ LostIsKnown
<1>1. CASE UNCHANGED all
  <2>1. UNCHANGED <<disk, clocks, tombs, lock, pc, req, plan, reply, table, bufs, known, call,
                    opened, dentry, edits, shown, told, now>>
    BY <1>1 DEF all, vars, store, rpc, mount, history
  <2>2. now' # 0
    BY <2>1 DEF AllSeen, Ordered
  <2>3. LostIsKnown
    BY <2>1, KeptStay DEF LostIsKnown, SameFiles, SameFile
  <2>. QED
    BY <2>1, <2>2, <2>3, NothingSeen
<1>2. CASE HostStep
  BY <1>2, HostSeen
<1>3. ASSUME NEW h \in Device, \/ Browse(h, Files) \/ Use(h, Files) \/ Close(h)
             \/ Remove(h, Files) \/ Resume(h) \/ Unanswered(h) \/ Remount(h)
      PROVE  AllSeen' /\ LostIsKnown
  <2>1. AllSeen'
    BY <1>3, BrowseSeen, UseSeen, CloseSeen, RemoveSeen, ResumeSeen, RemountSeen
  <2>2. disk' = disk
    BY <1>3, MountsKeepFiles
  <2>3. LostIsKnown
    BY <2>2, KeptStay DEF LostIsKnown, SameFiles, SameFile
  <2>. QED
    BY <2>1, <2>3
<1>. QED
  BY <1>1, <1>2, <1>3 DEF MountNext

\* Before anything has happened there is nothing to account for.
LEMMA InitSeen == FilesOriginal /\ MountInit => AllSeen
<1>. SUFFICES ASSUME MountInit PROVE AllSeen
  OBVIOUS
<1>1. /\ NoRequest.op = "none" /\ NoCall.op = "none"
      /\ DOMAIN EmptyMap = {} /\ DOMAIN EmptyBag = {}
  BY OpenFiles DEF NoRequest, NoCall, EmptyMap
<1>2. /\ DOMAIN disk = {Root} \cup Served
      /\ \A p \in DOMAIN disk : disk[p] = IF p = Root THEN Dir ELSE File(EmptyClock, NoData)
      /\ \A d \in Device : pc[d] = "idle" /\ req[d] = NoRequest
      /\ clocks = EmptyMap /\ tombs = EmptyMap /\ now = 1
  BY DEF MountInit, Init
<1>. HIDE DEF NoRequest, NoCall, EmptyMap, EmptyBag
<1>3. \A p \in DOMAIN disk \ {Root} :
        /\ Len(p) = 1 /\ IsFile(p) /\ disk[p].edit = EmptyClock /\ disk[p].data = {}
    <2>1. File(EmptyClock, NoData).kind = "file" /\ File(EmptyClock, NoData).edit = EmptyClock
          /\ File(EmptyClock, NoData).data = {}
      BY DEF File, NoData
    <2>. QED
      BY <1>2, <2>1, ServedAssumption DEF IsFile, Exists
<1>4. \A d \in Device : ~Mutating(d) /\ req[d].op # "stream"
  BY <1>1, <1>2 DEF Mutating, Mutation
<1>5. /\ bufs = [d \in Device |-> EmptyMap] /\ call = [d \in Device |-> NoCall]
      /\ opened = [d \in Device |-> EmptyBag] /\ dentry = [d \in Device |-> EmptyMap]
      /\ edits = [d \in Device |-> 0]
      /\ shown = [d \in Device |-> {}] /\ told = [d \in Device |-> {}]
  BY DEF MountInit
<1>6. \A d \in Device : AsksFiles(d)
  BY <1>1, <1>4, <1>5 DEF AsksFiles
<1>7. Ordered
  BY <1>2, <1>3, <1>5, <1>6, EmptyClockType DEF Ordered
<1>8. ASSUME NEW d \in Device PROVE Sends(d) /\ Delivered(d)
  BY <1>1, <1>2, <1>4, <1>5 DEF Sends, Delivered, HasStaged
<1>9. ASSUME NEW p \in DOMAIN disk \ {Root} PROVE Accounted(p)
  <2>1. LiveClock(p) = EmptyClock /\ ~Tombed(p)
    BY <1>1, <1>2 DEF LiveClock, TombClock, ClockIn, Tombed
  <2>2. Leq(EmptyClock, EmptyClock)
    BY DEF Leq, EmptyClock
  <2>. QED
    BY <1>3, <2>1, <2>2 DEF Accounted
<1>. QED
  BY <1>2, <1>7, <1>8, <1>9 DEF AllSeen, Entrusted

\* The edits are always accounted for.
LEMMA SeenAlways == ASSUME FilesOriginal PROVE MountSpec => []SeenInv
<1>1. AllSeen <=> /\ Ordered
                  /\ \A d \in Device : Sends(d) /\ Delivered(d) /\ (pc[d] = "locked" => Works(d))
                  /\ \A p \in DOMAIN disk \ {Root} : Accounted(p)
  BY DEF AllSeen, Entrusted
<1>2. SeenInv <=> (Whole => AllSeen)
  BY <1>1 DEF SeenInv
<1>3. MountInit => SeenInv
  BY <1>2, InitSeen
<1>4. SeenInv /\ AheadInv /\ AheadInv' /\ SoundTables /\ [MountNext]_all => SeenInv'
  <2>. SUFFICES ASSUME SeenInv, AheadInv, AheadInv', SoundTables, [MountNext]_all, Whole'
                PROVE  AllSeen'
    BY DEF SeenInv, AllSeen, Entrusted
  <2>1. Whole /\ Held /\ Held' /\ AllSeen
    BY <1>2, WholeBefore DEF AheadInv, Held
  <2>. QED
    BY <2>1, NextSeen
<1>. QED
  BY <1>3, <1>4, AheadAlways, TablesSound, PTL DEF MountSpec

\* An edit that has been saved goes from the host only with a change of a device
\* that made it, was shown it or was told of the conflict with it, for any
\* devices and original files, any callbacks in any order and mounts that die:
\* the clocks that mounts keep, adopt and send, the plans of the host and their
\* order (host.rs, write_file_stream, delete_file; filesystem.rs, open,
\* flush_buffer).  Lost replies to changes and renamed paths are left aside.
THEOREM NothingLostUnseen == ASSUME FilesOriginal PROVE MountSpec => NoUnseenLoss
<1>. DEFINE Loss == Whole /\ Whole' =>
                      \A x \in Kept \ Kept' : \E d \in Device : lock = d /\ x \in Aware(d)
<1>1. SeenInv /\ AheadInv /\ AheadInv' /\ SoundTables /\ [MountNext]_all => [Loss]_all
  <2>. SUFFICES ASSUME SeenInv, AheadInv, AheadInv', SoundTables, [MountNext]_all, Whole, Whole'
                PROVE  LostIsKnown
    BY DEF LostIsKnown
  <2>1. Held /\ Held' /\ AllSeen
    BY DEF AheadInv, Held, SeenInv, AllSeen, Entrusted
  <2>. QED
    BY <2>1, NextSeen
<1>. QED
  BY <1>1, SeenAlways, AheadAlways, TablesSound, PTL DEF MountSpec, NoUnseenLoss

\* A step of one mount leaves the callbacks of the others.
LEMMA OwnCall ==
  ASSUME NEW h \in Device,
         \/ Browse(h, Files) \/ Use(h, Files) \/ Close(h) \/ Remove(h, Files)
         \/ Resume(h) \/ Unanswered(h) \/ Remount(h)
  PROVE  \A e \in DOMAIN call \ {h} : call'[e] = call[e]
<1>1. SUFFICES ASSUME TRUE PROVE call' = call \/ \E c : call' = [call EXCEPT ![h] = c]
  OBVIOUS
<1>2. \A c, r : Ask(h, c, r) => call' = [call EXCEPT ![h] = c]
  BY DEF Ask
<1>3. CASE Browse(h, Files)
  BY <1>2, <1>3 DEF Browse, Lookup, GetAttr, ReadDir, Read
<1>4. CASE Use(h, Files)
  BY <1>2, <1>4 DEF Use, Open, Create, Write, Truncate, FSync, WriteBack
<1>5. CASE Close(h) \/ Remove(h, Files)
  BY <1>2, <1>5 DEF Close, Release, WriteBack, Remove, Unlink, Rename
<1>6. ASSUME NEW a, Proceed(h, a) PROVE \E c : call' = [call EXCEPT ![h] = c]
  <2>1. CASE \/ LookedUp(h, a) \/ GotAttr(h, a) \/ GotListing(h, a) \/ GotData(h, a)
             \/ OpenSynced(h, a)
    BY <2>1 DEF LookedUp, GotAttr, GotListing, GotData, OpenSynced, Done
  <2>2. CASE GotSize(h, a)
    BY <2>2 DEF GotSize, Done
  <2>3. CASE GotContent(h, a) \/ WrittenBack(h, a) \/ Unlinked(h, a) \/ Renamed(h, a)
    BY <2>3 DEF GotContent, WrittenBack, Unlinked, Renamed, Done
  <2>. QED
    BY <1>6, <2>1, <2>2, <2>3 DEF Proceed
<1>7. CASE Resume(h) \/ Unanswered(h) \/ Remount(h)
  BY <1>2, <1>6, <1>7 DEF Resume, Unanswered, Remount, Fetch, Enlist
<1>. QED
  BY <1>3, <1>4, <1>5, <1>7

\* Without a lost reply, a write-back is over only with the answer of the host.
LEMMA SavedWhenAnswered ==
  ASSUME Held, Whole, [MountNext]_all, NEW d \in Device, WrittenBackWell(d)
  PROVE  pc[d] = "replied" /\ req[d].op = "stream"
<1>1. /\ AtMount(d) /\ AtHost(d) /\ DOMAIN call = Device
      /\ call[d].op \in {"release", "fsync"} /\ call'[d] = NoCall /\ cut' = cut
  BY DEF Held, Typed, LinkInv, WrittenBackWell
<1>2. NoCall.op = "none"
  BY DEF NoCall
<1>. HIDE DEF NoCall
<1>3. Mutating(d) /\ req[d].op = "stream" /\ call[d] # NoCall /\ pc[d] # "idle"
  BY <1>1, <1>2, OnlyChangesLock DEF AtMount
<1>4. PICK h \in Device : \/ Browse(h, Files) \/ Use(h, Files) \/ Close(h) \/ Remove(h, Files)
                          \/ Resume(h) \/ Unanswered(h) \/ Remount(h)
  <2>1. call' # call
    BY <1>1, <1>3
  <2>2. ~HostStep /\ ~UNCHANGED all
    BY <2>1 DEF HostStep, all, mount
  <2>. QED
    BY <2>2 DEF MountNext
<1>5. h = d
  BY <1>1, <1>3, <1>4, OwnCall
<1>6. ~Ready(d)
  BY <1>3 DEF Ready
<1>7. ~Browse(d, Files) /\ ~Use(d, Files) /\ ~Close(d) /\ ~Remove(d, Files)
  BY <1>6 DEF Browse, Lookup, GetAttr, ReadDir, Read, Use, Open, Create, Write, Truncate, FSync,
              Close, Release, Remove, Unlink, Rename
<1>8. ~Break(d)
  BY <1>1, <1>3 DEF Break, Whole
<1>9. Hear(d)
  BY <1>1, <1>3, <1>4, <1>5, <1>7, <1>8 DEF Resume, Unanswered, Remount, Fetch, Enlist
<1>. QED
  BY <1>3, <1>9 DEF Hear, Return

\* When release or fsync returns without an error, every edit that was in the
\* buffer is in a file or a conflict copy at the host, or was replaced by a
\* device that knew of it, whatever other devices have done since the host
\* answered; and no such write is ever answered STALE (flush_buffer).
THEOREM SavedStaysStored == ASSUME FilesOriginal PROVE MountSpec => SavedIsStored
<1>. DEFINE Saved == \A d \in Device :
                       Whole /\ WrittenBackWell(d) => \A x \in req[d].data : Preserved(d, x)
<1>1. SeenInv /\ AheadInv /\ [MountNext]_all => [Saved]_all
  <2>. SUFFICES ASSUME SeenInv, AheadInv, [MountNext]_all, Whole,
                       NEW d \in Device, WrittenBackWell(d)
                PROVE  \A x \in req[d].data : Preserved(d, x)
    OBVIOUS
  <2>1. Held /\ Delivered(d)
    BY DEF AheadInv, Held, SeenInv
  <2>2. pc[d] = "replied" /\ req[d].op = "stream"
    BY <2>1, SavedWhenAnswered
  <2>3. reply[d].result \in {"Applied", "Conflict", "Stale"}
    BY DEF WrittenBackWell
  <2>. QED
    BY <2>1, <2>2, <2>3 DEF Delivered
<1>. QED
  BY <1>1, SeenAlways, AheadAlways, PTL DEF MountSpec, SavedIsStored
=============================================================================
