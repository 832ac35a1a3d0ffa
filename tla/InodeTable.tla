------------------------------ MODULE InodeTable ------------------------------
(***************************************************************************)
(* The inode table of a mount (crates/fs/src/filesystem.rs): two maps that *)
(* are meant to be inverses, bounded by a least-recently-used cache, and   *)
(* the set of paths once seen as directories.  Every operation is an       *)
(* operator on a table; the root is handled outside it.                    *)
(***************************************************************************)
EXTENDS Maps, Naturals, Sequences, FiniteSets

CONSTANT Capacity   \* DEFAULT_INODE_CAP

ASSUME CapacityAssumption == Capacity \in Nat \ {0}

\* paths is path_by_ino and recent the order of its LRU, oldest first; inos is
\* ino_by_path.
NewTable == [next |-> 2, paths |-> EmptyMap, inos |-> EmptyMap, recent |-> <<>>, dirs |-> {}]

\* The order without i, which is in it at most once.
Dropped(s, i) ==
  IF \E k \in DOMAIN s : s[k] = i
  THEN LET k == CHOOSE k \in DOMAIN s : s[k] = i
       IN [j \in 1..(Len(s) - 1) |-> IF j < k THEN s[j] ELSE s[j + 1]]
  ELSE s

\* LruCache::get: what is there becomes the most recent.
Touch(t, i) ==
  IF i \in DOMAIN t.paths THEN [t EXCEPT !.recent = Append(Dropped(@, i), i)] ELSE t

\* LruCache::pop
Pop(t, i) == [t EXCEPT !.paths = Without(@, {i}), !.recent = Dropped(@, i)]

\* A bug: nothing is evicted.
PushOver(t, i, p) == [t EXCEPT !.paths = With(@, i, p), !.recent = Append(@, i)]

\* LruCache::push of a key that is not there: at capacity the oldest goes.
Push(t, i, p) ==
  LET room == IF Cardinality(DOMAIN t.paths) < Capacity THEN t ELSE Pop(t, Head(t.recent))
  IN [room EXCEPT !.paths = With(@, i, p), !.recent = Append(@, i)]

\* A bug: the reverse index keeps the path of an evicted inode.
InsertKeepingIndex(t, i, p) == Push([t EXCEPT !.inos = With(@, p, i)], i, p)

\* The path of an evicted inode leaves the reverse index too.
Insert(t, i, p) ==
  LET pushed  == Push([t EXCEPT !.inos = With(@, p, i)], i, p)
      evicted == DOMAIN t.paths \ DOMAIN pushed.paths
      gone    == {t.paths[j] : j \in {j \in evicted : /\ t.paths[j] \in DOMAIN pushed.inos
                                                      /\ pushed.inos[t.paths[j]] = j}}
  IN [pushed EXCEPT !.inos = Without(@, gone), !.dirs = @ \ gone]

\* ino_for_path: afterwards the table has an inode for p.
InoForPath(t, p) ==
  IF p \in DOMAIN t.inos
  THEN Touch(t, t.inos[p])
  ELSE Insert([t EXCEPT !.next = @ + 1], t.next, p)

TrackDir(t, p) == [t EXCEPT !.dirs = @ \cup {p}]

\* rename_path: the inode goes along; that of the new path is dropped.
RenamePath(t, old, new) ==
  IF old \notin DOMAIN t.inos THEN t
  ELSE LET i      == t.inos[old]
           others == Without(t.inos, {old})
           freed  == IF new \in DOMAIN others THEN Pop(t, others[new]) ELSE t
           moved  == [freed EXCEPT !.inos = With(others, new, i)]
       IN IF i \in DOMAIN moved.paths
          THEN [Touch(moved, i) EXCEPT !.paths[i] = new]
          ELSE Push(moved, i, new)

\* The two maps are inverses of each other, and new inodes are new.
Agrees(t) ==
  /\ \A p \in DOMAIN t.inos : t.inos[p] \in DOMAIN t.paths /\ t.paths[t.inos[p]] = p
  /\ \A i \in DOMAIN t.paths : t.paths[i] \in DOMAIN t.inos /\ t.inos[t.paths[i]] = i
  /\ t.next \in Nat
  /\ \A i \in DOMAIN t.paths : i \in Nat /\ i < t.next

\* The table keeps to its capacity, and the LRU has each inode once.
Bounded(t) ==
  /\ Cardinality(DOMAIN t.paths) <= Capacity
  /\ Len(t.recent) = Cardinality(DOMAIN t.paths)
  /\ {t.recent[k] : k \in DOMAIN t.recent} = DOMAIN t.paths
===============================================================================
