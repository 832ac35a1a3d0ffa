------------------------------- MODULE DurableMap -------------------------------
(***************************************************************************)
(* What a store promises to the handlers that use it: a map that they read *)
(* in memory and that a restart finds again.  A call changes the map, and  *)
(* what it has changed is stored before the call returns; when it fails,   *)
(* its changes may be stored later or not at all; when the process dies, a *)
(* first part of them is.                                                  *)
(***************************************************************************)
EXTENDS Naturals, Sequences

CONSTANTS Key, Value, NoValue

VARIABLES
  up,      \* the store is open
  live,    \* the map that is read
  stored,  \* the map that a restart finds
  todo     \* the changes of the call in progress, in their order

dvars == <<up, live, stored, todo>>

Slot == Value \cup {NoValue}

\* The changes about k in cs.
About(cs, k) == {i \in DOMAIN cs : cs[i].k = k}

\* m, once the changes are made: of those about one key the last counts.
Apply(m, cs) ==
  [k \in Key |-> IF About(cs, k) = {} THEN m[k]
                 ELSE cs[CHOOSE i \in About(cs, k) : \A h \in About(cs, k) : h <= i].v]

Init ==
  /\ up = FALSE
  /\ live = [k \in Key |-> NoValue] /\ stored = [k \in Key |-> NoValue]
  /\ todo = <<>>

\* A call changes the map.
Change ==
  /\ up /\ todo = <<>>
  /\ todo' # <<>>
  /\ \A i \in DOMAIN todo' : todo'[i].k \in Key /\ todo'[i].v \in Slot
  /\ live' = Apply(live, todo')
  /\ UNCHANGED <<up, stored>>

\* Its changes are stored.
Commit ==
  /\ up /\ todo # <<>>
  /\ stored' = Apply(stored, todo)
  /\ todo' = <<>>
  /\ UNCHANGED <<up, live>>

\* They are not, and the call fails.
Fail ==
  /\ up /\ todo # <<>>
  /\ todo' = <<>>
  /\ UNCHANGED <<up, live, stored>>

\* What an earlier call failed to store is stored, under some of its keys.
Settle ==
  /\ up /\ todo = <<>>
  /\ \E K \in SUBSET Key : stored' = [k \in Key |-> IF k \in K THEN live[k] ELSE stored[k]]
  /\ UNCHANGED <<up, live, todo>>

\* The process dies, and a first part of the changes is stored.
Crash ==
  /\ up /\ up' = FALSE
  /\ \E n \in 0..Len(todo) : stored' = Apply(stored, SubSeq(todo, 1, n))
  /\ todo' = <<>>
  /\ live' = live

Open ==
  /\ ~up /\ up' = TRUE
  /\ live' = stored
  /\ UNCHANGED <<stored, todo>>

Next == Change \/ Commit \/ Fail \/ Settle \/ Crash \/ Open

Spec == Init /\ [][Next]_dvars
===============================================================================
