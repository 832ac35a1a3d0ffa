------------------------------ MODULE MigrateProofs ------------------------------
(***************************************************************************)
(* What an import keeps, for any number of devices, keys, edits and        *)
(* snapshots: nothing is lost without being reported, and nothing becomes  *)
(* unreadable.                                                             *)
(*                                                                         *)
(* For the JNI layer both rest on the clocks of a snapshot and of the       *)
(* device that imports it being concurrent unless the snapshot is the      *)
(* device's own: resolve then never takes the remote keys wholesale.  A    *)
(* device counts for itself only, since an import does not move its clock. *)
(* Of the clock that an application exports nothing is assumed.            *)
(***************************************************************************)
EXTENDS Migrate, VectorClockProofs

Content == [value : SUBSET Nat, policy : Policy, version : Nat]

IsState(f) == DOMAIN f \subseteq Key /\ \A k \in DOMAIN f : f[k] \in Content

Typed ==
  /\ clock \in [Node -> Clock] /\ edits \in Nat
  /\ DOMAIN store = Node /\ \A d \in Node : IsState(store[d])
  /\ DOMAIN regs = Node
  /\ \A d \in Node : \A k \in DOMAIN regs[d] : regs[d][k] \in Registration
  /\ \A s \in sent : s.by \in Node /\ s.clock \in Clock /\ IsState(s.keys)

\* Every clock counts for one device; one that has registered something has
\* counted; and what a device of the JNI layer has exported is not ahead of it
\* while its process lives.
OwnOnly ==
  /\ \A d \in Node : \A e \in Device \ {d} : clock[d][e] = 0
  /\ \A d \in Node : regs[d] # EmptyMap => clock[d][d] > 0
  /\ \A s \in sent : s.clock[s.by] > 0 /\ \A e \in Device \ {s.by} : s.clock[e] = 0
  /\ \A s \in sent : s.by \in Jni \ restarted => s.by \in up /\ s.clock[s.by] <= clock[s.by][s.by]

MigrateInv == Typed /\ OwnOnly

-----------------------------------------------------------------------------
(* The clocks.                                                              *)

\* To a device of the JNI layer a snapshot of another one is concurrent, and its
\* own is not ahead of it.
LEMMA SnapshotOrder ==
  ASSUME MigrateInv, NEW d \in Jni, NEW s \in sent, Settled(d)
  PROVE  /\ Compare(clock[d], s.clock) # "DominatedBy"
         /\ s.by # d => Compare(clock[d], s.clock) = "Concurrent"
<1>1. /\ Node \subseteq Device /\ s.by \in Node /\ d \in Node /\ s.clock \in Clock
      /\ clock[d] \in Clock
  BY MigrateAssumption DEF MigrateInv, Typed, Node
<1>2. s.clock[s.by] > 0 /\ \A e \in Device \ {s.by} : s.clock[e] = 0
  BY DEF MigrateInv, OwnOnly
<1>3. clock[d][d] > 0 /\ \A e \in Device \ {d} : clock[d][e] = 0
  BY <1>1 DEF Settled, MigrateInv, OwnOnly
<1>4. CASE s.by # d
  <2>1. Ahead(clock[d], s.clock) /\ Ahead(s.clock, clock[d])
    BY <1>1, <1>2, <1>3, <1>4 DEF Ahead, Clock
  <2>. QED
    BY <2>1 DEF Compare
<1>5. CASE s.by = d
  <2>1. s.clock[d] <= clock[d][d]
    BY <1>5 DEF Settled, MigrateInv, OwnOnly
  <2>2. ~Ahead(s.clock, clock[d])
    BY <1>1, <1>2, <1>3, <1>5, <2>1 DEF Ahead, Clock
  <2>. QED
    BY <1>5, <2>2 DEF Compare
<1>. QED
  BY <1>4, <1>5

\* The local side of a comparison has a clock.
LEMMA SaidType ==
  ASSUME MigrateInv, NEW d \in Node, NEW said \in Says(d)
  PROVE  said \in Clock
BY MigrateAssumption DEF Says, MigrateInv, Typed

-----------------------------------------------------------------------------
(* What an import makes of a key.                                           *)

\* The entries of a snapshot that are handled: they keep their values and
\* policies, and have the version that is registered.
Handled(d, s, failed) ==
  LET remote == Filtered(d, s, failed) IN
  /\ DOMAIN remote = DOMAIN s.keys \ SchemaDropped(d, s, failed)
  /\ \A k \in DOMAIN remote :
       /\ remote[k] \in Content /\ remote[k].value = s.keys[k].value
       /\ remote[k].policy = s.keys[k].policy
       /\ k \in DOMAIN regs[d] => remote[k].version = regs[d][k].version

\* So says filter_schema_keys.
LEMMA FilteredFacts ==
  ASSUME MigrateInv, NEW d \in Node, NEW s \in sent, NEW failed
  PROVE  Handled(d, s, failed)
<1>. DEFINE remote == Filtered(d, s, failed)
            dropped == SchemaDropped(d, s, failed)
<1>1. DOMAIN remote = DOMAIN s.keys \ dropped
  BY DEF Filtered, Without
<1>2. ASSUME NEW k \in DOMAIN remote
      PROVE  /\ remote[k] \in Content /\ remote[k].value = s.keys[k].value
             /\ remote[k].policy = s.keys[k].policy
             /\ k \in DOMAIN regs[d] => remote[k].version = regs[d][k].version
  <2>1. s.keys[k] \in Content /\ k \in DOMAIN s.keys /\ k \notin dropped
    BY <1>1 DEF MigrateInv, Typed, IsState
  <2>2. remote[k] = IF Action(d, k, s.keys[k]) = "Migrate"
                    THEN [s.keys[k] EXCEPT !.version = regs[d][k].version] ELSE s.keys[k]
    BY <1>1 DEF Filtered, Without
  <2>3. k \in DOMAIN regs[d] => regs[d][k].version \in Nat
    BY DEF MigrateInv, Typed, Registration
  <2>4. Action(d, k, s.keys[k]) # "TooNew"
    BY <2>1 DEF SchemaDropped
  <2>5. CASE k \notin DOMAIN regs[d]
    <3>1. Action(d, k, s.keys[k]) = "Current"
      BY <2>5 DEF Action
    <3>. QED
      BY <2>1, <2>2, <2>5, <3>1
  <2>6. CASE k \in DOMAIN regs[d]
    <3>1. CASE Action(d, k, s.keys[k]) = "Migrate"
      BY <2>1, <2>2, <2>3, <2>6, <3>1 DEF Content
    <3>2. CASE Action(d, k, s.keys[k]) # "Migrate"
      <4>1. s.keys[k].version = regs[d][k].version
        BY <2>4, <2>6, <3>2 DEF Action, SchemaAction
      <4>. QED
        BY <2>1, <2>2, <3>2, <4>1
    <3>. QED
      BY <3>1, <3>2
  <2>. QED
    BY <2>5, <2>6
<1>. QED
  BY <1>1, <1>2 DEF Handled

\* What is left of the key k of a device's state by an import of s: the local
\* entry, the remote one where there was none or where it wins by its policy,
\* or both merged.  A local entry hides the remote one only as a conflict, if the
\* local side does not claim to have seen it.
Settles(d, s, failed, said, new, k) ==
  LET remote == Filtered(d, s, failed) IN
  \/ /\ k \in DOMAIN store[d] /\ new[k] = store[d][k]
     /\ k \in DOMAIN remote =>
          \/ Compare(said, s.clock) \in {"Dominates", "Equal"}
          \/ k \in Outcome(d, s, failed, said).conflicts
          \/ remote[k].policy = "LastWriteWins"
  \/ /\ k \in DOMAIN remote /\ new[k] = remote[k]
     /\ k \notin DOMAIN store[d] \/ remote[k].policy = "LastWriteWins"
  \/ /\ k \in DOMAIN store[d] /\ k \in DOMAIN remote
     /\ new[k] = Merged(store[d][k], remote[k])

\* The snapshot in the place of the state.
Replaces(d, s, failed, new) ==
  LET remote == Filtered(d, s, failed) IN
  DOMAIN new = DOMAIN remote /\ \A k \in DOMAIN new : new[k] = remote[k]

\* An import leaves every key that either side has, unless the local side claims
\* to be behind.
LEMMA ImportSettles ==
  ASSUME MigrateInv, NEW d \in Node, NEW s \in sent, NEW failed, NEW said \in Says(d)
  PROVE  LET new == Outcome(d, s, failed, said).keys IN
         IF Compare(said, s.clock) = "DominatedBy" THEN Replaces(d, s, failed, new)
         ELSE /\ DOMAIN new = DOMAIN store[d] \cup DOMAIN Filtered(d, s, failed)
              /\ \A k \in DOMAIN new : Settles(d, s, failed, said, new, k)
<1>. DEFINE local    == store[d]
            remote   == Filtered(d, s, failed)
            resolved == Resolve(said, store[d], s.clock, remote)
            merging  == Merging(d, resolved.conflicts)
            new      == Outcome(d, s, failed, said).keys
            reported == Outcome(d, s, failed, said).conflicts
<1>1. /\ new = [k \in DOMAIN resolved.keys |->
                  IF k \in merging THEN Merged(local[k], remote[k]) ELSE resolved.keys[k]]
      /\ reported = resolved.conflicts \ merging
  BY DEF Outcome
<1>2. merging \subseteq resolved.conflicts
  BY DEF Merging
<1>3. CASE Compare(said, s.clock) \in {"Dominates", "Equal"}
  <2>1. resolved = [keys |-> Over(local, remote), conflicts |-> {}]
    BY <1>3 DEF Resolve
  <2>. HIDE DEF local, remote
  <2>2. DOMAIN new = DOMAIN local \cup DOMAIN remote
    BY <1>1, <2>1 DEF Over
  <2>3. \A k \in DOMAIN new : new[k] = IF k \in DOMAIN local THEN local[k] ELSE remote[k]
    BY <1>1, <1>2, <2>1, <2>2 DEF Over
  <2>. HIDE DEF new
  <2>. USE DEF local, remote
  <2>. QED
    BY <1>3, <2>2, <2>3 DEF Settles, new
<1>4. CASE Compare(said, s.clock) = "Concurrent"
  <2>. DEFINE both == DOMAIN local \cap DOMAIN remote
              won  == {k \in both : remote[k].policy = "LastWriteWins"}
  <2>1. resolved = [keys |-> Over(Without(local, won), remote), conflicts |-> both \ won]
    BY <1>4 DEF Resolve, PerKey
  <2>. HIDE DEF local, remote
  <2>2. DOMAIN Over(Without(local, won), remote) = DOMAIN local \cup DOMAIN remote
    BY DEF Over, Without
  <2>3. \A k \in DOMAIN local \cup DOMAIN remote :
          Over(Without(local, won), remote)[k] =
            IF k \in DOMAIN local /\ k \notin won THEN local[k] ELSE remote[k]
    BY DEF Over, Without
  <2>4. DOMAIN new = DOMAIN local \cup DOMAIN remote
    BY <1>1, <2>1, <2>2
  <2>5. \A k \in DOMAIN new :
          new[k] = IF k \in merging THEN Merged(local[k], remote[k])
                   ELSE IF k \in DOMAIN local /\ k \notin won THEN local[k] ELSE remote[k]
    BY <1>1, <2>1, <2>2, <2>3, <2>4
  <2>6. merging \subseteq both \ won /\ reported = (both \ won) \ merging
    BY <1>1, <1>2, <2>1
  <2>. HIDE DEF new, merging, resolved, reported
  <2>. USE DEF local, remote
  <2>7. \A k \in DOMAIN new : Settles(d, s, failed, said, new, k)
    BY <2>4, <2>5, <2>6 DEF Settles, reported
  <2>. QED
    BY <1>4, <2>4, <2>7 DEF new
<1>5. CASE Compare(said, s.clock) = "DominatedBy"
  <2>1. resolved = [keys |-> remote, conflicts |-> {}]
    BY <1>5 DEF Resolve
  <2>2. DOMAIN new = DOMAIN remote /\ \A k \in DOMAIN new : new[k] = remote[k]
    BY <1>1, <1>2, <2>1
  <2>. QED
    BY <1>5, <2>2 DEF Replaces
<1>. QED
  <2>1. said \in Clock /\ s.clock \in Clock
    BY SaidType DEF MigrateInv, Typed
  <2>. QED
    BY <1>3, <1>4, <1>5, <2>1, CompareClassifies DEF Order

-----------------------------------------------------------------------------
(* The invariant.                                                           *)

\* Nothing has been counted before the first start.
LEMMA InitMigrate == Init => MigrateInv
<1>. SUFFICES ASSUME Init PROVE MigrateInv
  OBVIOUS
<1>1. Typed
  BY EmptyClockType DEF Init, Typed, IsState, EmptyMap
<1>2. OwnOnly
  BY MigrateAssumption DEF Init, OwnOnly, EmptyClock
<1>. QED
  BY <1>1, <1>2 DEF MigrateInv

\* A map of contents with one more is one.
LEMMA WithState ==
  ASSUME NEW f, IsState(f), NEW k \in Key, NEW x \in Content
  PROVE  IsState(With(f, k, x))
  BY DEF IsState, With

\* What an import makes of a state is a state.
LEMMA ImportState ==
  ASSUME MigrateInv, NEW d \in Node, NEW s \in sent, NEW failed, NEW said \in Says(d)
  PROVE  IsState(Outcome(d, s, failed, said).keys)
<1>. DEFINE local    == store[d]
            remote   == Filtered(d, s, failed)
            resolved == Resolve(said, store[d], s.clock, remote)
            merging  == Merging(d, resolved.conflicts)
<1>1. Outcome(d, s, failed, said).keys =
        [k \in DOMAIN resolved.keys |->
           IF k \in merging THEN Merged(local[k], remote[k]) ELSE resolved.keys[k]]
  BY DEF Outcome
<1>2. IsState(local)
  BY DEF MigrateInv, Typed
<1>3. IsState(remote)
  <2>1. Handled(d, s, failed)
    BY FilteredFacts
  <2>. QED
    BY <2>1 DEF Handled, IsState, MigrateInv, Typed
<1>4. merging \subseteq resolved.conflicts
  BY DEF Merging
<1>5. /\ IsState(resolved.keys)
      /\ resolved.conflicts \subseteq DOMAIN local \cap DOMAIN remote
  <2>. DEFINE both == DOMAIN local \cap DOMAIN remote
              won  == {k \in both : remote[k].policy = "LastWriteWins"}
  <2>1. \/ resolved = [keys |-> Over(local, remote), conflicts |-> {}]
        \/ resolved = [keys |-> remote, conflicts |-> {}]
        \/ resolved = [keys |-> Over(Without(local, won), remote), conflicts |-> both \ won]
    <3>1. said \in Clock /\ s.clock \in Clock
      BY SaidType DEF MigrateInv, Typed
    <3>2. Compare(said, s.clock) \in Order
      BY <3>1, CompareClassifies
    <3>. QED
      BY <3>2 DEF Resolve, PerKey, Order
  <2>. HIDE DEF local, remote, resolved
  <2>2. IsState(Over(local, remote))
    BY <1>2, <1>3 DEF IsState, Over
  <2>3. IsState(Over(Without(local, won), remote))
    BY <1>2, <1>3 DEF IsState, Over, Without
  <2>. QED
    BY <1>3, <2>1, <2>2, <2>3
<1>. HIDE DEF local, remote, resolved, merging
<1>6. \A k \in DOMAIN local \cap DOMAIN remote : Merged(local[k], remote[k]) \in Content
  <2>. SUFFICES ASSUME NEW k \in DOMAIN local \cap DOMAIN remote
                PROVE  Merged(local[k], remote[k]) \in Content
    OBVIOUS
  <2>1. local[k] \in Content /\ remote[k] \in Content
    BY <1>2, <1>3 DEF IsState
  <2>2. local[k].value \in SUBSET Nat /\ remote[k].value \in SUBSET Nat /\ "AppMerge" \in Policy
    BY <2>1 DEF Content, Policy
  <2>3. remote[k].value \cup local[k].value \in SUBSET Nat
    BY <2>2
  <2>. QED
    BY <2>1, <2>2, <2>3 DEF Merged, Content
<1>. QED
  BY <1>1, <1>4, <1>5, <1>6 DEF IsState

\* Every step keeps the types.
LEMMA NextTyped == MigrateInv /\ [Next]_vars => Typed'
<1>. SUFFICES ASSUME MigrateInv, [Next]_vars PROVE Typed'
  OBVIOUS
<1>. USE DEF MigrateInv
<1>0. CASE UNCHANGED vars
  BY <1>0 DEF vars, Typed
<1>1. ASSUME NEW d \in Node, Start(d) PROVE Typed'
  <2>1. clock' \in [Node -> Clock]
    BY <1>1, EmptyClockType DEF Start, Typed
  <2>2. DOMAIN regs' = Node /\ \A e \in Node : \A k \in DOMAIN regs'[e] : regs'[e][k] \in Registration
    BY <1>1 DEF Start, Typed, EmptyMap
  <2>. QED
    BY <1>1, <2>1, <2>2 DEF Start, Typed
<1>2. ASSUME NEW d \in Node, Kill(d) PROVE Typed'
  <2>1. IsState(EmptyMap)
    BY DEF IsState, EmptyMap
  <2>2. DOMAIN store' = Node /\ \A e \in Node : IsState(store'[e])
    BY <1>2, <2>1 DEF Kill, Typed
  <2>. QED
    BY <1>2, <2>2 DEF Kill, Typed
<1>3. ASSUME NEW d \in Node, NEW k \in Key, Register(d, k) PROVE Typed'
  <2>1. d \in Device /\ clock[d] \in Clock
    BY MigrateAssumption DEF Typed
  <2>2. clock' \in [Node -> Clock]
    BY <1>3, <2>1, TickType DEF Register, Typed
  <2>3. App[d][k] \in Registration
    BY MigrateAssumption
  <2>4. DOMAIN regs' = Node /\ \A e \in Node : regs'[e] = IF e = d THEN With(regs[d], k, App[d][k]) ELSE regs[e]
    BY <1>3 DEF Register, Typed
  <2>5. \A e \in Node : \A j \in DOMAIN regs'[e] : regs'[e][j] \in Registration
    BY <2>3, <2>4 DEF Typed, With
  <2>. QED
    BY <1>3, <2>2, <2>4, <2>5 DEF Register, Typed
<1>4. ASSUME NEW d \in Node, NEW k \in Key, Put(d, k) PROVE Typed'
  <2>. DEFINE old == IF k \in DOMAIN store[d] THEN store[d][k].value ELSE {}
              reg == IF k \in DOMAIN regs[d] THEN regs[d][k] ELSE Unregistered
  <2>1. old \in SUBSET Nat
    BY DEF Typed, IsState, Content
  <2>2. reg.policy \in Policy /\ reg.version \in Nat
    BY DEF Typed, Registration, Unregistered, Policy
  <2>3. edits + 1 \in Nat
    BY DEF Typed
  <2>4. old \cup {edits + 1} \in SUBSET Nat
    BY <2>1, <2>3
  <2>5. store' = [store EXCEPT ![d] = With(@, k, Entry(old \cup {edits + 1}, reg))]
    BY <1>4 DEF Put
  <2>. HIDE DEF old, reg
  <2>6. Entry(old \cup {edits + 1}, reg) \in Content
    BY <2>2, <2>4 DEF Entry, Content
  <2>7. DOMAIN store' = Node /\ \A e \in Node : IsState(store'[e])
    BY <2>5, <2>6, WithState DEF Typed
  <2>. QED
    BY <1>4, <2>3, <2>7 DEF Put, Typed
<1>5. ASSUME NEW d \in Node, Export(d) PROVE Typed'
  <2>1. d \in Device /\ clock[d] \in Clock
    BY MigrateAssumption DEF Typed
  <2>2. clock' \in [Node -> Clock]
    BY <1>5, <2>1, TickType DEF Export, Typed
  <2>3. \A s \in sent' : s.by \in Node /\ s.clock \in Clock /\ IsState(s.keys)
    BY <1>5, <2>2 DEF Export, Typed
  <2>. QED
    BY <1>5, <2>2, <2>3 DEF Export, Typed
<1>6. ASSUME NEW d \in Node, NEW s \in sent, NEW failed \in SUBSET Key, NEW said \in Says(d),
             Import(d, s, failed, said)
      PROVE  Typed'
  <2>1. DOMAIN store' = Node /\ \A e \in Node : IsState(store'[e])
    BY <1>6, ImportState DEF Import, Typed
  <2>2. clock' \in [Node -> Clock]
    BY <1>6 DEF Import, ClockAfter, Typed
  <2>. QED
    BY <1>6, <2>1, <2>2 DEF Import, Typed
<1>. QED
  BY <1>0, <1>1, <1>2, <1>3, <1>4, <1>5, <1>6 DEF Next

\* Every step leaves each clock to its device.
LEMMA NextOwnOnly == MigrateInv /\ [Next]_vars => OwnOnly'
<1>. SUFFICES ASSUME MigrateInv, [Next]_vars PROVE OwnOnly'
  OBVIOUS
<1>. USE DEF MigrateInv
<1>a. /\ clock \in [Node -> Clock] /\ DOMAIN regs = Node /\ Node \subseteq Device
      /\ \A s \in sent : s.by \in Node /\ s.clock \in Clock
  BY MigrateAssumption DEF Typed
<1>0. CASE UNCHANGED vars
  BY <1>0 DEF vars, OwnOnly
<1>1. ASSUME NEW d \in Node, Start(d) PROVE OwnOnly'
  <2>1. \A e \in Node : clock'[e] = IF e = d THEN EmptyClock ELSE clock[e]
    BY <1>1, <1>a DEF Start
  <2>2. \A e \in Node : regs'[e] = IF e = d THEN EmptyMap ELSE regs[e]
    BY <1>1, <1>a DEF Start
  <2>3. d \notin up /\ up' = up \cup {d} /\ UNCHANGED <<sent, restarted>>
    BY <1>1 DEF Start
  <2>4. \A e \in Device : EmptyClock[e] = 0
    BY DEF EmptyClock
  <2>. QED
    BY <1>a, <2>1, <2>2, <2>3, <2>4 DEF OwnOnly
<1>2. ASSUME NEW d \in Node, Kill(d) PROVE OwnOnly'
  <2>1. UNCHANGED <<clock, regs, sent>> /\ up' = up \ {d}
    BY <1>2 DEF Kill
  <2>2. restarted' = IF d \in Jni THEN restarted \cup {d} ELSE restarted
    BY <1>2 DEF Kill
  <2>. QED
    BY <2>1, <2>2 DEF OwnOnly
<1>3. ASSUME NEW d \in Node, NEW k \in Key, Register(d, k) PROVE OwnOnly'
  <2>1. \A e \in Node : clock'[e] = IF e = d THEN Tick(clock[d], d) ELSE clock[e]
    BY <1>3, <1>a DEF Register
  <2>2. \A e \in Device : Tick(clock[d], d)[e] = IF e = d THEN clock[d][d] + 1 ELSE clock[d][e]
    BY <1>a DEF Tick, Clock
  <2>3. \A e \in Node : e # d => regs'[e] = regs[e]
    BY <1>3, <1>a DEF Register
  <2>4. UNCHANGED <<sent, restarted, up>>
    BY <1>3 DEF Register
  <2>5. clock[d][d] \in Nat /\ \A s \in sent : s.clock[d] \in Nat
    BY <1>a DEF Clock
  <2>. QED
    BY <1>a, <2>1, <2>2, <2>3, <2>4, <2>5 DEF OwnOnly
<1>4. ASSUME NEW d \in Node, NEW k \in Key, Put(d, k) PROVE OwnOnly'
  BY <1>4 DEF Put, OwnOnly
<1>5. ASSUME NEW d \in Node, Export(d) PROVE OwnOnly'
  <2>1. \A e \in Node : clock'[e] = IF e = d THEN Tick(clock[d], d) ELSE clock[e]
    BY <1>5, <1>a DEF Export
  <2>2. \A e \in Device : Tick(clock[d], d)[e] = IF e = d THEN clock[d][d] + 1 ELSE clock[d][e]
    BY <1>a DEF Tick, Clock
  <2>3. UNCHANGED <<regs, restarted, up>> /\ d \in up
    BY <1>5 DEF Export
  <2>4. \A s \in sent' : s \in sent \/ (s.by = d /\ s.clock = Tick(clock[d], d))
    BY <1>5, <2>1 DEF Export
  <2>5. clock[d][d] \in Nat /\ \A s \in sent : s.clock[d] \in Nat
    BY <1>a DEF Clock
  <2>6. (\A e \in Node : \A f \in Device \ {e} : clock'[e][f] = 0)
        /\ (\A e \in Node : regs'[e] # EmptyMap => clock'[e][e] > 0)
    BY <1>a, <2>1, <2>2, <2>3, <2>5 DEF OwnOnly
  <2>7. \A s \in sent' : s.clock[s.by] > 0 /\ \A e \in Device \ {s.by} : s.clock[e] = 0
    BY <1>a, <2>2, <2>4, <2>5 DEF OwnOnly
  <2>8. \A s \in sent' : s.by \in Jni \ restarted' =>
                            s.by \in up' /\ s.clock[s.by] <= clock'[s.by][s.by]
    <3>1. ASSUME NEW s \in sent, s.by \in Jni \ restarted
          PROVE  s.by \in up /\ s.clock[s.by] <= clock'[s.by][s.by]
      BY <1>a, <2>1, <2>2, <2>5, <3>1 DEF OwnOnly
    <3>2. ASSUME NEW s, s.by = d, s.clock = Tick(clock[d], d)
          PROVE  s.by \in up /\ s.clock[s.by] <= clock'[s.by][s.by]
      BY <1>a, <2>1, <2>2, <2>3, <2>5, <3>2
    <3>. QED
      BY <2>3, <2>4, <3>1, <3>2
  <2>. QED
    BY <2>6, <2>7, <2>8 DEF OwnOnly
<1>6. ASSUME NEW d \in Node, NEW s \in sent, NEW failed \in SUBSET Key, NEW said \in Says(d),
             Import(d, s, failed, said)
      PROVE  OwnOnly'
  <2>1. \A e \in Node : clock'[e] = clock[e]
    BY <1>6, <1>a DEF Import, ClockAfter
  <2>2. UNCHANGED <<up, regs, sent, restarted>>
    BY <1>6 DEF Import
  <2>. QED
    BY <1>a, <2>1, <2>2 DEF OwnOnly
<1>. QED
  BY <1>0, <1>1, <1>2, <1>3, <1>4, <1>5, <1>6 DEF Next

\* The types, and that each clock counts for its device alone.
THEOREM ClocksCountApart == Spec => []MigrateInv
<1>1. MigrateInv /\ [Next]_vars => MigrateInv'
  BY NextTyped, NextOwnOnly DEF MigrateInv
<1>. QED
  BY <1>1, InitMigrate, PTL DEF Spec

-----------------------------------------------------------------------------
(* What is not lost.                                                        *)

\* For every device, every snapshot and whatever an application gives as its clock:
\* an import keeps the local edits but under a LastWriteWins key, and merges or
\* reports those of the snapshot; but an application that claims to be behind gives
\* its edits up, and one that claims to be abreast keeps the keys it has
\* (import_snapshot, resolve_conflicts).
THEOREM ImportsLoseNothing == Spec => NothingLostSilently
<1>1. ASSUME MigrateInv, NEW d \in Node, NEW s \in sent, NEW failed \in SUBSET Key,
             NEW said \in Says(d), Settled(d), Import(d, s, failed, said), NEW k \in Key
      PROVE  /\ k \notin DOMAIN s.keys \/ Careful(s, k)
                  => ValueAt(store[d], k) \subseteq ValueAt(store'[d], k) \/ Behind(d, s, said)
             /\ Careful(s, k) /\ s.by # d =>
                  \/ s.keys[k].value \subseteq ValueAt(store'[d], k)
                  \/ k \in Outcome(d, s, failed, said).conflicts \cup SchemaDropped(d, s, failed)
                  \/ Abreast(d, s, said) /\ k \in DOMAIN store[d]
  <2>. DEFINE remote == Filtered(d, s, failed)
              new    == Outcome(d, s, failed, said).keys
  <2>1. store'[d] = new
    BY <1>1 DEF Import, MigrateInv, Typed
  <2>2. IF Compare(said, s.clock) = "DominatedBy" THEN Replaces(d, s, failed, new)
        ELSE /\ DOMAIN new = DOMAIN store[d] \cup DOMAIN remote
             /\ \A j \in DOMAIN new : Settles(d, s, failed, said, new, j)
    BY <1>1, ImportSettles
  <2>3. /\ DOMAIN remote = DOMAIN s.keys \ SchemaDropped(d, s, failed)
        /\ \A j \in DOMAIN remote : /\ remote[j] \in Content
                                    /\ remote[j].value = s.keys[j].value
                                    /\ remote[j].policy = s.keys[j].policy
    <3>1. Handled(d, s, failed)
      BY <1>1, FilteredFacts
    <3>. QED
      BY <3>1 DEF Handled
  <2>4. /\ Compare(said, s.clock) = "DominatedBy" => Behind(d, s, said)
        /\ Compare(said, s.clock) \in {"Dominates", "Equal"} /\ s.by # d => Abreast(d, s, said)
    <3>1. CASE d \in Jni
      BY <1>1, <3>1, SnapshotOrder DEF Says
    <3>2. CASE d \notin Jni
      BY <3>2 DEF Node, Behind, Abreast
    <3>. QED
      BY <3>1, <3>2
  <2>. HIDE DEF new
  <2>5. ASSUME k \in DOMAIN remote, k \in DOMAIN store[d]
        PROVE  Merged(store[d][k], remote[k]).value = remote[k].value \cup store[d][k].value
    BY <2>3, <2>5 DEF Merged, Content
  <2>6. CASE Compare(said, s.clock) = "DominatedBy"
    BY <2>1, <2>2, <2>3, <2>4, <2>6 DEF Replaces, Careful, ValueAt
  <2>7. CASE Compare(said, s.clock) # "DominatedBy" /\ k \in DOMAIN new
    <3>1. DOMAIN new = DOMAIN store[d] \cup DOMAIN remote /\ Settles(d, s, failed, said, new, k)
      BY <2>2, <2>7
    <3>. QED
      BY <2>1, <2>3, <2>4, <2>5, <2>7, <3>1 DEF Settles, Careful, ValueAt
  <2>8. CASE Compare(said, s.clock) # "DominatedBy" /\ k \notin DOMAIN new
    BY <2>1, <2>2, <2>3, <2>8 DEF Careful, ValueAt
  <2>. QED
    BY <2>6, <2>7, <2>8
<1>2. MigrateInv /\ [Next]_vars =>
        [\A d \in Node, s \in sent, failed \in SUBSET Key : \A said \in Says(d) :
           Settled(d) /\ Import(d, s, failed, said) =>
           \A k \in Key :
             /\ k \notin DOMAIN s.keys \/ Careful(s, k)
                  => ValueAt(store[d], k) \subseteq ValueAt(store'[d], k) \/ Behind(d, s, said)
             /\ Careful(s, k) /\ s.by # d =>
                  \/ s.keys[k].value \subseteq ValueAt(store'[d], k)
                  \/ k \in Outcome(d, s, failed, said).conflicts \cup SchemaDropped(d, s, failed)
                  \/ Abreast(d, s, said) /\ k \in DOMAIN store[d]]_vars
  BY <1>1
<1>. QED
  BY <1>2, ClocksCountApart, PTL DEF Spec, NothingLostSilently

\* For every device, every snapshot and whatever an application gives as its clock:
\* an import takes no key away, but from an application that claims to be behind,
\* and leaves no value of a version that the application does not know where there
\* was another (filter_schema_keys, resolve_conflicts).
THEOREM ImportsStayReadable == Spec => StaysReadable
<1>1. ASSUME MigrateInv, NEW d \in Node, NEW s \in sent, NEW failed \in SUBSET Key,
             NEW said \in Says(d), Import(d, s, failed, said)
      PROVE  /\ Settled(d) => DOMAIN store[d] \subseteq DOMAIN store'[d] \/ Behind(d, s, said)
             /\ \A k \in DOMAIN store'[d] \cap DOMAIN regs[d] :
                  store'[d][k].version > regs[d][k].version
                    => k \in DOMAIN store[d] /\ store'[d][k] = store[d][k]
  <2>. DEFINE remote == Filtered(d, s, failed)
              new    == Outcome(d, s, failed, said).keys
  <2>1. store'[d] = new
    BY <1>1 DEF Import, MigrateInv, Typed
  <2>2. IF Compare(said, s.clock) = "DominatedBy" THEN Replaces(d, s, failed, new)
        ELSE /\ DOMAIN new = DOMAIN store[d] \cup DOMAIN remote
             /\ \A j \in DOMAIN new : Settles(d, s, failed, said, new, j)
    BY <1>1, ImportSettles
  <2>3. \A j \in DOMAIN remote :
          remote[j] \in Content /\ (j \in DOMAIN regs[d] => remote[j].version = regs[d][j].version)
    <3>1. Handled(d, s, failed)
      BY <1>1, FilteredFacts
    <3>. QED
      BY <3>1 DEF Handled
  <2>4. Settled(d) /\ Compare(said, s.clock) = "DominatedBy" => Behind(d, s, said)
    <3>1. CASE d \in Jni
      BY <1>1, <3>1, SnapshotOrder DEF Says
    <3>2. CASE d \notin Jni
      BY <3>2 DEF Node, Behind
    <3>. QED
      BY <3>1, <3>2
  <2>. HIDE DEF new
  <2>5. ASSUME NEW k \in DOMAIN new, k \in DOMAIN regs[d], new[k].version > regs[d][k].version
        PROVE  k \in DOMAIN store[d] /\ new[k] = store[d][k]
    <3>1. regs[d][k].version \in Nat
      BY <1>1, <2>5 DEF MigrateInv, Typed, Registration
    <3>2. ASSUME NEW x, x.version = regs[d][k].version PROVE new[k] # x
      <4>1. ~(regs[d][k].version > regs[d][k].version)
        BY <3>1
      <4>. QED
        BY <2>5, <3>2, <4>1
    <3>3. ASSUME k \in DOMAIN remote
          PROVE  new[k] # remote[k] /\ new[k] # Merged(store[d][k], remote[k])
      <4>1. remote[k] \in Content /\ remote[k].version = regs[d][k].version
        BY <2>3, <2>5, <3>3
      <4>2. Merged(store[d][k], remote[k]).version = remote[k].version
        BY <4>1 DEF Merged, Content
      <4>. QED
        BY <3>2, <4>1, <4>2
    <3>. QED
      BY <2>2, <2>5, <3>3 DEF Replaces, Settles
  <2>. QED
    BY <2>1, <2>2, <2>4, <2>5
<1>2. MigrateInv /\ [Next]_vars =>
        [\A d \in Node, s \in sent, failed \in SUBSET Key : \A said \in Says(d) :
           Import(d, s, failed, said) =>
           /\ Settled(d) => DOMAIN store[d] \subseteq DOMAIN store'[d] \/ Behind(d, s, said)
           /\ \A k \in DOMAIN store'[d] \cap DOMAIN regs[d] :
                store'[d][k].version > regs[d][k].version
                  => k \in DOMAIN store[d] /\ store'[d][k] = store[d][k]]_vars
  BY <1>1
<1>. QED
  BY <1>2, ClocksCountApart, PTL DEF Spec, StaysReadable
===============================================================================
