-------------------------------- MODULE Migrate --------------------------------
(***************************************************************************)
(* nexus-migrate (crates/migrate): devices that exchange snapshots of the  *)
(* state of an application, a value under each of its keys.                *)
(*                                                                         *)
(* A device of Sdk has a MigrateSdk in front of the application, which     *)
(* holds the state; a device of Jni keeps it in the library, in memory     *)
(* (android/mod.rs).  Every call runs under one lock.  How a snapshot gets *)
(* to another device is the application's affair: here any snapshot that   *)
(* was ever exported may be imported, late, again and in any order, by     *)
(* its own device too.                                                     *)
(*                                                                         *)
(* A value is the set of the edits that went into it: an application edits *)
(* what it has, and its merge unites.                                      *)
(***************************************************************************)
EXTENDS VectorClock, Maps, FiniteSets

CONSTANTS
  Sdk, Jni,     \* the devices, by the API they use
  Key,
  App,          \* App[d][k]: what d's application registers for k
  AppClock,     \* the clocks a MigratableApp may give in what it exports (external)
  MaxEdits,     \* bound on the edits
  MaxExports    \* bound on the snapshots of a device

Node == Sdk \cup Jni

Policy == {"LastWriteWins", "AppMerge", "KeepBoth"}

Registration == [policy : Policy, version : Nat \ {0}]

ASSUME MigrateAssumption ==
  /\ Node \subseteq Device
  /\ App \in [Node -> [Key -> Registration]]
  /\ AppClock \subseteq Clock
  /\ MaxEdits \in Nat /\ MaxExports \in Nat

VARIABLES
  up,         \* the devices whose process has the library initialised
  clock,      \* vector_clock
  regs,       \* registrations
  store,      \* the application's state, or the store of the JNI layer
  sent,       \* history: the snapshots that were exported
  exports,    \* history: how many of each device
  edits,      \* history: how many edits were made
  restarted   \* history: the Jni devices that lost their state

vars == <<up, clock, regs, store, sent, exports, edits, restarted>>

Entry(value, reg) == [value |-> value, policy |-> reg.policy, version |-> reg.version]

Unregistered == [policy |-> "LastWriteWins", version |-> 0]

-----------------------------------------------------------------------------
(* The process and the application.                                         *)

\* MigrateSdk::new, init_global, NexusMigrate.init
Start(d) ==
  /\ d \in Node \ up
  /\ up' = up \cup {d}
  /\ clock' = [clock EXCEPT ![d] = EmptyClock]
  /\ regs' = [regs EXCEPT ![d] = EmptyMap]
  /\ UNCHANGED <<store, sent, exports, edits, restarted>>

\* What the library holds goes with the process.
Kill(d) ==
  /\ d \in up
  /\ up' = up \ {d}
  /\ IF d \in Jni
     THEN store' = [store EXCEPT ![d] = EmptyMap] /\ restarted' = restarted \cup {d}
     ELSE UNCHANGED <<store, restarted>>
  /\ UNCHANGED <<clock, regs, sent, exports, edits>>

\* register_key, also of a key that has a value already; an application does
\* it once for each key when it starts.
Register(d, k) ==
  /\ d \in up /\ k \notin DOMAIN regs[d]
  /\ regs' = [regs EXCEPT ![d] = With(@, k, App[d][k])]
  /\ clock' = [clock EXCEPT ![d] = Tick(@, d)]
  /\ UNCHANGED <<up, store, sent, exports, edits, restarted>>

\* putStateValue; the application of a MigrateSdk is taken to keep what it
\* registers with its values too (external).
Put(d, k) ==
  LET old == IF k \in DOMAIN store[d] THEN store[d][k].value ELSE {}
      reg == IF k \in DOMAIN regs[d] THEN regs[d][k] ELSE Unregistered
  IN /\ d \in up /\ edits < MaxEdits
     /\ edits' = edits + 1
     /\ store' = [store EXCEPT ![d] = With(@, k, Entry(old \cup {edits + 1}, reg))]
     /\ UNCHANGED <<up, clock, regs, sent, exports, restarted>>

\* export_snapshot: the counter moves with the snapshot, not with the edits.
Export(d) ==
  /\ d \in up /\ exports[d] < MaxExports
  /\ exports' = [exports EXCEPT ![d] = @ + 1]
  /\ clock' = [clock EXCEPT ![d] = Tick(@, d)]
  /\ sent' = sent \cup {[by |-> d, clock |-> clock'[d], keys |-> store[d]]}
  /\ UNCHANGED <<up, regs, store, edits, restarted>>

-----------------------------------------------------------------------------
(* Importing.                                                               *)

\* A bug: a value of a newer version is taken as it is.
NewerTaken(incoming, local) == IF incoming < local THEN "Migrate" ELSE "Current"

\* check_schema_version
SchemaAction(incoming, local) ==
  IF incoming = local THEN "Current" ELSE IF incoming > local THEN "TooNew" ELSE "Migrate"

Action(d, k, e) ==
  IF k \in DOMAIN regs[d] THEN SchemaAction(e.version, regs[d][k].version) ELSE "Current"

\* The keys that cannot be handled: too new, or to be migrated, which the
\* application cannot do for the keys of failed, and the JNI layer for none.
SchemaDropped(d, s, failed) ==
  {k \in DOMAIN s.keys :
     \/ Action(d, k, s.keys[k]) = "TooNew"
     \/ Action(d, k, s.keys[k]) = "Migrate" /\ (d \in Jni \/ k \in failed)}

\* filter_schema_keys: the rest, migrated to the version that is registered.
Filtered(d, s, failed) ==
  LET keys == Without(s.keys, SchemaDropped(d, s, failed)) IN
  [k \in DOMAIN keys |-> IF Action(d, k, keys[k]) = "Migrate"
                         THEN [keys[k] EXCEPT !.version = regs[d][k].version] ELSE keys[k]]

\* The clock of the local side of a comparison: of the JNI layer its own, of a
\* MigrateSdk not its own but what the application says, which may be anything.
Says(d) == IF d \in Jni THEN {clock[d]} ELSE AppClock

\* The entries of f, and those of g for the other keys.
Over(f, g) == [k \in DOMAIN f \cup DOMAIN g |-> IF k \in DOMAIN f THEN f[k] ELSE g[k]]

\* Both sides have news: key by key, by the policy of the remote entry.
PerKey(local, remote) ==
  LET both == DOMAIN local \cap DOMAIN remote
      won  == {k \in both : remote[k].policy = "LastWriteWins"}
  IN [keys |-> Over(Without(local, won), remote), conflicts |-> both \ won]

\* resolve_conflicts
Resolve(localClock, local, remoteClock, remote) ==
  CASE Compare(localClock, remoteClock) \in {"Dominates", "Equal"} ->
         [keys |-> Over(local, remote), conflicts |-> {}]
    [] Compare(localClock, remoteClock) = "DominatedBy" ->
         [keys |-> remote, conflicts |-> {}]
    [] OTHER -> PerKey(local, remote)

\* The conflicts that the application merges.
Merging(d, conflicts) ==
  {k \in conflicts : d \in Sdk /\ k \in DOMAIN regs[d] /\ regs[d][k].policy = "AppMerge"}

\* A bug: the merged value is not put in the place of the local one.
MergeLost(local, remote) == [remote EXCEPT !.value = local.value, !.policy = "AppMerge"]

Merged(local, remote) == [remote EXCEPT !.value = @ \cup local.value, !.policy = "AppMerge"]

\* vector_clock.merge returns the merged clock, and the result is dropped.
ClockAfter(d, s) == clock[d]

\* What comes of an import, and the conflicts that are left to the caller.
Outcome(d, s, failed, said) ==
  LET remote   == Filtered(d, s, failed)
      resolved == Resolve(said, store[d], s.clock, remote)
      merging  == Merging(d, resolved.conflicts)
  IN [keys |-> [k \in DOMAIN resolved.keys |->
                  IF k \in merging THEN Merged(store[d][k], remote[k]) ELSE resolved.keys[k]],
      conflicts |-> resolved.conflicts \ merging]

\* import_snapshot.  An application's merge that fails makes the call fail
\* before it has changed anything.
Import(d, s, failed, said) ==
  /\ d \in up /\ s \in sent /\ said \in Says(d)
  /\ failed \subseteq {k \in DOMAIN s.keys : d \in Sdk /\ Action(d, k, s.keys[k]) = "Migrate"}
  /\ store' = [store EXCEPT ![d] = Outcome(d, s, failed, said).keys]
  /\ clock' = [clock EXCEPT ![d] = ClockAfter(d, s)]
  /\ UNCHANGED <<up, regs, sent, exports, edits, restarted>>

-----------------------------------------------------------------------------

Init ==
  /\ up = {} /\ restarted = {} /\ sent = {} /\ edits = 0
  /\ clock = [d \in Node |-> EmptyClock]
  /\ regs = [d \in Node |-> EmptyMap]
  /\ store = [d \in Node |-> EmptyMap]
  /\ exports = [d \in Node |-> 0]

Next ==
  \E d \in Node :
    \/ Start(d)
    \/ Kill(d)
    \/ \E k \in Key : Register(d, k) \/ Put(d, k)
    \/ Export(d)
    \/ \E s \in sent, failed \in SUBSET Key, said \in Says(d) : Import(d, s, failed, said)

Spec == Init /\ [][Next]_vars

-----------------------------------------------------------------------------
(* Properties.                                                              *)

Careful(s, k) == k \in DOMAIN s.keys /\ s.keys[k].policy # "LastWriteWins"

ValueAt(st, k) == IF k \in DOMAIN st THEN st[k].value ELSE {}

\* A device that has registered a key, and has not lost its memory.
Settled(d) == d \notin restarted /\ regs[d] # EmptyMap

\* The application says that it has seen nothing but what is in s, or all of it.
Behind(d, s, said)   == d \in Sdk /\ Compare(said, s.clock) = "DominatedBy"
Abreast(d, s, said) == d \in Sdk /\ Compare(said, s.clock) \in {"Dominates", "Equal"}

\* An import leaves every local edit where it is, except under a key that the
\* snapshot has as LastWriteWins; and the edits of another device's snapshot
\* under the other keys are merged into the state, or their key is reported:
\* for snapshots that come late, twice, or out of order.  An application that
\* says it is behind gives its edits up, one that says it is abreast keeps its
\* keys as they are; the JNI layer, whose clock is its own, does neither.
NothingLostSilently ==
  [][\A d \in Node, s \in sent, failed \in SUBSET Key : \A said \in Says(d) :
       Settled(d) /\ Import(d, s, failed, said) =>
       \A k \in Key :
         /\ k \notin DOMAIN s.keys \/ Careful(s, k)
              => ValueAt(store[d], k) \subseteq ValueAt(store'[d], k) \/ Behind(d, s, said)
         /\ Careful(s, k) /\ s.by # d =>
              \/ s.keys[k].value \subseteq ValueAt(store'[d], k)
              \/ k \in Outcome(d, s, failed, said).conflicts \cup SchemaDropped(d, s, failed)
              \/ Abreast(d, s, said) /\ k \in DOMAIN store[d]]_vars

\* What an import leaves of a key can be read by the application that has
\* registered it: the key is not gone, unless the application says that it is
\* behind, and its value is not of a version that the application does not know,
\* unless it was before; the latter also at a device that has lost its memory.
StaysReadable ==
  [][\A d \in Node, s \in sent, failed \in SUBSET Key : \A said \in Says(d) :
       Import(d, s, failed, said) =>
       /\ Settled(d) => DOMAIN store[d] \subseteq DOMAIN store'[d] \/ Behind(d, s, said)
       /\ \A k \in DOMAIN store'[d] \cap DOMAIN regs[d] :
            store'[d][k].version > regs[d][k].version
              => k \in DOMAIN store[d] /\ store'[d][k] = store[d][k]]_vars

\* A value under a key that the device has registered as KeepBoth, and that is
\* KeepBoth in the snapshot too, is never lost by an import: it stays, alone or with
\* what it meets (ADR 0012: "never-lose-data (KeepBoth)").
KeepBothNeverLost ==
  [][\A d \in Node, s \in sent, failed \in SUBSET Key : \A said \in Says(d) :
       Import(d, s, failed, said) =>
         \A k \in DOMAIN regs[d] \cap DOMAIN s.keys :
           regs[d][k].policy = "KeepBoth" /\ s.keys[k].policy = "KeepBoth"
             => ValueAt(store[d], k) \subseteq ValueAt(store'[d], k)]_vars
===============================================================================
