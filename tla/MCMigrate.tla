------------------------------- MODULE MCMigrate -------------------------------
(* Small instances of Migrate: an application with the SDK and two that use   *)
(* the JNI layer, one of them of a newer version.                             *)
EXTENDS Migrate, TLC

CONSTANTS sdk, jni, new, app, keep, merge, Scenarios

VARIABLE scenario

MCDevice == {sdk, jni, new, app}

Is(policy, version) == [policy |-> policy, version |-> version]

MCApp ==
  [d \in Node |-> (keep :> Is("KeepBoth", 1) @@ merge :> Is("AppMerge", IF d = new THEN 2 ELSE 1))]

\* As the applications of the tests: no clock, or one of its own that never moves;
\* and one that is ahead of all that is ever exported.
MCAppClock ==
  {EmptyClock, [EmptyClock EXCEPT ![app] = 1], [d \in Device |-> MaxExports + Cardinality(Key) + 1]}

\* Who takes part, with which keys, and how many kills, snapshots in all and edits.
Scenario(nodes, keys, kills, snapshots, made) ==
  [nodes |-> nodes, keys |-> keys, kills |-> kills, snapshots |-> snapshots, edits |-> made]

Meeting    == Scenario({sdk, jni}, {keep}, 0, 3, 2)
Uniting    == Scenario({sdk, jni}, {merge}, 0, 3, 2)
Upgrading  == Scenario({sdk, new}, {merge}, 0, 3, 2)
Both       == Scenario({sdk, jni}, {keep, merge}, 0, 2, 1)
Restarting == Scenario({jni, new}, {keep}, 1, 2, 2)

AllScenarios == {Meeting, Uniting, Upgrading, Both, Restarting}

JustRestarting == {Restarting}

BoundedInit == Init /\ scenario \in Scenarios

BoundedNext ==
  /\ \E d \in scenario.nodes :
       \/ Start(d) /\ UNCHANGED scenario
       \/ Kill(d) /\ scenario.kills > 0 /\ scenario' = [scenario EXCEPT !.kills = @ - 1]
       \/ /\ \/ \E k \in scenario.keys :
                  Register(d, k) \/ (Put(d, k) /\ edits < scenario.edits)
             \/ Export(d) /\ Cardinality(sent) < scenario.snapshots
             \/ \E s \in sent, failed \in SUBSET scenario.keys, said \in Says(d) :
                  Import(d, s, failed, said)
          /\ UNCHANGED scenario

BoundedSpec == BoundedInit /\ [][BoundedNext]_<<vars, scenario>>
===============================================================================
