---------------------------- MODULE MCScreenStream -----------------------------
(* Small instances of ScreenStream: two viewers, one after the other or one   *)
(* waiting for the other.                                                     *)
EXTENDS ScreenStream, TLC

CONSTANTS v1, v2, Scenarios

VARIABLE budget   \* what is still to come

Scenario(viewers, kinds, encoders, pictures, typing, errors, leaving) ==
  [viewers |-> viewers, backends |-> kinds, codecs |-> encoders,
   pictures |-> pictures, inputs |-> typing, errors |-> errors, leaving |-> leaving]

Watching == Scenario({v1}, {"pipewire", "x11"}, {"libx264", "h264_qsv"}, 3, 0, 0, 0)
Typing   == Scenario({v1}, {"pipewire"}, {"libx264"}, 0, 2, 1, 1)
Failing  == Scenario({v1}, {"pipewire"}, {"libx264", "h264_qsv"}, 1, 0, 1, 0)
Sharing  == Scenario({v1, v2}, {"pipewire", "x11"}, {"libx264"}, 1, 0, 0, 2)

AllScenarios == {Watching, Typing, Failing, Sharing}
JustSharing  == {Scenario({v1, v2}, {"pipewire"}, {"libx264"}, 0, 0, 0, 1)}

BoundedInit == Init /\ budget \in Scenarios /\ backend \in budget.backends /\ codec \in budget.codecs

Spend(what) == budget[what] > 0 /\ budget' = [budget EXCEPT ![what] = @ - 1]

BoundedNext ==
  \/ Change /\ Spend("pictures")
  \/ \E v \in budget.viewers :
       \/ (Connect(v) \/ Turn(v) \/ Receive(v) \/ Inject(v)) /\ UNCHANGED budget
       \/ (EncodeFails(v) \/ InjectFails(v)) /\ Spend("errors")
       \/ Type(v) /\ Spend("inputs")
       \/ (CloseWindow(v) \/ Disconnect(v)) /\ Spend("leaving")

BoundedSpec == BoundedInit /\ [][BoundedNext]_<<vars, budget>> /\ Fairness
===============================================================================
