------------------------------- MODULE MCPairing -------------------------------
(* Small instances of Pairing: two devices, each with an address of its own,  *)
(* that guess codes or ask for the dialog.                                    *)
EXTENDS Pairing, TLC

CONSTANTS d1, d2, cert, Scenarios

VARIABLE budget    \* what is still to come

MCDevice == {d1, d2}

ToPair(d, right, valid) ==
  [from |-> d, to |-> "pair", approval |-> FALSE, right |-> right, valid |-> valid, cert |-> cert]

ToServe(d, approval, valid) ==
  [from |-> d, to |-> "serve", approval |-> approval, right |-> FALSE, valid |-> valid,
   cert |-> cert]

MCRequest ==
  {ToPair(d, r, TRUE) : d \in MCDevice, r \in BOOLEAN} \cup {ToPair(d2, TRUE, FALSE)}
    \cup {ToServe(d, TRUE, TRUE) : d \in MCDevice}
    \cup {ToServe(d1, FALSE, TRUE), ToServe(d1, TRUE, FALSE)}

MCMaxAttempts == [p \in Process |-> IF p = "pair" THEN 3 ELSE 1]

Scenario(asks, starts, ticks, faults) ==
  [asks |-> asks, starts |-> starts, ticks |-> ticks, faults |-> faults]

Overlapping == Scenario(3, 2, 0, 1)
Guessing    == Scenario(4, 1, 0, 0)
Waiting     == Scenario(4, 1, 3, 0)
Recovering  == Scenario(2, 2, 1, 1)

AllScenarios == {Overlapping, Guessing, Waiting, Recovering}

BoundedInit == Init /\ budget \in Scenarios

Spend(what) == budget[what] > 0 /\ budget' = [budget EXCEPT ![what] = @ - 1]

BoundedNext ==
  \/ (Serve \/ PairMode) /\ Spend("starts")
  \/ (\E d \in Device, r \in Request : Ask(d, r)) /\ Spend("asks")
  \/ Tick /\ Spend("ticks")
  \/ /\ \/ \E p \in Process : Kill(p)
        \/ \E d \in Device : Cancel(d) \/ PersistFails(d) \/ KeepFails(d)
     /\ Spend("faults")
  \/ /\ \/ CodeExpires \/ PairModeEnds
        \/ \E d \in Device : Handle(d) \/ Approve(d) \/ Receive(d) \/ Keep(d)
     /\ UNCHANGED budget

BoundedSpec == BoundedInit /\ [][BoundedNext]_<<vars, budget>> /\ Fairness
===============================================================================
