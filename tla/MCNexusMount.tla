----------------------------- MODULE MCNexusMount -----------------------------
(* Small instances of NexusMount: two mounts of up to three files.  A       *)
(* scenario bounds the callbacks of each kernel, by kind, and the requests   *)
(* that fail.                                                                *)
EXTENDS NexusMount, TLC

CONSTANTS d1, d2, Scenarios

VARIABLE budget    \* what is still to come

Name(x) == [name |-> x, copies |-> <<>>]

A == <<Name("a")>>
B == <<Name("b")>>
C == <<Name("c")>>

ABC == {A, B, C}

MCDevice == {d1, d2}

\* What the mounts can ask of the host.
MCRequests == {}

\* d1 has created and written A, and closed it; both kernels have its name.
Saved == Tick(EmptyClock, d1)

FirstTable == InoForPath(NewTable, A)

\* Nothing is under way, and both kernels have the names of the table t.
Resting(t) ==
  /\ tombs = EmptyMap /\ lock = Unlocked /\ detached = {} /\ gc = NoSweep /\ now = 1
  /\ pc = [d \in Device |-> "idle"] /\ req = [d \in Device |-> NoRequest]
  /\ plan = [d \in Device |-> <<>>] /\ reply = [d \in Device |-> NoReply]
  /\ table = [d \in Device |-> t] /\ dentry = [d \in Device |-> t.inos]
  /\ bufs = [d \in Device |-> EmptyMap] /\ call = [d \in Device |-> NoCall]
  /\ opened = [d \in Device |-> EmptyBag]
  /\ cut = {} /\ renamed = {}

AfterFirstSave ==
  /\ disk = [p \in {Root, A} |-> IF p = Root THEN Dir ELSE File(Saved, {Edit(d1, 1)})]
  /\ clocks = [p \in {A} |-> [clock |-> Saved, at |-> 1]]
  /\ known = [d \in Device |-> IF d = d1 THEN [p \in {A} |-> Saved] ELSE EmptyMap]
  /\ edits = [d \in Device |-> IF d = d1 THEN 1 ELSE 0]
  /\ shown = [d \in Device |-> {}] /\ told = [d \in Device |-> {}]
  /\ Resting(FirstTable)

Calls(browse, use, remove) == [browse |-> browse, use |-> use, remove |-> remove]

Scenario(start, files, first, second, faults) ==
  [start |-> start, files |-> files, faults |-> faults,
   calls |-> [d \in Device |-> IF d = d1 THEN first ELSE second]]

\* Two mounts write the file, and one deletes it.
Saving  == Scenario("saved", {A}, Calls(0, 2, 0), Calls(0, 3, 0), 0)
Reading == Scenario("new", {A}, Calls(0, 2, 0), Calls(2, 2, 0), 0)
Deleting == Scenario("saved", {A}, Calls(0, 2, 1), Calls(0, 2, 0), 0)
\* One mount has more files than its inode table has room for.
Crowding == Scenario("saved", ABC, Calls(1, 2, 1), Calls(0, 0, 0), 0)
\* A rename meets a change of the same file.
Renaming == Scenario("saved", {A, B}, Calls(0, 1, 1), Calls(1, 1, 0), 0)
\* A reply is lost, a mount is restarted.
Breaking == Scenario("saved", {A}, Calls(0, 2, 0), Calls(0, 2, 0), 1)

\* One mount overwrites the other's file twice.
Blind == {Scenario("saved", {A}, Calls(0, 0, 0), Calls(0, 4, 0), 0)}

AllScenarios == {Saving, Reading, Deleting, Crowding, Renaming, Breaking}

BoundedInit ==
  /\ budget \in Scenarios
  /\ IF budget.start = "saved" THEN AfterFirstSave ELSE MountInit

Spend(d, kind) ==
  /\ budget.calls[d][kind] > 0
  /\ budget' = [budget EXCEPT !.calls[d][kind] = @ - 1]

BoundedNext ==
  \/ \E d \in Device :
       \/ Browse(d, budget.files) /\ Spend(d, "browse")
       \/ Use(d, budget.files) /\ Spend(d, "use")
       \/ Remove(d, budget.files) /\ Spend(d, "remove")
       \/ budget.faults > 0 /\ (Unanswered(d) \/ Remount(d))
            /\ budget' = [budget EXCEPT !.faults = @ - 1]
  \/ (HostStep \/ \E d \in Device : Close(d) \/ Resume(d)) /\ UNCHANGED budget

BoundedSpec == BoundedInit /\ [][BoundedNext]_<<all, budget>>
===============================================================================
