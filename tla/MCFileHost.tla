------------------------------ MODULE MCFileHost ------------------------------
(* Small instances of FileHost: two devices, a few paths, and every clock    *)
(* the two can carry, with a bound on the number of requests and crashes.    *)
EXTENDS FileHost, TLC

CONSTANTS d1, d2, Scenarios

VARIABLES
  budget,    \* requests and crashes still to come
  asked      \* what the devices of the scenario ask

Name(x) == [name |-> x, copies |-> <<>>]

A  == <<Name("a")>>
B  == <<Name("b")>>
D  == <<Name("d")>>
DF == <<Name("d"), Name("f")>>

\* The first conflict copy of A that d2 may cause.
ACopy == <<[name |-> "a", copies |-> <<[by |-> d2, at |-> 1]>>]>>

MCDevice == {d1, d2}

\* A file that was there before the agent: nothing is known of it.
ServedB == {B}

At(d) == [EmptyClock EXCEPT ![d] = 1]

\* The clocks of a first edit of either device, and of one that saw both.
MCClocks == {EmptyClock, At(d1), At(d2), Merge(At(d1), At(d2))}

On(op, ps, cs) == [op : {op}, path : ps, clock : cs, data : {NoData}]
Renames(cs)    == {[op |-> "rename", path |-> A, to |-> B, clock |-> c] : c \in cs}

BoundedInit == Init /\ \E s \in Scenarios : budget = s.budget /\ asked = s.asked

Spend == budget > 0 /\ budget' = budget - 1 /\ asked' = asked

BoundedNext ==
  \/ (\E d \in Device, r \in asked : Submit(d, r)) /\ Spend
  \/ Crash /\ Spend
  \/ (Serve \/ Gc \/ \E d \in Device : Return(d)) /\ UNCHANGED <<budget, asked>>

BoundedSpec == BoundedInit /\ [][BoundedNext]_<<vars, budget, asked>>
FairSpec    == BoundedSpec /\ Fairness

Edits      == MCClocks \ {EmptyClock}
FirstEdits == {At(d1), At(d2)}

\* Two files, renames of one onto the other, and the first conflict copy.
FileRequests ==
  On("write", {A}, Edits) \cup On("delete", {A}, Edits)
    \cup On("delete", {B}, {At(d1)}) \cup On("delete", {ACopy}, Edits \ {At(d1)})
    \cup Renames(Edits \ {At(d2)})

\* Edits of one file and the deletes of it and of its first conflict copy.
EditRequests ==
  On("write", {A}, Edits) \cup On("delete", {A, ACopy}, Edits)

\* Edits of one file, a rename of it, and the deletes of it and of its copy that
\* one device may send late.
MoveRequests ==
  On("write", {A}, FirstEdits) \cup On("delete", {A, ACopy}, {At(d2)})
    \cup Renames({At(d1)})

\* A name that is a file, is deleted, and comes back as a directory.
DirRequests ==
  On("stream", {DF}, FirstEdits) \cup On("write", {D}, {At(d1)})
    \cup On("delete", {D}, {At(d1)}) \cup On("mkdir", {D}, Edits)

\* One file, written and deleted over and over.
OneFileRequests == On("write", {A}, {At(d1)}) \cup On("delete", {A}, {At(d1)})

LookRequests ==
  OneFileRequests \cup On("stat", {A}, {EmptyClock}) \cup On("read", {A}, {EmptyClock})
    \cup On("list", {Root}, {EmptyClock})

HostRequests == FileRequests \cup DirRequests

\* A scenario: what is asked, and how many requests and crashes there are.
Asking(requests, n) == [asked |-> requests, budget |-> n]

FilesDirsMoves ==
  {Asking(FileRequests, 3), Asking(DirRequests, 3), Asking(MoveRequests, 4)}
JustEdits == {Asking(EditRequests, 4)}
JustLooks == {Asking(LookRequests, 3)}
=============================================================================
