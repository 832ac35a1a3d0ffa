------------------------ MODULE JournaledMapRefinement ------------------------
(***************************************************************************)
(* The store implements DurableMap: every step of JournaledMap is a step   *)
(* of the abstract map or leaves it as it is, for every set of keys and    *)
(* values and every point of a crash, as long as no append is cut short    *)
(* while the process goes on running.                                      *)
(***************************************************************************)
EXTENDS JournaledMapProofs

\* Two maps that agree on every key are the same.
LEMMA SameMap ==
  ASSUME NEW f \in Map, NEW g \in Map, \A k \in Key : f[k] = g[k]
  PROVE  f = g
  BY DEF Map

\* Making changes to a map is replaying them over it.
LEMMA ApplyOps ==
  ASSUME NEW base \in Map, NEW ls \in Seq(OpLine)
  PROVE  /\ Durable!Apply(base, ls) \in Map
         /\ \A k \in Key : Durable!Apply(base, ls)[k] =
              IF About(ls, k) = {} THEN base[k] ELSE ls[LastAbout(ls, k)].v
<1>1. \A k \in Key : Durable!Apply(base, ls)[k] =
        IF About(ls, k) = {} THEN base[k] ELSE ls[LastAbout(ls, k)].v
  <2>. SUFFICES ASSUME NEW k \in Key
                PROVE  Durable!Apply(base, ls)[k] =
                         IF About(ls, k) = {} THEN base[k] ELSE ls[LastAbout(ls, k)].v
    OBVIOUS
  <2>1. Durable!About(ls, k) = About(ls, k)
    BY AboutOps DEF Durable!About
  <2>. QED
    BY <2>1 DEF Durable!Apply, LastAbout
<1>2. \A k \in Key : Durable!Apply(base, ls)[k] \in Slot
  <2>1. ls \in Seq(Line)
    BY DEF Line
  <2>. QED
    BY <1>1, <2>1, LastAboutFact, LineKinds DEF Map
<1>. QED
  BY <1>1, <1>2 DEF Durable!Apply, Map

\* Lines appended to a clean journal take effect for a restart as changes do.
LEMMA StoredAppend ==
  ASSUME NEW ls \in Seq(OpLine), NEW more \in Seq(Line),
         \A k \in Key : About(more, k) = About(ls, k)
                        /\ \A i \in About(ls, k) : more[i] = ls[i]
  PROVE  TypeOK /\ (\A i \in DOMAIN journal : ~IsBad(journal[i]))
         => Replay(snapshot, journal \o more) = Durable!Apply(Recovered, ls)
<1>. SUFFICES ASSUME TypeOK, \A i \in DOMAIN journal : ~IsBad(journal[i])
              PROVE  Replay(snapshot, journal \o more) = Durable!Apply(Recovered, ls)
  OBVIOUS
<1>1. snapshot \in Map /\ journal \in Seq(Line) /\ journal \o more \in Seq(Line)
  BY ConcatProperties DEF TypeOK
<1>2. Recovered \in Map /\ Replay(snapshot, journal \o more) \in Map
  BY <1>1, ReplayType DEF Recovered
<1>3. ASSUME NEW k \in Key
      PROVE  Replay(snapshot, journal \o more)[k] = Durable!Apply(Recovered, ls)[k]
  <2>1. Replay(snapshot, journal \o more)[k] =
          IF About(more, k) = {} THEN Recovered[k] ELSE more[LastAbout(more, k)].v
    BY <1>1, ReplayAppend DEF Recovered
  <2>2. Durable!Apply(Recovered, ls)[k] =
          IF About(ls, k) = {} THEN Recovered[k] ELSE ls[LastAbout(ls, k)].v
    BY <1>2, ApplyOps
  <2>3. LastAbout(more, k) = LastAbout(ls, k)
    BY DEF LastAbout
  <2>4. ls \in Seq(Line)
    BY DEF Line
  <2>5. About(ls, k) # {} => LastAbout(ls, k) \in About(ls, k)
    BY <2>4, LastAboutIsLast
  <2>. QED
    BY <2>1, <2>2, <2>3, <2>5
<1>. QED
  BY <1>2, <1>3, ApplyOps, SameMap

\* A line that does not parse adds nothing to the lines before it.
LEMMA BadTail ==
  ASSUME NEW ls \in Seq(OpLine), NEW bad \in BadLine, NEW k \in Key
  PROVE  /\ About(Append(ls, bad), k) = About(ls, k)
         /\ \A i \in About(ls, k) : Append(ls, bad)[i] = ls[i]
<1>. DEFINE more == Append(ls, bad)
<1>1. /\ Len(more) = Len(ls) + 1 /\ more[Len(ls) + 1] = bad
      /\ \A i \in 1..Len(ls) : more[i] = ls[i]
      /\ DOMAIN more = 1..(Len(ls) + 1) /\ DOMAIN ls = 1..Len(ls)
      /\ Len(ls) \in Nat
  OBVIOUS
<1>2. IsBad(bad)
  BY DEF BadLine, IsBad
<1>3. \A i \in DOMAIN ls : ~IsBad(ls[i])
  BY LineKinds
<1>. HIDE DEF more
<1>4. Readable(more) = DOMAIN ls
  <2>1. ASSUME NEW i \in DOMAIN ls PROVE i \in Readable(more)
    BY <1>1, <1>3 DEF Readable
  <2>2. ASSUME NEW i \in Readable(more) PROVE i \in DOMAIN ls
    BY <1>1, <1>2 DEF Readable
  <2>. QED
    BY <2>1, <2>2
<1>5. About(ls, k) = {i \in DOMAIN ls : ls[i].k = k}
  BY AboutOps
<1>6. About(more, k) = {i \in DOMAIN ls : more[i].k = k}
  BY <1>4 DEF About
<1>. QED
  BY <1>1, <1>5, <1>6 DEF more

-----------------------------------------------------------------------------
(* The steps.                                                               *)

\* An operation is a change, or nothing when it has no line to write.
LEMMA OperationRefines == DurableInv /\ Operation => [Durable!Next]_(Durable!dvars)
<1>. SUFFICES ASSUME DurableInv, Operation
              PROVE  Durable!Change \/ UNCHANGED Durable!dvars
  BY DEF Durable!Next
<1>1. PICK newMem \in Map, ls \in Seq(OpLine) :
        pc = "idle" /\ Start(newMem, ls) /\ Tells(newMem, ls)
  BY OperationStarts DEF Starts
<1>2. /\ mem' = newMem /\ lines' = ls /\ pc' = IF ls = <<>> THEN "idle" ELSE "append"
      /\ snapshot' = snapshot /\ journal' = journal
  BY <1>1 DEF Start
<1>3. mem \in Map /\ lines = <<>> /\ Running /\ Running'
  BY <1>1, <1>2 DEF DurableInv, TypeOK, InFlight, Running
<1>4. Recovered' = Recovered
  BY <1>2 DEF Recovered
<1>5. Durable!Apply(mem, ls) = newMem
  BY <1>1, <1>3, ApplyOps, SameMap DEF Tells
<1>6. CASE ls = <<>>
  <2>1. \A k \in Key : About(ls, k) = {}
    BY <1>6 DEF About, Readable
  <2>2. newMem = mem
    BY <2>1, <1>1, <1>3, SameMap DEF Tells
  <2>. QED
    BY <2>2, <1>2, <1>3, <1>4, <1>6 DEF Durable!dvars
<1>7. CASE ls # <<>>
  <2>1. \A i \in DOMAIN ls : ls[i].k \in Key /\ ls[i].v \in Slot
    BY LineKinds
  <2>. QED
    BY <2>1, <1>2, <1>3, <1>4, <1>5, <1>7
       DEF Durable!Change, Durable!Slot, Slot
<1>. QED
  BY <1>6, <1>7

\* A whole append commits the changes of the call.
LEMMA AppendDoneRefines == DurableInv /\ AppendDone => Durable!Commit
<1>. SUFFICES ASSUME DurableInv, AppendDone PROVE Durable!Commit
  OBVIOUS
<1>1. terminated /\ \A i \in DOMAIN journal : ~IsBad(journal[i])
  BY AppendReady DEF AppendDone
<1>2. lines \in Seq(OpLine) /\ lines \in Seq(Line) /\ TypeOK
  BY DEF DurableInv, TypeOK, Line
<1>3. journal' = journal \o lines
  <2>1. SubSeq(lines, 1, Len(lines)) = lines
    BY <1>2
  <2>2. journal' = Glue(journal, SubSeq(lines, 1, Len(lines)))
    BY DEF AppendDone, CutAppend
  <2>. QED
    BY <2>1, <2>2, <1>1, GlueClean
<1>4. Recovered' = Durable!Apply(Recovered, lines)
  <2>1. Replay(snapshot, journal \o lines) = Durable!Apply(Recovered, lines)
    BY <1>1, <1>2, StoredAppend
  <2>. QED
    BY <2>1, <1>3 DEF Recovered, AppendDone
<1>5. Running /\ Running'
  BY DEF AppendDone, Acknowledge, Running
<1>6. lines # <<>> /\ lines' = <<>> /\ mem' = mem
  BY DEF AppendDone, DurableInv, InFlight
<1>. QED
  BY <1>4, <1>5, <1>6 DEF Durable!Commit

\* An append of which nothing reached the file drops them.
LEMMA AppendErrorRefines ==
  ASSUME NEW n \in Nat, NEW tear
  PROVE  DurableInv /\ "partial_write" \notin Faults /\ AppendError(n, tear)
         => Durable!Fail
<1>. SUFFICES ASSUME DurableInv, "partial_write" \notin Faults, AppendError(n, tear)
              PROVE  Durable!Fail
  OBVIOUS
<1>1. n = 0 /\ tear = "clean" /\ terminated
  BY AppendReady DEF AppendError
<1>2. journal' = journal
  <2>1. SubSeq(lines, 1, 0) = <<>> /\ journal \in Seq(Line)
    BY DEF DurableInv, TypeOK
  <2>2. journal' = Glue(journal, SubSeq(lines, 1, 0))
    BY <1>1 DEF AppendError, CutAppend
  <2>. QED
    BY <2>1, <2>2, <1>1, GlueClean, ConcatEmptySeq
<1>3. Recovered' = Recovered /\ mem' = mem /\ lines' = <<>> /\ Running /\ Running'
  BY <1>2 DEF AppendError, Recovered, Running
<1>4. lines # <<>>
  BY DEF AppendError, DurableInv, InFlight
<1>. QED
  BY <1>3, <1>4 DEF Durable!Fail

\* Making no change.
LEMMA ApplyNothing ==
  ASSUME NEW base \in Map
  PROVE  Durable!Apply(base, <<>>) = base
<1>1. <<>> \in Seq(OpLine) /\ \A k \in Key : About(<<>>, k) = {}
  BY DEF About, Readable
<1>2. /\ Durable!Apply(base, <<>>) \in Map
      /\ \A k \in Key : Durable!Apply(base, <<>>)[k] = base[k]
  <2>. DEFINE none == <<>>
  <2>1. none \in Seq(OpLine) /\ \A k \in Key : About(none, k) = {}
    BY <1>1
  <2>. HIDE DEF none
  <2>2. /\ Durable!Apply(base, none) \in Map
        /\ \A k \in Key : Durable!Apply(base, none)[k] = base[k]
    BY <2>1, ApplyOps
  <2>. QED
    BY <2>2 DEF none
<1>. QED
  BY <1>2, SameMap

\* After a death a restart finds a first part of the changes in progress.
LEMMA CrashRefines ==
  ASSUME NEW n \in Nat, NEW tear \in Tears \cup {"clean"}
  PROVE  DurableInv /\ Crash(n, tear) => Durable!Crash
<1>. SUFFICES ASSUME DurableInv, Crash(n, tear) PROVE Durable!Crash
  OBVIOUS
<1>1. /\ Running /\ Running' = FALSE /\ lines' = <<>> /\ mem' = mem
      /\ snapshot' = snapshot
  BY DEF Crash, Running
<1>2. TypeOK /\ lines \in Seq(OpLine) /\ Len(lines) \in Nat /\ Recovered \in Map
  BY ReplayType DEF DurableInv, TypeOK, Recovered
<1>3. SUFFICES \E i \in 0..Len(lines) :
                 Recovered' = Durable!Apply(Recovered, SubSeq(lines, 1, i))
  BY <1>1 DEF Durable!Crash
<1>4. CASE pc # "append"
  <2>1. Recovered' = Recovered
    BY <1>1, <1>4 DEF Crash, Recovered
  <2>2. SubSeq(lines, 1, 0) = <<>>
    BY <1>2
  <2>3. Recovered' = Durable!Apply(Recovered, SubSeq(lines, 1, 0))
    BY <2>1, <2>2, <1>2, ApplyNothing
  <2>4. 0 \in 0..Len(lines)
    BY <1>2
  <2>. QED
    BY <2>3, <2>4
<1>5. CASE pc = "append"
  <2>. DEFINE whole == SubSeq(lines, 1, n)
  <2>1. terminated /\ \A i \in DOMAIN journal : ~IsBad(journal[i])
    BY <1>5, AppendReady
  <2>2. /\ n \in 0..Len(lines) /\ CutAppend(n, tear)
        /\ tear # "clean" => n + 1 \in 1..Len(lines)
    BY <1>2, <1>5 DEF Crash
  <2>3. whole \in Seq(OpLine)
    BY <2>2, <1>2
  <2>4. ASSUME NEW more \in Seq(Line), NEW i \in 0..Len(lines),
               journal' = Glue(journal, more), SubSeq(lines, 1, i) \in Seq(OpLine),
               \A k \in Key : /\ About(more, k) = About(SubSeq(lines, 1, i), k)
                              /\ \A h \in About(SubSeq(lines, 1, i), k) :
                                   more[h] = SubSeq(lines, 1, i)[h]
        PROVE  Recovered' = Durable!Apply(Recovered, SubSeq(lines, 1, i))
    <3>1. Recovered' = Replay(snapshot, journal \o more)
      BY <2>1, <2>4, <1>1, GlueClean DEF Recovered
    <3>. QED
      BY <3>1, <2>1, <2>4, <1>2, StoredAppend
  <2>5. CASE tear = "clean"
    <3>1. journal' = Glue(journal, whole) /\ whole \in Seq(Line)
      BY <2>2, <2>3, <2>5 DEF CutAppend, Line
    <3>. QED
      BY <3>1, <2>2, <2>3, <2>4
  <2>6. CASE tear = "no_newline"
    <3>1. /\ journal' = Glue(journal, Append(whole, lines[n + 1]))
          /\ n + 1 \in 0..Len(lines)
      BY <2>2, <2>6 DEF CutAppend
    <3>2. /\ Append(whole, lines[n + 1]) = SubSeq(lines, 1, n + 1)
          /\ SubSeq(lines, 1, n + 1) \in Seq(OpLine)
      BY <2>2, <2>6, <1>2
    <3>3. SubSeq(lines, 1, n + 1) \in Seq(Line)
      BY <3>2 DEF Line
    <3>. QED
      BY <3>1, <3>2, <3>3, <2>4
  <2>7. CASE tear \notin {"clean", "no_newline"}
    <3>1. journal' = Glue(journal, Append(whole, [kind |-> tear]))
      BY <2>2, <2>7 DEF CutAppend
    <3>2. [kind |-> tear] \in BadLine
      BY <2>7, JournalAssumption DEF Tear, BadLine
    <3>3. Append(whole, [kind |-> tear]) \in Seq(Line)
      BY <2>3, <3>2 DEF Line
    <3>. QED
      BY <3>1, <3>2, <3>3, <2>2, <2>3, <2>4, BadTail
  <2>. QED
    BY <2>5, <2>6, <2>7
<1>. QED
  BY <1>4, <1>5

\* The renaming of a compaction settles every key the journal is silent about,
\* and the truncation the others.
LEMMA CompactionRefines ==
  DurableInv /\ (RenameTmp \/ TruncateJournal) => Durable!Settle
<1>. SUFFICES ASSUME DurableInv, RenameTmp \/ TruncateJournal PROVE Durable!Settle
  OBVIOUS
<1>1. /\ Running /\ Running' /\ mem' = mem /\ lines = <<>> /\ lines' = <<>>
  BY DEF RenameTmp, TruncateJournal, Acknowledge, Running, DurableInv, InFlight
<1>2. SUFFICES \E K \in SUBSET Key :
        Recovered' = [k \in Key |-> IF k \in K THEN mem[k] ELSE Recovered[k]]
  BY <1>1 DEF Durable!Settle
<1>3. CASE RenameTmp
  <2>. DEFINE K == {k \in Key : About(journal, k) = {}}
  <2>1. snapshot' = mem /\ journal' = journal
    BY <1>3 DEF RenameTmp
  <2>2. Recovered' = [k \in Key |-> IF k \in K THEN mem[k] ELSE Recovered[k]]
    BY <2>1 DEF Recovered, Replay
  <2>. QED
    BY <2>2
<1>4. CASE TruncateJournal
  <2>1. snapshot' = mem /\ journal' = <<>>
    BY <1>4 DEF TruncateJournal, DurableInv, InFlight
  <2>2. \A k \in Key : About(<<>>, k) = {}
    BY DEF About, Readable
  <2>3. Recovered' = [k \in Key |-> IF k \in Key THEN mem[k] ELSE Recovered[k]]
    BY <2>1, <2>2 DEF Recovered, Replay
  <2>. QED
    BY <2>3
<1>. QED
  BY <1>3, <1>4

\* Opening reads what is stored.
LEMMA OpenRefines == DurableInv /\ Open => Durable!Open
<1>. SUFFICES ASSUME DurableInv, Open PROVE Durable!Open
  OBVIOUS
<1>1. /\ ~Running /\ Running' /\ mem' = Recovered /\ lines' = lines
      /\ snapshot' = snapshot /\ journal' = journal
  BY DEF Open, Running
<1>. QED
  BY <1>1 DEF Durable!Open, Recovered

\* Steps that touch neither the map nor what a restart finds of it: they are
\* invisible, or, when the compaction of open fails, like a death.
LEMMA ControlStepsRefine ==
  DurableInv /\ (WriteTmp \/ CompactError \/ OpenRefused \/ Retry \/ UNCHANGED vars)
  => [Durable!Next]_(Durable!dvars)
<1>. SUFFICES ASSUME DurableInv,
                     WriteTmp \/ CompactError \/ OpenRefused \/ Retry \/ UNCHANGED vars
              PROVE  Durable!Crash \/ UNCHANGED Durable!dvars
  BY DEF Durable!Next
<1>1. mem' = mem /\ lines' = lines /\ snapshot' = snapshot /\ journal' = journal
  BY DEF WriteTmp, CompactError, OpenRefused, Retry, vars
<1>2. Recovered' = Recovered
  BY <1>1 DEF Recovered
<1>3. CASE Running' = Running
  BY <1>1, <1>2, <1>3 DEF Durable!dvars
<1>4. CASE Running' # Running
  <2>1. Running /\ ~Running' /\ pc # "append"
    BY <1>4 DEF WriteTmp, CompactError, OpenRefused, Retry, vars, Running
  <2>2. lines = <<>> /\ lines' = <<>> /\ Len(lines) = 0 /\ SubSeq(lines, 1, 0) = <<>>
    BY <2>1, <1>1 DEF DurableInv, InFlight
  <2>3. Recovered \in Map
    BY ReplayType DEF DurableInv, TypeOK, Recovered
  <2>4. Recovered' = Durable!Apply(Recovered, SubSeq(lines, 1, 0))
    BY <2>2, <2>3, <1>2, ApplyNothing
  <2>5. 0 \in 0..Len(lines)
    BY <2>2
  <2>6. Running' = FALSE
    BY <2>1 DEF Running
  <2>. QED
    BY <2>1, <2>2, <2>4, <2>5, <2>6, <1>1 DEF Durable!Crash
<1>. QED
  BY <1>3, <1>4

-----------------------------------------------------------------------------
\* The store starts as the durable map does.
LEMMA InitRefines == Init => Durable!Init
<1>1. Init => Recovered = [k \in Key |-> NoValue]
  BY DEF Init, Recovered, Replay, About, Readable, EmptyMap
<1>. QED
  BY <1>1 DEF Init, Durable!Init, EmptyMap, Running

\* Every step of the store is a step of the durable map, or changes nothing
\* of it.
LEMMA NextRefines ==
  DurableInv /\ "partial_write" \notin Faults /\ [Next]_vars
  => [Durable!Next]_(Durable!dvars)
<1>. SUFFICES ASSUME DurableInv, "partial_write" \notin Faults, [Next]_vars
              PROVE  [Durable!Next]_(Durable!dvars)
  OBVIOUS
<1>1. CASE Operation
  BY <1>1, OperationRefines
<1>2. CASE AppendDone
  BY <1>2, AppendDoneRefines DEF Durable!Next
<1>3. CASE \E n \in 0..Len(lines), tear \in Tears \cup {"clean"} :
             AppendError(n, tear) \/ Crash(n, tear)
  BY <1>3, AppendErrorRefines, CrashRefines DEF Durable!Next
<1>4. CASE RenameTmp \/ TruncateJournal
  BY <1>4, CompactionRefines DEF Durable!Next
<1>5. CASE Open
  BY <1>5, OpenRefines DEF Durable!Next
<1>6. CASE WriteTmp \/ CompactError \/ OpenRefused \/ Retry \/ UNCHANGED vars
  BY <1>6, ControlStepsRefine
<1>. QED
  BY <1>1, <1>2, <1>3, <1>4, <1>5, <1>6 DEF Next

\* The store implements the abstract map: what put, remove_many, rekey_subtree,
\* append, compact and open do to memory and files, with a death between any
\* two file operations, is a behaviour of DurableMap, for every set of keys and
\* values, as long as no append is cut short while the process runs on.
THEOREM StoreIsDurable ==
  ASSUME "partial_write" \notin Faults
  PROVE  Spec => ImplementsDurableMap
<1>1. Init => Durable!Init
  BY InitRefines
<1>2. DurableInv /\ [Next]_vars => [Durable!Next]_(Durable!dvars)
  BY NextRefines
<1>. QED
  BY <1>1, <1>2, DurableInvariant, PTL DEF Spec, ImplementsDurableMap, Durable!Spec
=============================================================================
