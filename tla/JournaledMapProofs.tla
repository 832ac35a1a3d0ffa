-------------------------- MODULE JournaledMapProofs --------------------------
(***************************************************************************)
(* What JournaledMap keeps of an acknowledged change, proved for every set *)
(* of keys and values, every journal length and every point of a crash, as *)
(* long as no append is cut short while the process goes on running.       *)
(***************************************************************************)
EXTENDS JournaledMap, WellFoundedInduction, SequenceTheorems, FiniteSetTheorems, TLAPS

\* A nonempty set of indices below a bound has a largest element.
LEMMA LargestIndex ==
  ASSUME NEW n \in Nat, NEW S, S \subseteq 1..n, S # {}
  PROVE  \E x \in S : \A y \in S : y <= x
<1>. DEFINE T == {t \in Nat : n - t \in S}
<1>1. PICK s \in S : TRUE
  OBVIOUS
<1>2. n - s \in T
  OBVIOUS
<1>3. \E t \in T : \A u \in T : ~ (<<u, t>> \in OpToRel(<, Nat))
  <2>1. T \subseteq Nat /\ T # {}
    BY <1>2
  <2>. QED
    BY <2>1, NatLessThanWellFounded, WFMin
<1>4. PICK t \in T : \A u \in T : ~ (<<u, t>> \in OpToRel(<, Nat))
  BY <1>3
<1>5. ASSUME NEW u \in T PROVE t <= u
  <2>1. ~ (<<u, t>> \in {ss \in Nat \X Nat : ss[1] < ss[2]})
    BY <1>4 DEF OpToRel
  <2>. QED
    BY <2>1
<1>6. ASSUME NEW y \in S PROVE y <= n - t
  <2>1. n - y \in T /\ y \in 1..n
    OBVIOUS
  <2>. QED
    BY <2>1, <1>5
<1>. QED
  BY <1>6

\* LastAbout is what its name says wherever the key occurs at all.
LEMMA LastAboutIsLast ==
  ASSUME NEW j \in Seq(Line), NEW k \in Key, About(j, k) # {}
  PROVE  /\ LastAbout(j, k) \in About(j, k)
         /\ \A i \in About(j, k) : i <= LastAbout(j, k)
<1>1. About(j, k) \subseteq 1..Len(j) /\ Len(j) \in Nat
  BY DEF About, Readable
<1>2. \E i \in About(j, k) : \A h \in About(j, k) : h <= i
  BY <1>1, LargestIndex
<1>. QED
  BY <1>2 DEF LastAbout

\* A line about a key with none about it after it is the last one.
LEMMA LastAboutUnique ==
  ASSUME NEW j \in Seq(Line), NEW k \in Key, NEW i \in About(j, k),
         \A h \in About(j, k) : h <= i
  PROVE  LastAbout(j, k) = i
<1>1. About(j, k) # {} /\ About(j, k) \subseteq 1..Len(j)
  BY DEF About, Readable
<1>2. LastAbout(j, k) \in About(j, k) /\ i <= LastAbout(j, k)
  BY <1>1, LastAboutIsLast
<1>3. LastAbout(j, k) <= i
  BY <1>2
<1>. QED
  BY <1>1, <1>2, <1>3

\* Lines appended behind a journal without bad lines override what it says of
\* a key and leave the rest.
LEMMA ReplayAppend ==
  ASSUME NEW base \in Map, NEW j \in Seq(Line), NEW ls \in Seq(Line), NEW k \in Key,
         \A i \in DOMAIN j : ~IsBad(j[i])
  PROVE  Replay(base, j \o ls)[k] =
           IF About(ls, k) = {} THEN Replay(base, j)[k] ELSE ls[LastAbout(ls, k)].v
<1>. DEFINE c == j \o ls
<1>1. /\ c \in Seq(Line)
      /\ Len(c) = Len(j) + Len(ls)
      /\ \A i \in 1..Len(j) : c[i] = j[i]
      /\ \A i \in 1..Len(ls) : c[Len(j) + i] = ls[i]
  BY ConcatProperties
<1>2. /\ DOMAIN j = 1..Len(j) /\ DOMAIN ls = 1..Len(ls) /\ DOMAIN c = 1..Len(c)
      /\ Len(j) \in Nat /\ Len(ls) \in Nat
  BY <1>1
<1>. HIDE DEF c
<1>3. ASSUME NEW i \in 1..Len(j) PROVE i \in Readable(c) /\ i \in Readable(j)
  BY <1>1, <1>2, SMTT(30) DEF Readable
<1>4. ASSUME NEW i \in 1..Len(ls)
      PROVE  Len(j) + i \in Readable(c) <=> i \in Readable(ls)
  <2>1. ASSUME i \in Readable(ls) PROVE Len(j) + i \in Readable(c)
    <3>1. ASSUME NEW h \in 1..(Len(j) + i) PROVE ~IsBad(c[h])
      <4>1. CASE h <= Len(j)
        BY <4>1, <1>1, <1>2, SMTT(30)
      <4>2. CASE h > Len(j)
        <5>1. h - Len(j) \in 1..i /\ h - Len(j) \in 1..Len(ls)
          BY <4>2, <1>2
        <5>2. c[Len(j) + (h - Len(j))] = ls[h - Len(j)]
          BY <5>1, <1>1
        <5>3. ~IsBad(ls[h - Len(j)])
          BY <2>1, <5>1 DEF Readable
        <5>. QED
          BY <5>2, <5>3, <1>2
      <4>. QED
        BY <4>1, <4>2, <1>2
    <3>. QED
      BY <3>1, <1>1, <1>2 DEF Readable
  <2>2. ASSUME Len(j) + i \in Readable(c) PROVE i \in Readable(ls)
    <3>1. ASSUME NEW h \in 1..i PROVE ~IsBad(ls[h])
      <4>1. Len(j) + h \in 1..(Len(j) + i) /\ h \in 1..Len(ls)
        BY <1>2
      <4>2. ~IsBad(c[Len(j) + h])
        BY <2>2, <4>1 DEF Readable
      <4>. QED
        BY <4>1, <4>2, <1>1
    <3>. QED
      BY <3>1, <1>2 DEF Readable
  <2>. QED
    BY <2>1, <2>2
<1>5. \A i \in About(c, k) : \/ i \in About(j, k)
                             \/ i > Len(j) /\ i - Len(j) \in About(ls, k)
  <2>. SUFFICES ASSUME NEW i \in About(c, k)
                PROVE  \/ i \in About(j, k)
                       \/ i > Len(j) /\ i - Len(j) \in About(ls, k)
    OBVIOUS
  <2>1. i \in 1..Len(c) /\ i \in Readable(c) /\ c[i].k = k
    BY <1>2 DEF About, Readable
  <2>2. CASE i <= Len(j)
    BY <2>1, <2>2, <1>1, <1>2, <1>3 DEF About
  <2>3. CASE i > Len(j)
    <3>1. i - Len(j) \in 1..Len(ls) /\ Len(j) + (i - Len(j)) = i
      BY <2>1, <2>3, <1>1, <1>2
    <3>. QED
      BY <2>1, <2>3, <3>1, <1>1, <1>4 DEF About
  <2>. QED
    BY <2>1, <2>2, <2>3, <1>2
<1>6. \A i \in About(ls, k) : Len(j) + i \in About(c, k)
  BY <1>1, <1>2, <1>4 DEF About, Readable
<1>7. \A i \in About(j, k) : i \in About(c, k)
  BY <1>1, <1>2, <1>3 DEF About, Readable
<1>8. About(j, k) \subseteq 1..Len(j) /\ About(ls, k) \subseteq 1..Len(ls)
  BY DEF About, Readable
<1>9. CASE About(ls, k) = {}
  <2>1. About(c, k) = About(j, k)
    BY <1>5, <1>7, <1>9
  <2>2. CASE About(j, k) = {}
    BY <2>1, <2>2, <1>9 DEF Replay, c
  <2>3. CASE About(j, k) # {}
    <3>1. LastAbout(c, k) = LastAbout(j, k)
      BY <2>1 DEF LastAbout
    <3>2. LastAbout(j, k) \in 1..Len(j)
      BY <2>3, <1>8, LastAboutIsLast
    <3>. QED
      BY <2>1, <2>3, <3>1, <3>2, <1>1, <1>9 DEF Replay, c
  <2>. QED
    BY <2>2, <2>3
<1>10. CASE About(ls, k) # {}
  <2>. DEFINE l == LastAbout(ls, k)
  <2>1. l \in About(ls, k) /\ \A i \in About(ls, k) : i <= l
    BY <1>10, LastAboutIsLast
  <2>2. l \in 1..Len(ls)
    BY <2>1, <1>8
  <2>. HIDE DEF l
  <2>3. Len(j) + l \in About(c, k)
    BY <2>1, <1>6
  <2>4. \A i \in About(c, k) : i <= Len(j) + l
    BY <1>5, <2>1, <2>2, <1>8, <1>2
  <2>5. LastAbout(c, k) = Len(j) + l
    BY <2>3, <2>4, <1>1, LastAboutUnique
  <2>6. c[LastAbout(c, k)] = ls[l]
    BY <2>5, <2>2, <1>1
  <2>7. Replay(base, c)[k] = c[LastAbout(c, k)].v
    BY <2>3 DEF Replay
  <2>. QED
    BY <2>6, <2>7, <1>10 DEF l, c
<1>. QED
  BY <1>9, <1>10

-----------------------------------------------------------------------------
(* Types of what the steps compute.                                         *)

\* A line is one of the journal's operations, or cannot be parsed.
LEMMA LineKinds ==
  /\ \A l \in Line : ~IsBad(l) => l \in OpLine /\ l.v \in Slot /\ l.k \in Key
  /\ \A l \in OpLine : l \in Line /\ ~IsBad(l) /\ l.v \in Slot /\ l.k \in Key
  BY DEF Line, OpLine, BadLine, IsBad

\* Replaying a journal over a map gives a map.
LEMMA ReplayType ==
  ASSUME NEW base \in Map, NEW j \in Seq(Line)
  PROVE  Replay(base, j) \in Map
<1>. SUFFICES ASSUME NEW k \in Key, About(j, k) # {}
              PROVE  j[LastAbout(j, k)].v \in Slot
  BY DEF Replay, Map
<1>1. LastAbout(j, k) \in Readable(j)
  BY LastAboutIsLast DEF About
<1>2. LastAbout(j, k) \in DOMAIN j /\ ~IsBad(j[LastAbout(j, k)])
  BY <1>1 DEF Readable
<1>. QED
  BY <1>2, LineKinds

\* In a sequence of operations every line is replayed.
LEMMA AboutOps ==
  ASSUME NEW ls \in Seq(OpLine), NEW k \in Key
  PROVE  About(ls, k) = {i \in DOMAIN ls : ls[i].k = k}
<1>1. \A i \in DOMAIN ls : ls[i] \in OpLine /\ 1..i \subseteq DOMAIN ls
  OBVIOUS
<1>2. Readable(ls) = DOMAIN ls
  BY <1>1, LineKinds DEF Readable
<1>. QED
  BY <1>2 DEF About

\* A line that can be replayed is one of those written.
LEMMA LastAboutFact ==
  ASSUME NEW ls \in Seq(Line), NEW k \in Key, About(ls, k) # {}
  PROVE  /\ LastAbout(ls, k) \in DOMAIN ls
         /\ ~IsBad(ls[LastAbout(ls, k)])
         /\ ls[LastAbout(ls, k)].k = k
<1>1. LastAbout(ls, k) \in About(ls, k)
  BY LastAboutIsLast
<1>. QED
  BY <1>1 DEF About, Readable

\* Whatever part of a batch reaches a clean journal, a restart finds a value
\* the batch was allowed to leave.
LEMMA AppendKeepsAllowed ==
  ASSUME NEW ls \in Seq(Line)
  PROVE  /\ TypeOK
         /\ AcknowledgedSurvives
         /\ \A i \in DOMAIN journal : ~IsBad(journal[i])
         /\ \A i \in DOMAIN ls : ~IsBad(ls[i]) => ls[i].v \in allowed[ls[i].k]
         => \A k \in Key : Replay(snapshot, journal \o ls)[k] \in allowed[k]
<1>. SUFFICES ASSUME TypeOK, AcknowledgedSurvives,
                     \A i \in DOMAIN journal : ~IsBad(journal[i]),
                     \A i \in DOMAIN ls : ~IsBad(ls[i]) => ls[i].v \in allowed[ls[i].k],
                     NEW k \in Key
              PROVE  Replay(snapshot, journal \o ls)[k] \in allowed[k]
  OBVIOUS
<1>1. snapshot \in Map /\ journal \in Seq(Line)
  BY DEF TypeOK
<1>2. Replay(snapshot, journal \o ls)[k] =
        IF About(ls, k) = {} THEN Replay(snapshot, journal)[k]
        ELSE ls[LastAbout(ls, k)].v
  BY <1>1, ReplayAppend
<1>3. CASE About(ls, k) = {}
  BY <1>2, <1>3 DEF AcknowledgedSurvives, Recovered
<1>4. CASE About(ls, k) # {}
  BY <1>2, <1>4, LastAboutFact
<1>. QED
  BY <1>3, <1>4

-----------------------------------------------------------------------------
(* The steps of an append.                                                  *)

\* What is appended to a journal that ends with a newline is not glued to
\* anything.
LEMMA GlueClean ==
  ASSUME NEW j, NEW ls
  PROVE  terminated => Glue(j, ls) = j \o ls
  BY DEF Glue

\* When an operation is about to append, the journal is clean and has nothing
\* that does not parse.
LEMMA AppendReady ==
  DurableInv /\ pc = "append" =>
    terminated /\ ~opening /\ \A i \in DOMAIN journal : ~IsBad(journal[i])
  BY DEF DurableInv, CleanJournal, InFlight, Running

\* A whole append keeps DurableInv, with or without a compaction after it.
LEMMA AppendDonePreserves == DurableInv /\ AppendDone => DurableInv'
<1>. SUFFICES ASSUME DurableInv, AppendDone PROVE DurableInv'
  OBVIOUS
<1>. USE DEF DurableInv
<1>1. terminated /\ ~opening /\ \A i \in DOMAIN journal : ~IsBad(journal[i])
  BY AppendReady DEF AppendDone
<1>2. journal \in Seq(Line) /\ lines \in Seq(OpLine) /\ lines \in Seq(Line)
  BY DEF TypeOK, Line
<1>3. journal' = journal \o lines /\ terminated'
  <2>1. SubSeq(lines, 1, Len(lines)) = lines
    BY <1>2
  <2>2. journal' = Glue(journal, SubSeq(lines, 1, Len(lines))) /\ terminated'
    BY <1>1 DEF AppendDone, CutAppend
  <2>. QED
    BY <2>1, <2>2, <1>1, GlueClean
<1>4. \A i \in DOMAIN lines : lines[i] \in OpLine
  BY <1>2
<1>5. \A i \in DOMAIN journal' : ~IsBad(journal'[i])
  BY <1>1, <1>2, <1>3, <1>4, LineKinds, ConcatProperties
<1>6. /\ pc' \in {"compact", "idle"} /\ lines' = <<>>
      /\ mem' = mem /\ snapshot' = snapshot /\ opening' = opening
      /\ pending' = pending + Len(lines)
      /\ \/ pc' = "compact" /\ allowed' = allowed /\ stable' = stable
         \/ Acknowledge({lines[i].k : i \in DOMAIN lines})
  BY DEF AppendDone, Acknowledge
<1>7. TypeOK'
  <2>1. journal' \in Seq(Line) /\ lines' \in Seq(OpLine) /\ pending' \in Nat
    BY <1>2, <1>3, <1>6, ConcatProperties DEF TypeOK
  <2>2. stable' \in Map /\ allowed' \in [Key -> SUBSET Slot]
    BY <1>6 DEF TypeOK, Acknowledge, Map
  <2>. QED
    BY <2>1, <2>2, <1>3, <1>6 DEF TypeOK
<1>8. CleanJournal'
  BY <1>3, <1>5 DEF CleanJournal
<1>9. \A k \in Key : mem[k] \in allowed'[k]
  BY <1>6 DEF InFlight, Running, AppendDone, Acknowledge, TypeOK
<1>10. InFlight'
  BY <1>1, <1>6, <1>9 DEF InFlight
<1>11. AcknowledgedSurvives'
  <2>. SUFFICES ASSUME NEW k \in Key PROVE Recovered'[k] \in allowed'[k]
    BY DEF AcknowledgedSurvives
  <2>1. Recovered'[k] = IF About(lines, k) = {} THEN Recovered[k]
                        ELSE lines[LastAbout(lines, k)].v
    BY <1>1, <1>2, <1>3, <1>6, ReplayAppend DEF Recovered, TypeOK
  <2>2. About(lines, k) = {} <=> k \notin {lines[i].k : i \in DOMAIN lines}
    BY <1>2, AboutOps
  <2>3. CASE About(lines, k) = {}
    BY <2>1, <2>2, <2>3, <1>6 DEF AcknowledgedSurvives, Acknowledge
  <2>4. CASE About(lines, k) # {}
    <3>1. lines[LastAbout(lines, k)].v = mem[k]
      BY <2>4 DEF InFlight, AppendDone
    <3>. QED
      BY <3>1, <2>1, <2>4, <1>9
  <2>. QED
    BY <2>3, <2>4
<1>. QED
  BY <1>7, <1>8, <1>10, <1>11

\* An append that fails before it writes anything keeps DurableInv.
LEMMA AppendErrorPreserves ==
  ASSUME NEW n \in Nat, NEW tear
  PROVE  DurableInv /\ "partial_write" \notin Faults /\ AppendError(n, tear)
         => DurableInv'
<1>. SUFFICES ASSUME DurableInv, "partial_write" \notin Faults, AppendError(n, tear)
              PROVE  DurableInv'
  OBVIOUS
<1>. USE DEF DurableInv
<1>1. terminated /\ ~opening /\ \A i \in DOMAIN journal : ~IsBad(journal[i])
  BY AppendReady DEF AppendError
<1>2. n = 0 /\ tear = "clean"
  BY DEF AppendError
<1>3. journal' = journal /\ terminated' = terminated
  <2>1. SubSeq(lines, 1, 0) = <<>>
    BY DEF TypeOK
  <2>2. journal' = Glue(journal, <<>>) /\ terminated' = terminated
    BY <1>1, <1>2, <2>1 DEF AppendError, CutAppend
  <2>. QED
    BY <2>2, <1>1, GlueClean DEF TypeOK
<1>4. /\ pc' = "idle" /\ lines' = <<>>
      /\ UNCHANGED <<mem, pending, snapshot, opening, allowed, stable>>
  BY DEF AppendError
<1>5. TypeOK'
  BY <1>3, <1>4 DEF TypeOK
<1>6. CleanJournal'
  BY <1>1, <1>3 DEF CleanJournal
<1>7. InFlight'
  BY <1>1, <1>4 DEF InFlight, Running, AppendError
<1>8. AcknowledgedSurvives'
  BY <1>3, <1>4 DEF AcknowledgedSurvives, Recovered
<1>. QED
  BY <1>5, <1>6, <1>7, <1>8

\* A crash keeps DurableInv, also in the middle of an append.
LEMMA CrashPreserves ==
  ASSUME NEW n \in Nat, NEW tear \in Tears \cup {"clean"}
  PROVE  DurableInv /\ Crash(n, tear) => DurableInv'
<1>. SUFFICES ASSUME DurableInv, Crash(n, tear) PROVE DurableInv'
  OBVIOUS
<1>. USE DEF DurableInv
<1>1. /\ pc' = "down" /\ opening' = FALSE /\ lines' = <<>>
      /\ UNCHANGED <<mem, pending, snapshot, allowed, stable>>
  BY DEF Crash
<1>2. InFlight'
  BY <1>1 DEF InFlight, Running
<1>3. ASSUME NEW ls \in Seq(Line), journal' = journal \o ls, terminated' \in BOOLEAN,
             journal' = <<>> => terminated',
             \A i \in DOMAIN journal : ~IsBad(journal[i]),
             \A i \in DOMAIN ls : ~IsBad(ls[i]) => ls[i].v \in allowed[ls[i].k]
      PROVE  DurableInv'
  <2>1. journal' \in Seq(Line)
    BY <1>3, ConcatProperties DEF TypeOK
  <2>2. TypeOK'
    <3>1. lines' \in Seq(OpLine)
      BY <1>1
    <3>2. /\ mem' \in Map /\ snapshot' \in Map /\ stable' \in Map
          /\ pending' \in Nat /\ allowed' \in [Key -> SUBSET Slot]
      BY <1>1 DEF TypeOK
    <3>. QED
      BY <3>1, <3>2, <2>1, <1>1, <1>3 DEF TypeOK
  <2>3. CleanJournal'
    BY <1>1, <1>3 DEF CleanJournal, Running
  <2>4. AcknowledgedSurvives'
    BY <1>1, <1>3, AppendKeepsAllowed DEF AcknowledgedSurvives, Recovered
  <2>. QED
    BY <2>2, <2>3, <2>4, <1>2
<1>4. CASE pc # "append"
  <2>1. journal' = journal /\ terminated' = terminated
    BY <1>4 DEF Crash
  <2>2. lines' \in Seq(OpLine)
    BY <1>1
  <2>3. TypeOK'
    BY <2>1, <2>2, <1>1 DEF TypeOK
  <2>4. AcknowledgedSurvives'
    BY <2>1, <1>1 DEF AcknowledgedSurvives, Recovered
  <2>5. CleanJournal'
    BY <2>1, <1>1 DEF CleanJournal, Running
  <2>. QED
    BY <2>3, <2>4, <2>5, <1>2
<1>5. CASE pc = "append"
  <2>. DEFINE whole == SubSeq(lines, 1, n)
  <2>1. terminated /\ \A i \in DOMAIN journal : ~IsBad(journal[i])
    BY <1>5, AppendReady
  <2>2. /\ n \in 0..Len(lines)
        /\ tear # "clean" => n + 1 \in DOMAIN lines
        /\ CutAppend(n, tear)
        /\ lines \in Seq(OpLine)
    BY <1>5 DEF Crash, TypeOK
  <2>3. /\ whole \in Seq(Line) /\ Len(whole) = n
        /\ \A i \in 1..n : whole[i] = lines[i] /\ whole[i] \in Line
    BY <2>2, LineKinds
  <2>4. \A i \in DOMAIN lines : lines[i].v \in allowed[lines[i].k] /\ lines[i] \in Line
    BY <2>2, LineKinds DEF InFlight
  <2>. HIDE DEF whole
  <2>5. CASE tear = "clean"
    <3>1. journal' = journal \o whole /\ terminated' = TRUE
      BY <2>1, <2>2, <2>5, GlueClean DEF CutAppend, whole
    <3>2. \A i \in DOMAIN whole : whole[i].v \in allowed[whole[i].k]
      BY <2>2, <2>3, <2>4
    <3>. QED
      BY <3>1, <3>2, <2>1, <2>3, <1>3
  <2>6. CASE tear # "clean"
    <3>. DEFINE last == IF tear = "no_newline" THEN lines[n + 1] ELSE [kind |-> tear]
                ls   == Append(whole, last)
    <3>1. journal' = Glue(journal, ls) /\ terminated' = FALSE
      BY <2>2, <2>6 DEF CutAppend, whole
    <3>2. last \in Line /\ (~IsBad(last) => last.v \in allowed[last.k])
      <4>1. CASE tear = "no_newline"
        BY <4>1, <2>2, <2>4, <2>6
      <4>2. CASE tear # "no_newline"
        BY <4>2, <2>6, JournalAssumption DEF Tear, Line, BadLine, IsBad
      <4>. QED
        BY <4>1, <4>2
    <3>. HIDE DEF last
    <3>3. /\ ls \in Seq(Line) /\ Len(ls) = n + 1 /\ ls[n + 1] = last
          /\ \A i \in 1..n : ls[i] = lines[i]
      BY <2>2, <2>3, <3>2
    <3>. HIDE DEF ls
    <3>4. journal' = journal \o ls
      BY <3>1, <2>1, GlueClean
    <3>5. journal' # <<>>
      BY <3>3, <3>4, <2>2, ConcatProperties DEF TypeOK
    <3>6. \A i \in DOMAIN ls : ~IsBad(ls[i]) => ls[i].v \in allowed[ls[i].k]
      <4>. SUFFICES ASSUME NEW i \in DOMAIN ls, ~IsBad(ls[i])
                    PROVE  ls[i].v \in allowed[ls[i].k]
        OBVIOUS
      <4>1. i \in 1..n \/ i = n + 1
        BY <3>3, <2>2
      <4>. QED
        BY <4>1, <3>2, <3>3, <2>2, <2>4
    <3>. QED
      BY <3>1, <3>3, <3>4, <3>5, <3>6, <2>1, <1>3
  <2>. QED
    BY <2>5, <2>6
<1>. QED
  BY <1>4, <1>5

-----------------------------------------------------------------------------
(* Compaction and restarts.                                                 *)

\* compact puts the snapshot in place: until the journal is empty a restart
\* replays it over a snapshot that has it already.
LEMMA RenamePreserves == DurableInv /\ RenameTmp => DurableInv'
<1>. SUFFICES ASSUME DurableInv, RenameTmp PROVE DurableInv'
  OBVIOUS
<1>. USE DEF DurableInv
<1>1. /\ snapshot' = mem /\ pc' = "truncate" /\ pc = "rename"
      /\ UNCHANGED <<mem, pending, journal, terminated, opening, lines, allowed, stable>>
  BY DEF RenameTmp
<1>2. TypeOK' /\ CleanJournal' /\ InFlight'
  BY <1>1 DEF TypeOK, CleanJournal, InFlight, Running
<1>3. AcknowledgedSurvives'
  <2>. SUFFICES ASSUME NEW k \in Key PROVE Recovered'[k] \in allowed[k]
    BY <1>1 DEF AcknowledgedSurvives
  <2>1. Recovered'[k] = IF About(journal, k) = {} THEN mem[k]
                        ELSE journal[LastAbout(journal, k)].v
    BY <1>1 DEF Recovered, Replay
  <2>2. Recovered[k] = IF About(journal, k) = {} THEN snapshot[k]
                       ELSE journal[LastAbout(journal, k)].v
    BY DEF Recovered, Replay
  <2>. QED
    BY <2>1, <2>2, <1>1 DEF AcknowledgedSurvives, InFlight, Running
<1>. QED
  BY <1>2, <1>3

\* The truncation of the journal keeps DurableInv: the snapshot has everything.
LEMMA TruncatePreserves == DurableInv /\ TruncateJournal => DurableInv'
<1>. SUFFICES ASSUME DurableInv, TruncateJournal PROVE DurableInv'
  OBVIOUS
<1>. USE DEF DurableInv
<1>1. /\ pc = "truncate" /\ pc' = "idle" /\ journal' = <<>> /\ terminated' = TRUE
      /\ pending' = 0 /\ opening' = FALSE /\ stable' = mem
      /\ allowed' = [k \in Key |-> {mem[k]}]
      /\ UNCHANGED <<mem, snapshot, lines>>
  BY DEF TruncateJournal, ResetPending, Acknowledge
<1>2. snapshot = mem /\ lines = <<>>
  BY <1>1 DEF InFlight
<1>3. TypeOK'
  <2>1. mem \in Map /\ \A k \in Key : mem[k] \in Slot
    BY DEF TypeOK, Map
  <2>2. allowed' \in [Key -> SUBSET Slot]
    BY <2>1, <1>1
  <2>3. journal' \in Seq(Line)
    BY <1>1
  <2>. QED
    BY <2>1, <2>2, <2>3, <1>1 DEF TypeOK
<1>4. CleanJournal' /\ InFlight'
  BY <1>1, <1>2 DEF CleanJournal, InFlight
<1>5. AcknowledgedSurvives'
  BY <1>1, <1>2 DEF AcknowledgedSurvives, Recovered, Replay, About, Readable
<1>. QED
  BY <1>3, <1>4, <1>5

\* A start keeps DurableInv.
LEMMA OpenPreserves == DurableInv /\ Open => DurableInv'
<1>. SUFFICES ASSUME DurableInv, Open PROVE DurableInv'
  OBVIOUS
<1>. USE DEF DurableInv
<1>1. Recovered \in Map
  BY ReplayType DEF Recovered, TypeOK
<1>2. /\ pc = "down" /\ mem' = Recovered /\ pending' = 0 /\ stable' = Recovered
      /\ allowed' = [k \in Key |-> {Recovered[k]}]
      /\ pc' = IF journal = <<>> THEN "idle" ELSE "compact"
      /\ opening' = (journal # <<>>)
      /\ UNCHANGED <<snapshot, journal, terminated, lines>>
  BY DEF Open, JournalFound
<1>3. TypeOK'
  <2>1. allowed' \in [Key -> SUBSET Slot]
    <3>1. \A k \in Key : {Recovered[k]} \in SUBSET Slot
      BY <1>1 DEF Map
    <3>. QED
      BY <3>1, <1>2
  <2>. QED
    BY <2>1, <1>1, <1>2 DEF TypeOK
<1>4. CleanJournal'
  <2>1. ~opening' => journal' = <<>> /\ terminated'
    BY <1>2 DEF CleanJournal
  <2>2. journal' = <<>> => terminated' /\ DOMAIN journal' = {}
    BY <1>2 DEF CleanJournal
  <2>. QED
    BY <2>1, <2>2 DEF CleanJournal
<1>5. InFlight'
  <2>1. lines' = <<>> /\ DOMAIN lines' = {}
    BY <1>2 DEF InFlight
  <2>2. pc' \in {"idle", "compact"} /\ (pc' = "idle" => ~opening')
    BY <1>2
  <2>3. \A k \in Key : mem'[k] \in allowed'[k]
    BY <1>2
  <2>. QED
    BY <2>1, <2>2, <2>3 DEF InFlight
<1>6. AcknowledgedSurvives'
  BY <1>2 DEF AcknowledgedSurvives, Recovered
<1>. QED
  BY <1>3, <1>4, <1>5, <1>6

\* The steps that move the program counter and touch neither map nor file.
LEMMA ControlStepsPreserve ==
  DurableInv /\ (WriteTmp \/ CompactError \/ OpenRefused \/ Retry) => DurableInv'
<1>. SUFFICES ASSUME DurableInv, WriteTmp \/ CompactError \/ OpenRefused \/ Retry
              PROVE  DurableInv'
  OBVIOUS
<1>. USE DEF DurableInv
<1>1. UNCHANGED <<mem, pending, snapshot, journal, terminated, lines, allowed, stable>>
  BY DEF WriteTmp, CompactError, OpenRefused, Retry
<1>2. TypeOK'
  BY <1>1 DEF TypeOK, WriteTmp, CompactError, OpenRefused, Retry
<1>3. AcknowledgedSurvives'
  BY <1>1 DEF AcknowledgedSurvives, Recovered
<1>4. CASE WriteTmp
  <2>1. pc = "compact" /\ pc' = "rename" /\ opening' = opening
    BY <1>4 DEF WriteTmp
  <2>. QED
    BY <1>1, <1>2, <1>3, <2>1 DEF CleanJournal, InFlight, Running
<1>5. CASE CompactError
  <2>1. /\ pc \in {"compact", "rename", "truncate"} /\ opening' = FALSE
        /\ pc' = IF opening THEN "down" ELSE "idle"
    BY <1>5 DEF CompactError
  <2>2. CleanJournal'
    BY <1>1, <2>1 DEF CleanJournal, Running
  <2>3. InFlight'
    BY <1>1, <2>1 DEF InFlight, Running
  <2>. QED
    BY <1>2, <1>3, <2>2, <2>3
<1>6. CASE OpenRefused \/ Retry
  <2>1. pc \in {"down", "refused"} /\ pc' \in {"down", "refused"} /\ opening' = opening
    BY <1>6 DEF OpenRefused, Retry
  <2>. QED
    BY <1>1, <1>2, <1>3, <2>1 DEF CleanJournal, InFlight, Running
<1>. QED
  BY <1>4, <1>5, <1>6

-----------------------------------------------------------------------------
(* The operations.                                                          *)

\* The lines ls say what an operation does that leaves the map newMem.
Tells(newMem, ls) ==
  \A k \in Key : IF About(ls, k) = {} THEN newMem[k] = mem[k]
                 ELSE ls[LastAbout(ls, k)].v = newMem[k]

\* An operation starts whose lines say what it does.
Starts ==
  \E newMem \in Map, ls \in Seq(OpLine) :
    pc = "idle" /\ Start(newMem, ls) /\ Tells(newMem, ls)

\* Starting an operation is safe when its lines say what it did to the map.
LEMMA StartPreserves == DurableInv /\ Starts => DurableInv'
<1>. SUFFICES ASSUME NEW newMem \in Map, NEW newLines \in Seq(OpLine),
                     DurableInv, pc = "idle", Start(newMem, newLines),
                     Tells(newMem, newLines)
              PROVE  DurableInv'
  BY DEF Starts
<1>. USE DEF DurableInv
<1>. DEFINE written(k) == {newLines[i].v : i \in {h \in DOMAIN newLines : newLines[h].k = k}}
<1>1. /\ mem' = newMem /\ lines' = newLines
      /\ pc' = IF newLines = <<>> THEN "idle" ELSE "append"
      /\ allowed' = [k \in Key |-> allowed[k] \cup written(k)]
      /\ UNCHANGED <<pending, snapshot, journal, terminated, opening, stable>>
  BY DEF Start
<1>2. \A i \in DOMAIN newLines : newLines[i].v \in Slot /\ newLines[i].k \in Key
  BY LineKinds
<1>3. \A k \in Key : allowed[k] \subseteq allowed'[k] /\ written(k) \subseteq allowed'[k]
  BY <1>1
<1>4. TypeOK'
  <2>1. allowed' \in [Key -> SUBSET Slot]
    BY <1>1, <1>2 DEF TypeOK
  <2>. QED
    BY <2>1, <1>1 DEF TypeOK
<1>5. CleanJournal'
  BY <1>1 DEF CleanJournal, Running
<1>6. AcknowledgedSurvives'
  BY <1>1, <1>3 DEF AcknowledgedSurvives, Recovered
<1>7. ASSUME NEW k \in Key PROVE newMem[k] \in allowed'[k]
  <2>1. CASE About(newLines, k) = {}
    BY <2>1, <1>3 DEF InFlight, Running, Tells
  <2>2. CASE About(newLines, k) # {}
    <3>1. newLines \in Seq(Line)
      BY DEF Line
    <3>2. LastAbout(newLines, k) \in DOMAIN newLines
          /\ newLines[LastAbout(newLines, k)].k = k
      BY <2>2, <3>1, LastAboutFact
    <3>. QED
      BY <2>2, <3>2, <1>3 DEF Tells
  <2>. QED
    BY <2>1, <2>2
<1>8. \A i \in DOMAIN lines' : lines'[i].v \in allowed'[lines'[i].k]
  BY <1>1, <1>2, <1>3
<1>9. InFlight'
  <2>1. ~opening' /\ pc' \in {"idle", "append"} /\ (pc' # "append" => lines' = <<>>)
    BY <1>1 DEF InFlight
  <2>2. \A k \in Key : About(lines', k) # {} => lines'[LastAbout(lines', k)].v = mem'[k]
    BY <1>1 DEF Tells
  <2>. QED
    BY <2>1, <2>2, <1>1, <1>7, <1>8 DEF InFlight
<1>. QED
  BY <1>4, <1>5, <1>6, <1>9

\* put writes a line that says what it does.
LEMMA PutStarts ==
  ASSUME NEW k \in Key, NEW v \in Value
  PROVE  DurableInv /\ Put(k, v) => Starts
<1>. SUFFICES ASSUME DurableInv, Put(k, v) PROVE Starts
  OBVIOUS
<1>. DEFINE newMem == [mem EXCEPT ![k] = v]
            ls     == <<PutLine(k, v)>>
<1>1. mem \in Map /\ newMem \in Map
  BY DEF DurableInv, TypeOK, Map, Slot
<1>2. PutLine(k, v) \in OpLine /\ PutLine(k, v).k = k /\ PutLine(k, v).v = v
  BY DEF PutLine, OpLine, Slot
<1>3. ls \in Seq(OpLine) /\ ls \in Seq(Line)
  BY <1>2 DEF Line
<1>4. ASSUME NEW x \in Key
      PROVE  IF About(ls, x) = {} THEN newMem[x] = mem[x]
             ELSE ls[LastAbout(ls, x)].v = newMem[x]
  <2>1. About(ls, x) = {i \in DOMAIN ls : ls[i].k = x}
    BY <1>3, AboutOps
  <2>2. DOMAIN ls = {1} /\ ls[1] = PutLine(k, v)
    OBVIOUS
  <2>3. CASE x = k
    <3>1. About(ls, x) # {}
      BY <2>1, <2>2, <2>3, <1>2
    <3>2. LastAbout(ls, x) \in DOMAIN ls
      BY <3>1, <1>3, LastAboutFact
    <3>3. ls[LastAbout(ls, x)].v = v
      BY <3>2, <2>2, <1>2
    <3>. QED
      BY <3>1, <3>3, <2>3, <1>1 DEF Map
  <2>4. CASE x # k
    <3>1. About(ls, x) = {}
      BY <2>1, <2>2, <2>4, <1>2
    <3>. QED
      BY <3>1, <2>4, <1>1 DEF Map
  <2>. QED
    BY <2>3, <2>4
<1>5. pc = "idle" /\ Start(newMem, ls)
  BY DEF Put, CanStart
<1>. HIDE DEF newMem, ls
<1>. QED
  BY <1>1, <1>3, <1>4, <1>5 DEF Starts, Tells

\* The orders of a finite set list each of its elements once or more.
LEMMA OrderFacts ==
  ASSUME NEW K \in SUBSET Key, NEW order \in Orders(K)
  PROVE  /\ order \in Seq(K)
         /\ \A x \in K : \E i \in DOMAIN order : order[i] = x
         /\ \A i \in DOMAIN order : order[i] \in K
<1>1. Cardinality(K) \in Nat
  BY JournalAssumption, FS_Subset, FS_CardinalityType
<1>2. order \in [1..Cardinality(K) -> K] /\ {order[i] : i \in DOMAIN order} = K
  BY DEF Orders
<1>. QED
  BY <1>1, <1>2

\* remove_many writes lines that say what it does.
LEMMA RemoveManyStarts ==
  ASSUME NEW K \in SUBSET Key
  PROVE  DurableInv /\ RemoveMany(K) => Starts
<1>. SUFFICES ASSUME DurableInv, RemoveMany(K) PROVE Starts
  OBVIOUS
<1>. DEFINE R      == K \cap Entries(mem)
            newMem == [k \in Key |-> IF k \in K THEN NoValue ELSE mem[k]]
<1>1. PICK order \in Orders(R) : Start(newMem, [i \in DOMAIN order |-> RmLine(order[i])])
  BY DEF RemoveMany
<1>. DEFINE ls == [i \in DOMAIN order |-> RmLine(order[i])]
<1>2. R \in SUBSET Key /\ pc = "idle"
  BY DEF RemoveMany, CanStart
<1>3. mem \in Map /\ newMem \in Map
  BY DEF DurableInv, TypeOK, Map, Slot
<1>4. /\ order \in Seq(R)
      /\ \A x \in R : \E i \in DOMAIN order : order[i] = x
      /\ \A i \in DOMAIN order : order[i] \in R
  BY <1>2, OrderFacts
<1>5. \A x \in Key : RmLine(x) \in OpLine /\ RmLine(x).k = x /\ RmLine(x).v = NoValue
  BY DEF RmLine, OpLine, Slot
<1>6. /\ ls \in Seq(OpLine) /\ DOMAIN ls = DOMAIN order
      /\ \A i \in DOMAIN order : ls[i] = RmLine(order[i])
  BY <1>2, <1>4, <1>5
<1>7. ASSUME NEW x \in Key
      PROVE  IF About(ls, x) = {} THEN newMem[x] = mem[x]
             ELSE ls[LastAbout(ls, x)].v = newMem[x]
  <2>1. About(ls, x) = {i \in DOMAIN ls : ls[i].k = x}
    BY <1>6, AboutOps
  <2>2. CASE About(ls, x) = {}
    <3>1. x \notin R
      BY <2>1, <2>2, <1>4, <1>5, <1>6
    <3>. QED
      BY <2>2, <3>1, <1>3 DEF Entries
  <2>3. CASE About(ls, x) # {}
    <3>1. LastAbout(ls, x) \in DOMAIN ls /\ ls[LastAbout(ls, x)].k = x
      BY <2>3, <1>6, LastAboutFact DEF Line
    <3>2. x \in R /\ ls[LastAbout(ls, x)].v = NoValue
      BY <3>1, <1>2, <1>4, <1>5, <1>6
    <3>. QED
      BY <2>3, <3>2
  <2>. QED
    BY <2>2, <2>3
<1>8. Start(newMem, ls)
  BY <1>1
<1>. HIDE DEF newMem, ls
<1>. QED
  BY <1>2, <1>3, <1>6, <1>7, <1>8 DEF Starts, Tells

\* rekey_subtree writes lines that say what it does.
LEMMA RekeyStarts ==
  ASSUME NEW m \in Moves
  PROVE  DurableInv /\ Rekey(m) => Starts
<1>. SUFFICES ASSUME DurableInv, Rekey(m) PROVE Starts
  OBVIOUS
<1>. DEFINE moved  == DOMAIN m \cap Entries(mem)
            newMem == [k \in Key |->
                         IF \E old \in moved : m[old] = k
                         THEN mem[CHOOSE old \in moved : m[old] = k]
                         ELSE IF k \in moved THEN NoValue ELSE mem[k]]
<1>1. PICK order \in Orders(moved) :
        Start(newMem, [i \in DOMAIN order |-> RmLine(order[i])]
                        \o [i \in DOMAIN order |-> PutLine(m[order[i]], mem[order[i]])])
  BY DEF Rekey
<1>. DEFINE rms  == [i \in DOMAIN order |-> RmLine(order[i])]
            puts == [i \in DOMAIN order |-> PutLine(m[order[i]], mem[order[i]])]
            ls   == rms \o puts
            N    == Len(order)
<1>2. /\ moved \in SUBSET Key /\ pc = "idle"
      /\ \A old \in moved : m[old] \in Key /\ mem[old] \in Slot
      /\ \A a, b \in moved : m[a] = m[b] => a = b
  BY JournalAssumption DEF Rekey, CanStart, DurableInv, TypeOK, Map, Entries
<1>3. mem \in Map /\ NoValue \in Slot
  BY DEF DurableInv, TypeOK, Slot
<1>4. /\ order \in Seq(moved) /\ N \in Nat /\ DOMAIN order = 1..N
      /\ \A x \in moved : \E i \in DOMAIN order : order[i] = x
      /\ \A i \in DOMAIN order : order[i] \in moved
  BY <1>2, OrderFacts
<1>5. \A k \in Key, v \in Slot :
        /\ RmLine(k) \in OpLine /\ RmLine(k).k = k /\ RmLine(k).v = NoValue
        /\ PutLine(k, v) \in OpLine /\ PutLine(k, v).k = k /\ PutLine(k, v).v = v
  BY DEF RmLine, PutLine, OpLine, Slot
<1>6. \A old \in moved, k \in Key :
        m[old] = k => newMem[k] = mem[old]
  <2>. SUFFICES ASSUME NEW old \in moved, NEW k \in Key, m[old] = k
                PROVE  newMem[k] = mem[old]
    OBVIOUS
  <2>. DEFINE choice == CHOOSE o \in moved : m[o] = k
  <2>1. choice \in moved /\ m[choice] = k
    OBVIOUS
  <2>2. choice = old
    BY <2>1, <1>2
  <2>3. newMem[k] = mem[choice]
    OBVIOUS
  <2>. QED
    BY <2>2, <2>3
<1>7. \A k \in Key : (\A old \in moved : m[old] # k) =>
        newMem[k] = IF k \in moved THEN NoValue ELSE mem[k]
  OBVIOUS
<1>8. newMem \in Map
  <2>1. \A k \in Key : newMem[k] \in Slot
    BY <1>2, <1>3, <1>6, <1>7 DEF Map
  <2>. QED
    BY <2>1 DEF Map
<1>. HIDE DEF newMem
<1>9. /\ rms \in Seq(OpLine) /\ puts \in Seq(OpLine) /\ Len(rms) = N /\ Len(puts) = N
      /\ \A i \in 1..N : /\ rms[i] = RmLine(order[i])
                          /\ puts[i] = PutLine(m[order[i]], mem[order[i]])
  BY <1>2, <1>4, <1>5
<1>. HIDE DEF rms, puts
<1>10. /\ ls \in Seq(OpLine) /\ ls \in Seq(Line) /\ DOMAIN ls = 1..(N + N)
       /\ \A i \in 1..N : ls[i] = RmLine(order[i])
       /\ \A i \in 1..N : ls[N + i] = PutLine(m[order[i]], mem[order[i]])
  <2>1. ls \in Seq(OpLine) /\ Len(ls) = N + N
    <3>1. rms \in Seq(OpLine) /\ puts \in Seq(OpLine) /\ Len(rms) = N /\ Len(puts) = N
      BY <1>9
    <3>. HIDE DEF N
    <3>. QED
      BY <3>1
  <2>2. \A i \in 1..(N + N) : ls[i] = IF i <= N THEN rms[i] ELSE puts[i - N]
    BY <1>4, <1>9, ConcatProperties
  <2>3. \A i \in 1..N : ls[i] = rms[i] /\ ls[N + i] = puts[i]
    <3>. SUFFICES ASSUME NEW i \in 1..N PROVE ls[i] = rms[i] /\ ls[N + i] = puts[i]
      OBVIOUS
    <3>1. /\ i \in 1..(N + N) /\ i <= N
          /\ N + i \in 1..(N + N) /\ ~(N + i <= N) /\ (N + i) - N = i
      BY <1>4
    <3>. HIDE DEF ls, N
    <3>. QED
      BY <2>2, <3>1
  <2>. HIDE DEF ls
  <2>4. ls \in Seq(Line) /\ DOMAIN ls = 1..(N + N)
    BY <2>1 DEF Line
  <2>. QED
    BY <2>1, <2>3, <2>4, <1>9
<1>. HIDE DEF ls
<1>11. ASSUME NEW x \in Key
       PROVE  IF About(ls, x) = {} THEN newMem[x] = mem[x]
              ELSE ls[LastAbout(ls, x)].v = newMem[x]
  <2>1. About(ls, x) = {i \in DOMAIN ls : ls[i].k = x}
    BY <1>10, AboutOps
  <2>2. \A i \in 1..N : /\ ls[i].k = order[i] /\ ls[i].v = NoValue
                        /\ ls[N + i].k = m[order[i]] /\ ls[N + i].v = mem[order[i]]
    BY <1>2, <1>4, <1>5, <1>10
  <2>3. CASE \E old \in moved : m[old] = x
    <3>1. PICK old \in moved : m[old] = x
      BY <2>3
    <3>2. PICK i \in 1..N : order[i] = old
      BY <1>4
    <3>3. N + i \in About(ls, x)
      BY <2>1, <2>2, <3>1, <3>2, <1>4, <1>10
    <3>4. LastAbout(ls, x) \in About(ls, x) /\ N + i <= LastAbout(ls, x)
      BY <3>3, <1>10, LastAboutIsLast
    <3>5. LastAbout(ls, x) - N \in 1..N
      BY <3>4, <2>1, <1>4, <1>10
    <3>6. LastAbout(ls, x) = N + (LastAbout(ls, x) - N)
      BY <3>4, <2>1, <1>4, <1>10
    <3>7. /\ m[order[LastAbout(ls, x) - N]] = x
          /\ ls[LastAbout(ls, x)].v = mem[order[LastAbout(ls, x) - N]]
      BY <2>1, <2>2, <3>4, <3>5, <3>6
    <3>. QED
      BY <3>3, <3>5, <3>7, <1>4, <1>6
  <2>4. CASE \A old \in moved : m[old] # x
    <3>1. \A i \in About(ls, x) : i \in 1..N
      <4>. SUFFICES ASSUME NEW i \in About(ls, x), i \notin 1..N PROVE FALSE
        OBVIOUS
      <4>1. i - N \in 1..N /\ i = N + (i - N)
        BY <2>1, <1>4, <1>10
      <4>2. m[order[i - N]] = x
        BY <4>1, <2>1, <2>2
      <4>. QED
        BY <4>1, <4>2, <2>4, <1>4
    <3>2. CASE About(ls, x) = {}
      <4>1. x \notin moved
        <5>. SUFFICES ASSUME x \in moved PROVE FALSE
          OBVIOUS
        <5>1. PICK i \in 1..N : order[i] = x
          BY <1>4
        <5>2. i \in About(ls, x)
          BY <5>1, <2>1, <2>2, <1>4, <1>10
        <5>. QED
          BY <5>2, <3>2
      <4>. QED
        BY <4>1, <3>2, <2>4, <1>7
    <3>3. CASE About(ls, x) # {}
      <4>1. LastAbout(ls, x) \in 1..N /\ ls[LastAbout(ls, x)].k = x
        BY <3>1, <3>3, <1>10, LastAboutIsLast, LastAboutFact
      <4>. QED
        BY <4>1, <3>3, <2>2, <2>4, <1>4, <1>7
    <3>. QED
      BY <3>2, <3>3
  <2>. QED
    BY <2>3, <2>4
<1>12. Start(newMem, ls)
  BY <1>1 DEF newMem, ls, rms, puts
<1>. QED
  BY <1>2, <1>8, <1>10, <1>11, <1>12 DEF Starts, Tells

\* Every operation starts so.
LEMMA OperationStarts == DurableInv /\ Operation => Starts
  BY PutStarts, RemoveManyStarts, RekeyStarts DEF Operation

-----------------------------------------------------------------------------
(* The theorems.                                                            *)

\* The first start finds nothing, and nothing is owed.
LEMMA InitDurable == Init => DurableInv
<1>. SUFFICES ASSUME Init PROVE DurableInv
  OBVIOUS
<1>1. TypeOK
  <2>1. EmptyMap \in Map /\ allowed \in [Key -> SUBSET Slot]
    BY DEF Init, Map, EmptyMap, Slot
  <2>2. journal \in Seq(Line) /\ lines \in Seq(OpLine)
    BY DEF Init
  <2>. QED
    BY <2>1, <2>2 DEF Init, TypeOK
<1>2. CleanJournal /\ InFlight
  BY DEF Init, CleanJournal, InFlight, Running
<1>3. AcknowledgedSurvives
  BY DEF Init, AcknowledgedSurvives, Recovered, Replay, About, Readable, EmptyMap
<1>. QED
  BY <1>1, <1>2, <1>3 DEF DurableInv

\* Every step keeps DurableInv when no append is cut short by an error.
LEMMA NextPreserves ==
  DurableInv /\ "partial_write" \notin Faults /\ [Next]_vars => DurableInv'
<1>. SUFFICES ASSUME DurableInv, "partial_write" \notin Faults, [Next]_vars
              PROVE  DurableInv'
  OBVIOUS
<1>1. CASE Operation
  BY <1>1, OperationStarts, StartPreserves
<1>2. CASE AppendDone
  BY <1>2, AppendDonePreserves
<1>3. CASE \E n \in 0..Len(lines), tear \in Tears \cup {"clean"} :
             AppendError(n, tear) \/ Crash(n, tear)
  BY <1>3, AppendErrorPreserves, CrashPreserves
<1>4. CASE WriteTmp \/ CompactError \/ OpenRefused \/ Retry
  BY <1>4, ControlStepsPreserve
<1>5. CASE RenameTmp \/ TruncateJournal \/ Open
  BY <1>5, RenamePreserves, TruncatePreserves, OpenPreserves
<1>6. CASE UNCHANGED vars
  BY <1>6 DEF vars, DurableInv, TypeOK, CleanJournal, InFlight, AcknowledgedSurvives,
       Running, Recovered
<1>. QED
  BY <1>1, <1>2, <1>3, <1>4, <1>5, <1>6 DEF Next

\* DurableInv is an invariant of the store when no append is cut short by an
\* error while the process lives.
THEOREM DurableInvariant ==
  ASSUME "partial_write" \notin Faults
  PROVE  Spec => []DurableInv
<1>1. DurableInv /\ [Next]_vars => DurableInv'
  BY NextPreserves
<1>. QED
  BY <1>1, InitDurable, PTL DEF Spec

\* What a call acknowledged is found by every later restart, for every set of
\* keys and values, every compaction threshold, every batch and every point of
\* a crash, as long as no append is cut short while the process runs on.
THEOREM Durability ==
  ASSUME "partial_write" \notin Faults
  PROVE  Spec => []AcknowledgedSurvives
<1>1. DurableInv => AcknowledgedSurvives
  BY DEF DurableInv
<1>. QED
  BY <1>1, DurableInvariant, PTL

\* The variables of the store keep their types, under the same assumption.
THEOREM TypeCorrectness ==
  ASSUME "partial_write" \notin Faults
  PROVE  Spec => []TypeOK
<1>1. DurableInv => TypeOK
  BY DEF DurableInv
<1>. QED
  BY <1>1, DurableInvariant, PTL

\* Under that assumption nothing is ever appended behind a torn tail: open has
\* compacted it away before the first append.
THEOREM NoAppendBehindATear ==
  ASSUME "partial_write" \notin Faults
  PROVE  Spec => FreshAppendsStartClean
<1>1. DurableInv /\ [Next]_vars
      => [journal' # journal /\ journal' # <<>> => terminated]_vars
  <2>. SUFFICES ASSUME DurableInv, Next, journal' # journal, journal' # <<>>
                PROVE  terminated
    BY DEF vars
  <2>1. CASE Operation
    BY <2>1 DEF Operation, Put, RemoveMany, Rekey, Start
  <2>2. CASE AppendDone
    BY <2>2, AppendReady DEF AppendDone
  <2>3. CASE \E n \in 0..Len(lines), tear \in Tears \cup {"clean"} :
               AppendError(n, tear) \/ Crash(n, tear)
    BY <2>3, AppendReady DEF AppendError, Crash
  <2>4. CASE WriteTmp \/ RenameTmp \/ TruncateJournal \/ CompactError
             \/ Open \/ OpenRefused \/ Retry
    BY <2>4 DEF WriteTmp, RenameTmp, TruncateJournal, ResetPending, CompactError, Open, JournalFound, OpenRefused, Retry
  <2>. QED
    BY <2>1, <2>2, <2>3, <2>4 DEF Next
<1>. QED
  BY <1>1, DurableInvariant, PTL DEF Spec, FreshAppendsStartClean
=============================================================================
