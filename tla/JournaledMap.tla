----------------------------- MODULE JournaledMap -----------------------------
(***************************************************************************)
(* The store under ClockStore and TombstoneStore (crates/common/src/       *)
(* lib.rs): a map in memory, a snapshot file, and a journal of put and rm  *)
(* lines appended to on every change.  When the journal is long enough the *)
(* map is compacted: written to a temporary file that is synced and then   *)
(* renamed over the snapshot, after which the journal is truncated.        *)
(*                                                                         *)
(* Each step below is one file operation of the code, so that a crash can  *)
(* fall between any two of them.  All of it runs under the store's Mutex:  *)
(* one operation is in progress at a time.  A crash is the death of the    *)
(* process: what write() has returned for stays in the file, and only the  *)
(* append in progress can be cut short.                                    *)
(***************************************************************************)
EXTENDS Naturals, Sequences, FiniteSets

CONSTANTS
  Key, Value, NoValue,
  Moves,          \* what rekey_subtree can be asked: moved key -> its new key
  CompactMinOps,  \* COMPACT_MIN_OPS
  MaxJournal,     \* bound on the length of the journal at the start of a call
  Tears,          \* how a cut append can end inside a line
  Faults          \* the I/O errors the environment may produce

Tear  == {"torn", "torn_char", "no_newline"}
Fault == {"append_error", "partial_write", "compact_error"}

ASSUME JournalAssumption ==
  /\ IsFiniteSet(Key)
  /\ NoValue \notin Value
  /\ CompactMinOps \in Nat \ {0}
  /\ MaxJournal \in Nat
  /\ Tears \subseteq Tear
  /\ Faults \subseteq Fault
  /\ \A m \in Moves : /\ DOMAIN m \subseteq Key
                      /\ \A k \in DOMAIN m : m[k] \in Key
                      /\ \A j, k \in DOMAIN m : m[j] = m[k] => j = k

VARIABLES
  mem,         \* JournaledMap.map
  pending,     \* JournaledMap.pending_ops
  snapshot,    \* the snapshot file
  journal,     \* the journal file, as the sequence of its lines
  terminated,  \* the journal is empty or ends with a newline
  pc,          \* where the operation in progress stands
  opening,     \* the compaction in progress is the one of open
  lines,       \* the lines the operation in progress appends
  allowed,     \* ghost: what a restart may find under each key
  stable       \* ghost: the map when the last call returned Ok

vars == <<mem, pending, snapshot, journal, terminated, pc, opening, lines,
          allowed, stable>>

Slot     == Value \cup {NoValue}
Map      == [Key -> Slot]
EmptyMap == [k \in Key |-> NoValue]

\* JournalOp: a put of v, or an rm, which is a put of NoValue.
OpLine  == [kind : {"op"}, k : Key, v : Slot]
BadLine == [kind : {"torn", "torn_char"}]
Line    == OpLine \cup BadLine

PutLine(k, v) == [kind |-> "op", k |-> k, v |-> v]
RmLine(k)     == [kind |-> "op", k |-> k, v |-> NoValue]

-----------------------------------------------------------------------------
(* Replay: the loop of open over the journal's lines.                       *)

IsBad(line) == line.kind # "op"

\* The lines the loop reaches: it breaks at the first that does not parse.
Readable(j) == {i \in DOMAIN j : \A h \in 1..i : ~IsBad(j[h])}

About(j, k) == {i \in Readable(j) : j[i].k = k}

LastAbout(j, k) == CHOOSE i \in About(j, k) : \A h \in About(j, k) : h <= i

\* Inserts and removes in order: the last line about a key decides.
Replay(base, j) ==
  [k \in Key |-> IF About(j, k) = {} THEN base[k] ELSE j[LastAbout(j, k)].v]

\* What opening the store now would put in memory.
Recovered == Replay(snapshot, journal)

-----------------------------------------------------------------------------
(* The journal file.  An append that follows a line without a newline is    *)
(* glued to it: the two together are one line that does not parse.          *)

Glue(j, ls) ==
  IF ls = <<>> \/ terminated
  THEN j \o ls
  ELSE [j EXCEPT ![Len(j)] = [kind |-> IF IsBad(@) THEN @.kind ELSE "torn"]]
         \o Tail(ls)

\* What is in the file after the first n lines of ls and nothing more, or
\* after a part of line n + 1 as well.
CutAppend(n, tear) ==
  LET whole == SubSeq(lines, 1, n)
      next  == lines[n + 1]
  IN IF tear = "clean"
     THEN /\ journal' = Glue(journal, whole)
          /\ terminated' = (terminated \/ n > 0)
     ELSE /\ journal' = Glue(journal, Append(whole,
               IF tear = "no_newline" THEN next ELSE [kind |-> tear]))
          /\ terminated' = FALSE

-----------------------------------------------------------------------------
(* Operations.  Each changes the map first and appends its lines after.     *)

Entries(map) == {k \in Key : map[k] # NoValue}

\* Orders of a set of keys; the code visits them in key order.
Orders(K) == {s \in [1..Cardinality(K) -> K] : {s[i] : i \in DOMAIN s} = K}

Start(newMem, newLines) ==
  /\ mem' = newMem
  /\ lines' = newLines
  /\ pc' = IF newLines = <<>> THEN "idle" ELSE "append"
  /\ allowed' = [k \in Key |-> allowed[k] \cup
                   {newLines[i].v : i \in {h \in DOMAIN newLines : newLines[h].k = k}}]
  /\ UNCHANGED <<pending, snapshot, journal, terminated, opening, stable>>

CanStart == pc = "idle" /\ Len(journal) <= MaxJournal

Put(k, v) ==
  /\ CanStart
  /\ Start([mem EXCEPT ![k] = v], <<PutLine(k, v)>>)

RemoveMany(K) ==
  /\ CanStart
  /\ \E order \in Orders(K \cap Entries(mem)) :
       Start([k \in Key |-> IF k \in K THEN NoValue ELSE mem[k]],
             [i \in DOMAIN order |-> RmLine(order[i])])

Rekey(m) ==
  /\ CanStart
  /\ LET moved == DOMAIN m \cap Entries(mem)
     IN \E order \in Orders(moved) :
          Start([k \in Key |->
                   IF \E old \in moved : m[old] = k
                   THEN mem[CHOOSE old \in moved : m[old] = k]
                   ELSE IF k \in moved THEN NoValue ELSE mem[k]],
                [i \in DOMAIN order |-> RmLine(order[i])]
                  \o [i \in DOMAIN order |-> PutLine(m[order[i]], mem[order[i]])])

\* The call returns Ok: what it did must from now on survive.
Acknowledge(keys) ==
  /\ pc' = "idle"
  /\ stable' = mem
  /\ allowed' = [k \in Key |-> IF k \in keys THEN {mem[k]} ELSE allowed[k]]

CompactionDue == pending' >= CompactMinOps /\ pending' >= Cardinality(Entries(mem))

\* append: write_all succeeds, and compaction starts when it is due.
AppendDone ==
  /\ pc = "append"
  /\ CutAppend(Len(lines), "clean")
  /\ pending' = pending + Len(lines)
  /\ IF CompactionDue
     THEN pc' = "compact" /\ UNCHANGED <<allowed, stable>>
     ELSE Acknowledge({lines[i].k : i \in DOMAIN lines})
  /\ lines' = <<>>
  /\ UNCHANGED <<mem, snapshot, opening>>

\* append: opening or writing the journal fails; the call returns Err with
\* the map already changed.
AppendError(n, tear) ==
  /\ pc = "append"
  /\ n < Len(lines)
  /\ \/ "append_error" \in Faults /\ n = 0 /\ tear = "clean"
     \/ "partial_write" \in Faults
  /\ CutAppend(n, tear)
  /\ pc' = "idle"
  /\ lines' = <<>>
  /\ UNCHANGED <<mem, pending, snapshot, opening, allowed, stable>>

-----------------------------------------------------------------------------
(* Compaction.                                                              *)

\* A bug: the journal goes before the rename has put its changes in place.
TruncateTooEarly ==
  /\ pc = "compact"
  /\ pc' = "rename"
  /\ journal' = <<>> /\ terminated' = TRUE
  /\ UNCHANGED <<mem, pending, snapshot, opening, lines, allowed, stable>>

\* The temporary file is written and synced; until the rename nobody reads it.
WriteTmp ==
  /\ pc = "compact"
  /\ pc' = "rename"
  /\ UNCHANGED <<mem, pending, snapshot, journal, terminated, opening, lines,
                 allowed, stable>>

RenameTmp ==
  /\ pc = "rename"
  /\ snapshot' = mem
  /\ pc' = "truncate"
  /\ UNCHANGED <<mem, pending, journal, terminated, opening, lines, allowed, stable>>

\* A bug: the count is lowered by what made the compaction due.
DeductPending == pending' = pending - CompactMinOps

ResetPending == pending' = 0

TruncateJournal ==
  /\ pc = "truncate"
  /\ journal' = <<>>
  /\ terminated' = TRUE
  /\ ResetPending
  /\ opening' = FALSE
  /\ Acknowledge(Key)
  /\ UNCHANGED <<mem, snapshot, lines>>

\* Any of the three file operations fails: the call returns Err, and so does
\* open when the compaction is its own.
CompactError ==
  /\ pc \in {"compact", "rename", "truncate"}
  /\ "compact_error" \in Faults
  /\ pc' = IF opening THEN "down" ELSE "idle"
  /\ opening' = FALSE
  /\ UNCHANGED <<mem, pending, snapshot, journal, terminated, lines, allowed, stable>>

-----------------------------------------------------------------------------
(* Restarts.                                                                *)

\* read_to_string fails on a journal that is not UTF-8, and open with it.
Undecodable == \E i \in DOMAIN journal : journal[i].kind = "torn_char"

\* A bug: open goes on with the journal it finds.
JournalKept == FALSE

JournalFound == journal # <<>>

Open ==
  /\ pc = "down"
  /\ ~Undecodable
  /\ mem' = Recovered
  /\ pending' = 0
  /\ allowed' = [k \in Key |-> {Recovered[k]}]
  /\ stable' = Recovered
  /\ pc' = IF JournalFound THEN "compact" ELSE "idle"
  /\ opening' = JournalFound
  /\ UNCHANGED <<snapshot, journal, terminated, lines>>

OpenRefused ==
  /\ pc = "down"
  /\ Undecodable
  /\ pc' = "refused"
  /\ UNCHANGED <<mem, pending, snapshot, journal, terminated, opening, lines,
                 allowed, stable>>

\* The agent is started again after open returned an error.
Retry ==
  /\ pc = "refused"
  /\ pc' = "down"
  /\ UNCHANGED <<mem, pending, snapshot, journal, terminated, opening, lines,
                 allowed, stable>>

\* The process dies.  mem is read by nobody until Open sets it.
Crash(n, tear) ==
  /\ pc \notin {"down", "refused"}
  /\ IF pc = "append"
     THEN /\ n < Len(lines) \/ (n = Len(lines) /\ tear = "clean")
          /\ CutAppend(n, tear)
     ELSE /\ n = 0 /\ tear = "clean"
          /\ UNCHANGED <<journal, terminated>>
  /\ pc' = "down"
  /\ opening' = FALSE
  /\ lines' = <<>>
  /\ UNCHANGED <<mem, pending, snapshot, allowed, stable>>

-----------------------------------------------------------------------------
Init ==
  /\ mem = EmptyMap
  /\ pending = 0
  /\ snapshot = EmptyMap
  /\ journal = <<>>
  /\ terminated = TRUE
  /\ pc = "down"
  /\ opening = FALSE
  /\ lines = <<>>
  /\ allowed = [k \in Key |-> {NoValue}]
  /\ stable = EmptyMap

Operation ==
  \/ \E k \in Key, v \in Value : Put(k, v)
  \/ \E K \in SUBSET Key : RemoveMany(K)
  \/ \E m \in Moves : Rekey(m)

Next ==
  \/ Operation
  \/ AppendDone
  \/ \E n \in 0..Len(lines), tear \in Tears \cup {"clean"} :
       AppendError(n, tear) \/ Crash(n, tear)
  \/ WriteTmp \/ RenameTmp \/ TruncateJournal \/ CompactError
  \/ Open \/ OpenRefused \/ Retry

Spec == Init /\ [][Next]_vars

-----------------------------------------------------------------------------
(* Properties.                                                              *)

\* Every variable has its type: the map and the files hold entries of the
\* declared keys and values, and the program counter is one of the steps.
TypeOK ==
  /\ mem \in Map /\ snapshot \in Map /\ stable \in Map
  /\ pending \in Nat
  /\ journal \in Seq(Line)
  /\ lines \in Seq(OpLine)
  /\ terminated \in BOOLEAN /\ opening \in BOOLEAN
  /\ pc \in {"down", "refused", "idle", "append", "compact", "rename", "truncate"}
  /\ allowed \in [Key -> SUBSET Slot]

\* A change whose call returned Ok is found again by any later restart, and a
\* restart never finds a value that no call put there: whatever point of an
\* append or of a compaction the process dies at (put, remove_many,
\* rekey_subtree, append, compact and open of JournaledMap).
AcknowledgedSurvives == \A k \in Key : Recovered[k] \in allowed[k]

\* An append never lands behind a line without its newline (the comment in
\* open: "so a torn tail can never be followed by fresh appends").
FreshAppendsStartClean ==
  [][journal' # journal /\ journal' # <<>> => terminated]_vars

Running == pc \notin {"down", "refused"}

\* The files and the map together are a durable map: the lines of an append
\* take effect in one step and in their order, a torn line has none, and the
\* renaming and the truncation of a compaction change nothing but what a call
\* that failed has left undone (put, append, compact and open).
Durable == INSTANCE DurableMap
             WITH up <- Running, live <- mem, stored <- Recovered, todo <- lines

ImplementsDurableMap == Durable!Spec

-----------------------------------------------------------------------------
(* The inductive invariant behind AcknowledgedSurvives when no append is cut *)
(* short while the process lives.                                           *)

\* Outside of open the journal has only whole lines that parse.
CleanJournal ==
  /\ journal = <<>> => terminated
  /\ Running /\ ~opening => terminated /\ \A i \in DOMAIN journal : ~IsBad(journal[i])

\* What an operation has in memory and in its lines is what it may leave.
InFlight ==
  /\ pc = "append" <=> lines # <<>>
  /\ pc = "truncate" => snapshot = mem
  /\ pc \in {"idle", "append"} => ~opening
  /\ Running => \A k \in Key : mem[k] \in allowed[k]
  /\ \A i \in DOMAIN lines : lines[i].v \in allowed[lines[i].k]
  /\ pc = "append" => \A k \in Key :
       About(lines, k) # {} => lines[LastAbout(lines, k)].v = mem[k]

DurableInv == TypeOK /\ CleanJournal /\ InFlight /\ AcknowledgedSurvives
=============================================================================
