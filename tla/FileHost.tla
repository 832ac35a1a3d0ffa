------------------------------- MODULE FileHost -------------------------------
(***************************************************************************)
(* The file service of nexus-agent (crates/agent/src/host.rs): the         *)
(* mutating RPC handlers, Stat, and the garbage collector, over the served *)
(* directory and the two stores of clocks, of live and of deleted paths.   *)
(*                                                                         *)
(* A handler decides under write_lock what it will do, and does it one     *)
(* file or store operation at a time, so that everything that runs without *)
(* the lock can come between: Stat, the recreation of a deleted parent,    *)
(* the staging of a streamed write, the scans of the collector, the loss   *)
(* of the client's connection, the death of the process.  What it has left *)
(* to do is its plan.                                                      *)
(*                                                                         *)
(* A store operation is durable when it is done, which is what             *)
(* JournaledMap is about.  Two clients' requests are served concurrently,  *)
(* one request per client: a mount waits for each reply.                   *)
(***************************************************************************)
EXTENDS VectorClock, Maps, Sequences, FiniteSets

CONSTANTS
  Request,      \* the requests clients may make
  Served,       \* files in the directory before the agent first runs
  TombstoneTtl, \* GcConfig.tombstone_ttl, in steps of the clock
  MaxEntries,   \* GcConfig.max_entries
  MaxNow,       \* bound on the clock
  Failures,     \* what can go wrong: "crash", "disconnect"
  Unlocked      \* the value of lock when nobody holds it

ASSUME FileHostAssumption ==
  /\ TombstoneTtl \in Nat /\ MaxEntries \in Nat /\ MaxNow \in Nat
  /\ Failures \subseteq {"crash", "disconnect"}
  /\ Unlocked \notin Device

(* A path is the sequence of its leaves, the root the empty one.  A leaf is  *)
(* a name and, for a conflict copy, whose it is and of which second; a copy *)
(* may be copied again.  A staged file is written as a copy of no second.   *)
Leaf == [name : STRING, copies : Seq([by : Device, at : Nat])]
Path == Seq(Leaf)
Root == <<>>

\* The root is refused on arrival by every handler.
Mutation == {"write", "stream", "delete", "rename", "mkdir"}

ASSUME ServedAssumption == \A p \in Served : Len(p) = 1 /\ p \in Path

ASSUME RequestAssumption ==
  \A r \in Request :
    /\ r.op \in Mutation \cup {"stat", "read", "list"}
    /\ r.clock \in Clock
    /\ r.path \in Path
    /\ r.op \in Mutation => r.path # Root
    /\ r.op = "rename" => r.to \in Path \ {Root}

VARIABLES
  disk,      \* the served directory: path -> node
  clocks,    \* ClockStore: path -> entry
  tombs,     \* TombstoneStore: path -> entry
  lock,      \* write_lock: its holder
  pc,        \* where each client's request stands
  req,       \* the request
  plan,      \* under the lock, the operations its handler has left to do
  reply,     \* what the handler returns, or has decided to return
  detached,  \* file operations whose handler was dropped before they ran
  gc,        \* the sweep of the collector
  now        \* the clock, in seconds

store == <<clocks, tombs>>
rpc   == <<pc, req, plan, reply>>
vars  == <<disk, clocks, tombs, lock, pc, req, plan, reply, detached, gc, now>>

-----------------------------------------------------------------------------
(* Paths.                                                                   *)

Parent(p) == SubSeq(p, 1, Len(p) - 1)

\* A bug: the conflict copy is written over the original.
SamePath(p, d) == p

\* {key}.conflict-{writer}-{ts}
ConflictPath(p, d) == [p EXCEPT ![Len(p)].copies = Append(@, [by |-> d, at |-> now])]

\* .nexus-write-{uuid}, next to the file it will become.
TempPath(p, d) == [p EXCEPT ![Len(p)].copies = Append(@, [by |-> d, at |-> 0])]

Within(dir, p) == Len(dir) <= Len(p) /\ SubSeq(p, 1, Len(dir)) = dir

Rebase(p, from, to) == to \o SubSeq(p, Len(from) + 1, Len(p))

\* The map f with the entry of from, and those of everything below it, moved
\* to the same place at or below to, over what was there.
Moved(f, from, to) ==
  LET source == {p \in DOMAIN f : Within(from, p)}
      target == {Rebase(p, from, to) : p \in source}
  IN [q \in (DOMAIN f \ source) \cup target |->
        IF q \in target THEN f[CHOOSE p \in source : Rebase(p, from, to) = q] ELSE f[q]]

-----------------------------------------------------------------------------
(* The directory and the stores, as a handler reads them.  Of a file there  *)
(* is the clock its content was sent with, and the content, which is a set: *)
(* of what, is for the clients to say.                                      *)

NoData     == {}
Dir        == [kind |-> "dir"]
File(c, x) == [kind |-> "file", edit |-> c, data |-> x]

Exists(p) == p \in DOMAIN disk
IsDir(p)  == Exists(p) /\ disk[p].kind = "dir"
IsFile(p) == Exists(p) /\ disk[p].kind = "file"

\* resolve_for_write: the parent is there to be canonicalized.
Resolves(p) == Exists(Parent(p))

ClockIn(f, p) == IF p \in DOMAIN f THEN f[p].clock ELSE EmptyClock

LiveClock(p) == ClockIn(clocks, p)
TombClock(p) == ClockIn(tombs, p)
Tombed(p)    == TombClock(p) # EmptyClock

-----------------------------------------------------------------------------
(* The operations a plan is made of.                                        *)

WriteFile(p, c, x) == [do |-> "write", path |-> p, edit |-> c, data |-> x]
Move(from, to)     == [do |-> "move", path |-> from, to |-> to]
RemoveFile(p)      == [do |-> "remove", path |-> p]
CreateDir(p)       == [do |-> "mkdir", path |-> p]
PutClock(p, c)     == [do |-> "put_clock", path |-> p, clock |-> c]
DropClock(p)       == [do |-> "drop_clock", path |-> p]
PutTomb(p, c)      == [do |-> "put_tomb", path |-> p, clock |-> c]
DropTomb(p)        == [do |-> "drop_tomb", path |-> p]
RekeyClocks(p, q) == [do |-> "rekey_clocks", path |-> p, to |-> q]
RekeyTombs(p, q)  == [do |-> "rekey_tombs", path |-> p, to |-> q]

OnDisk(op) == op.do \in {"write", "move", "remove", "mkdir"}

\* The file system carries the operation out; otherwise it returns an error.
Possible(op) ==
  CASE op.do = "write"  -> IsDir(Parent(op.path)) /\ ~IsDir(op.path)
    [] op.do = "move"   -> /\ Exists(op.path) /\ IsDir(Parent(op.to))
                           /\ IF IsDir(op.path)
                              THEN \/ op.to = op.path
                                   \/ /\ ~Within(op.path, op.to)
                                      /\ \A p \in DOMAIN disk :
                                           Within(op.to, p) => p = op.to /\ IsDir(p)
                              ELSE ~IsDir(op.to)
    [] op.do = "remove" -> IsFile(op.path)
    [] op.do = "mkdir"  -> ~Exists(op.path) /\ IsDir(Parent(op.path))
    [] OTHER            -> TRUE

DiskAfter(op) ==
  CASE op.do = "write"  -> With(disk, op.path, File(op.edit, op.data))
    [] op.do = "move"   -> Moved(disk, op.path, op.to)
    [] op.do = "remove" -> Without(disk, {op.path})
    [] op.do = "mkdir"  -> With(disk, op.path, Dir)
    [] OTHER            -> disk

ClocksAfter(op) ==
  CASE op.do = "put_clock"    -> With(clocks, op.path, [clock |-> op.clock, at |-> now])
    [] op.do = "drop_clock"   -> Without(clocks, {op.path})
    [] op.do = "rekey_clocks" -> Moved(clocks, op.path, op.to)
    [] OTHER                  -> clocks

\* TombstoneStore::put keeps the time of the first delete.
TombsAfter(op) ==
  CASE op.do = "put_tomb"    -> With(tombs, op.path, [clock |-> op.clock,
                                  at |-> IF op.path \in DOMAIN tombs
                                         THEN tombs[op.path].at ELSE now])
    [] op.do = "drop_tomb"   -> Without(tombs, {op.path})
    [] op.do = "rekey_tombs" -> Moved(tombs, op.path, op.to)
    [] OTHER                 -> tombs

-----------------------------------------------------------------------------
(* What each handler decides once it holds the lock: what it will return    *)
(* and the operations it carries out before it does.                        *)

Outcome(result, clock, ops) == [result |-> result, clock |-> clock, ops |-> ops]

Failed == Outcome("Error", EmptyClock, <<>>)

\* write_file stores the data, write_file_stream renames its staged copy.
Store(d, r, dest) ==
  IF r.op = "write" THEN WriteFile(dest, r.clock, r.data) ELSE Move(TempPath(r.path, d), dest)

\* A bug: the deleted path is live again and its tombstone stays.
ReviveKeepingTomb(d, r, clock) == <<Store(d, r, r.path), PutClock(r.path, clock)>>

Revive(d, r, clock) == <<Store(d, r, r.path), DropTomb(r.path), PutClock(r.path, clock)>>

WriteOverTombstone(d, r) ==
  LET order  == Compare(r.clock, TombClock(r.path))
      merged == Merge(TombClock(r.path), r.clock)
  IN IF order = "DominatedBy"
     THEN Outcome("Stale", TombClock(r.path), <<>>)
     ELSE Outcome(IF order = "Concurrent" THEN "Conflict" ELSE "Applied", merged,
                  Revive(d, r, merged))

WriteOverLive(d, r) ==
  LET stored   == LiveClock(r.path)
      merged   == Merge(stored, r.clock)
      conflict == ConflictPath(r.path, d)
      order    == Compare(r.clock, stored)
  IN CASE order \in {"Dominates", "Equal"} ->
            Outcome("Applied", merged, <<Store(d, r, r.path), PutClock(r.path, merged)>>)
       [] order = "DominatedBy" ->
            Outcome("Stale", stored, <<>>)
       [] order = "Concurrent" ->
            Outcome("Conflict", stored, <<Store(d, r, conflict), PutClock(conflict, r.clock)>>)

WriteOutcome(d, r) ==
  IF r.op = "write" /\ ~Resolves(r.path) THEN Failed
  ELSE IF Tombed(r.path) THEN WriteOverTombstone(d, r)
  ELSE WriteOverLive(d, r)

\* A bug: a second delete puts its own clock over the tombstone's.
DeleteForgetting(r) ==
  Outcome("Deleted", Merge(TombClock(r.path), r.clock), <<PutTomb(r.path, r.clock)>>)

DeleteAgain(r) ==
  LET merged == Merge(TombClock(r.path), r.clock)
  IN Outcome("Deleted", merged, <<PutTomb(r.path, merged)>>)

DeleteOutcome(d, r) ==
  LET stored == LiveClock(r.path)
      order  == Compare(r.clock, stored)
  IN IF Tombed(r.path) THEN DeleteAgain(r)
     ELSE IF ~Exists(r.path) THEN Outcome("NotFound", stored, <<>>)
     ELSE CASE order \in {"Dominates", "Equal"} ->
                 LET merged == Merge(stored, r.clock)
                 IN Outcome("Deleted", merged,
                      <<RemoveFile(r.path), PutTomb(r.path, merged), DropClock(r.path)>>)
            [] order = "DominatedBy" -> Outcome("Stale", stored, <<>>)
            [] order = "Concurrent"  -> Outcome("Conflict", stored, <<>>)

\* A rename of a deleted path puts an empty file at the new one.
RenameDeleted(r) ==
  LET order  == Compare(r.clock, TombClock(r.path))
      merged == Merge(TombClock(r.path), r.clock)
  IN IF order = "DominatedBy"
     THEN Outcome("Stale", TombClock(r.path), <<>>)
     ELSE IF ~Resolves(r.to) THEN Failed
     ELSE Outcome(IF order = "Concurrent" THEN "Conflict" ELSE "Renamed", merged,
                  <<WriteFile(r.to, EmptyClock, NoData), DropTomb(r.path), DropTomb(r.to),
                    PutClock(r.to, merged)>>)

\* Two bugs: the new path keeps its tombstone, the old one its clock.
RenameKeepingTomb(r, clock)  == <<Move(r.path, r.to), DropClock(r.path), PutClock(r.to, clock)>>
RenameKeepingClock(r, clock) == <<Move(r.path, r.to), DropTomb(r.to), PutClock(r.to, clock)>>

RenameLive(r, clock) ==
  <<Move(r.path, r.to), DropClock(r.path), DropTomb(r.to), PutClock(r.to, clock)>>

RenameOutcome(d, r) ==
  LET stored == LiveClock(r.path)
      merged == Merge(stored, r.clock)
  IN IF Tombed(r.path) THEN RenameDeleted(r)
     ELSE IF ~Exists(r.path) THEN Outcome("NotFound", stored, <<>>)
     ELSE IF ~Resolves(r.to) THEN Failed
     ELSE IF Compare(r.clock, stored) = "DominatedBy" THEN Outcome("Stale", stored, <<>>)
     ELSE Outcome("Renamed", merged, RenameLive(r, merged))

MkdirOverFile(d, r) ==
  LET stored   == LiveClock(r.path)
      conflict == ConflictPath(r.path, d)
  IN IF stored # EmptyClock /\ Compare(r.clock, stored) = "DominatedBy"
     THEN Outcome("Stale", stored, <<>>)
     ELSE Outcome("Applied", r.clock,
                  <<Move(r.path, conflict), RekeyClocks(r.path, conflict),
                    CreateDir(r.path), PutClock(r.path, r.clock)>>)

MkdirOverDir(d, r) ==
  LET stored   == LiveClock(r.path)
      conflict == ConflictPath(r.path, d)
      order    == IF stored = EmptyClock THEN "Dominates" ELSE Compare(r.clock, stored)
  IN CASE order \in {"Dominates", "Equal"} ->
            Outcome("Applied", r.clock, <<PutClock(r.path, r.clock)>>)
       [] order = "DominatedBy" -> Outcome("Stale", stored, <<>>)
       [] order = "Concurrent" ->
            Outcome("Conflict", r.clock,
                    <<Move(r.path, conflict), RekeyClocks(r.path, conflict),
                      RekeyTombs(r.path, conflict), CreateDir(r.path),
                      PutClock(r.path, r.clock)>>)

MkdirOutcome(d, r) ==
  IF ~Resolves(r.path) THEN Failed
  ELSE IF IsFile(r.path) THEN MkdirOverFile(d, r)
  ELSE IF IsDir(r.path) THEN MkdirOverDir(d, r)
  ELSE IF Tombed(r.path) /\ Compare(r.clock, TombClock(r.path)) = "DominatedBy"
       THEN Outcome("Stale", r.clock, <<>>)
       ELSE Outcome("Applied", r.clock, <<CreateDir(r.path), PutClock(r.path, r.clock)>>)

Decide(d, r) ==
  CASE r.op \in {"write", "stream"} -> WriteOutcome(d, r)
    [] r.op = "delete"              -> DeleteOutcome(d, r)
    [] r.op = "rename"              -> RenameOutcome(d, r)
    [] r.op = "mkdir"               -> MkdirOutcome(d, r)

-----------------------------------------------------------------------------
(* A request: from its arrival to the lock.                                 *)

NoRequest == [op |-> "none"]
NoReply   == [result |-> "none", clock |-> EmptyClock, seen |-> {}]

\* What was seen of the directory, by the handlers that only look.
Answer(result, clock, seen) == [result |-> result, clock |-> clock, seen |-> seen]
Reply(result, clock)        == Answer(result, clock, {})

Submit(d, r) ==
  /\ pc[d] = "idle"
  /\ pc' = [pc EXCEPT ![d] = IF r.op \in {"write", "stream", "stat", "read", "list"}
                            THEN "accepted" ELSE "waiting"]
  /\ req' = [req EXCEPT ![d] = r]
  /\ UNCHANGED <<disk, store, lock, plan, reply, detached, gc, now>>

\* TempFile's drop: the staged copy goes with the handler.
WithoutTemp(files, d) ==
  IF req[d].op = "stream" THEN Without(files, {TempPath(req[d].path, d)}) ELSE files

Finish(d, result, clock) ==
  /\ pc' = [pc EXCEPT ![d] = "replied"]
  /\ reply' = [reply EXCEPT ![d] = Reply(result, clock)]

Ancestors(p) == {SubSeq(p, 1, n) : n \in 0..(Len(p) - 1)}

\* ensure_parent_not_tombstoned: create_dir_all on a deleted parent, which
\* fails on a file in its way.
EnsureParent(d) ==
  LET deleted == Tombed(Parent(req[d].path))
      blocked == \E p \in Ancestors(req[d].path) : IsFile(p)
  IN /\ pc[d] = "accepted" /\ req[d].op \in {"write", "stream"}
     /\ disk' = IF ~deleted \/ blocked THEN disk
                ELSE [p \in DOMAIN disk \cup Ancestors(req[d].path) |->
                        IF Exists(p) THEN disk[p] ELSE Dir]
     /\ IF deleted /\ blocked
        THEN Finish(d, "Error", EmptyClock)
        ELSE /\ pc' = [pc EXCEPT ![d] = IF req[d].op = "stream" THEN "staging" ELSE "waiting"]
             /\ reply' = reply
     /\ UNCHANGED <<store, lock, req, plan, detached, gc, now>>

\* The chunks of a streamed write go to a temporary file next to its target.
Stage(d) ==
  /\ pc[d] = "staging"
  /\ IF IsDir(Parent(req[d].path))
     THEN /\ disk' = With(disk, TempPath(req[d].path, d), File(req[d].clock, req[d].data))
          /\ pc' = [pc EXCEPT ![d] = "waiting"]
          /\ reply' = reply
     ELSE Finish(d, "Error", EmptyClock) /\ disk' = disk
  /\ UNCHANGED <<store, lock, req, plan, detached, gc, now>>

\* Stat takes no lock: it looks at the file, and then at the clock.  The file
\* may go while it looks, or not let itself be looked at, which is an error.
StatFile(d) ==
  /\ pc[d] = "accepted" /\ req[d].op = "stat"
  /\ \/ /\ Exists(req[d].path)
        /\ pc' = [pc EXCEPT ![d] = "found"]
        /\ reply' = [reply EXCEPT ![d] = Answer("Found", EmptyClock, {disk[req[d].path]})]
     \/ ~Exists(req[d].path) /\ Finish(d, "NotFound", EmptyClock)
     \/ Exists(req[d].path) /\ Finish(d, "Error", EmptyClock)
  /\ UNCHANGED <<disk, store, lock, req, plan, detached, gc, now>>

StatClock(d) ==
  /\ pc[d] = "found"
  /\ pc' = [pc EXCEPT ![d] = "replied"]
  /\ reply' = [reply EXCEPT ![d] = Answer("Found", LiveClock(req[d].path), @.seen)]
  /\ UNCHANGED <<disk, store, lock, req, plan, detached, gc, now>>

\* read_file keeps the file open that it found, whatever is renamed over it.
ReadFile(d) ==
  /\ pc[d] = "accepted" /\ req[d].op = "read"
  /\ pc' = [pc EXCEPT ![d] = "replied"]
  /\ reply' = [reply EXCEPT ![d] = IF IsFile(req[d].path)
                                  THEN Answer("Data", EmptyClock, {disk[req[d].path]})
                                  ELSE Reply("Error", EmptyClock)]
  /\ UNCHANGED <<disk, store, lock, req, plan, detached, gc, now>>

Children(p) == {q \in DOMAIN disk : q # Root /\ Parent(q) = p}

\* What the directory contains, conflict copies and staged files included.
ListDir(d) ==
  /\ pc[d] = "accepted" /\ req[d].op = "list"
  /\ pc' = [pc EXCEPT ![d] = "replied"]
  /\ reply' = [reply EXCEPT ![d] = IF IsDir(req[d].path)
                                  THEN Answer("Listing", EmptyClock, Children(req[d].path))
                                  ELSE Reply("Error", EmptyClock)]
  /\ UNCHANGED <<disk, store, lock, req, plan, detached, gc, now>>

-----------------------------------------------------------------------------
(* The critical section.                                                    *)

\* A bug: the decision is taken without waiting for the lock.
LockIgnored == TRUE

LockFree == lock = Unlocked

\* The lock is taken and the request decided.  A decision that changes
\* nothing is returned at once.
Acquire(d) ==
  /\ pc[d] = "waiting" /\ LockFree
  /\ LET outcome == Decide(d, req[d])
     IN IF outcome.ops = <<>>
        THEN /\ Finish(d, outcome.result, outcome.clock)
             /\ disk' = WithoutTemp(disk, d)
             /\ UNCHANGED <<lock, plan>>
        ELSE /\ lock' = d
             /\ pc' = [pc EXCEPT ![d] = "locked"]
             /\ plan' = [plan EXCEPT ![d] = outcome.ops]
             /\ reply' = [reply EXCEPT ![d] = Reply(outcome.result, outcome.clock)]
             /\ disk' = disk
  /\ UNCHANGED <<store, req, detached, gc, now>>

\* One operation of the plan; after the last the handler returns.
Step(d) ==
  /\ pc[d] = "locked" /\ Possible(Head(plan[d]))
  /\ disk' = DiskAfter(Head(plan[d]))
  /\ clocks' = ClocksAfter(Head(plan[d]))
  /\ tombs' = TombsAfter(Head(plan[d]))
  /\ plan' = [plan EXCEPT ![d] = Tail(@)]
  /\ IF Tail(plan[d]) = <<>>
     THEN lock' = Unlocked /\ pc' = [pc EXCEPT ![d] = "replied"]
     ELSE UNCHANGED <<lock, pc>>
  /\ UNCHANGED <<req, reply, detached, gc, now>>

\* A bug: a handler that returns an error, or is dropped, leaves the lock locked.
KeepTheLock == lock' = lock

GiveUpTheLock == lock' = Unlocked

\* A file operation fails: the handler returns the error and does no more.
StepFails(d) ==
  /\ pc[d] = "locked" /\ ~Possible(Head(plan[d]))
  /\ Finish(d, "Error", EmptyClock)
  /\ plan' = [plan EXCEPT ![d] = <<>>]
  /\ GiveUpTheLock
  /\ disk' = WithoutTemp(disk, d)
  /\ UNCHANGED <<store, req, detached, gc, now>>

Forget(d) ==
  /\ pc' = [pc EXCEPT ![d] = "idle"]
  /\ req' = [req EXCEPT ![d] = NoRequest]
  /\ plan' = [plan EXCEPT ![d] = <<>>]
  /\ reply' = [reply EXCEPT ![d] = NoReply]

\* The client has its answer.
Return(d) ==
  /\ pc[d] = "replied"
  /\ Forget(d)
  /\ UNCHANGED <<disk, store, lock, detached, gc, now>>

-----------------------------------------------------------------------------
(* Failures.                                                                *)

\* The client's connection goes away and its handler is dropped where it
\* awaits: the chunks, the lock, or a file operation, which tokio has handed
\* to another thread and which runs all the same.  The lock is given up before
\* the staged copy is removed: the guard is the younger of the two.
DropBeforeLock(d) ==
  /\ pc[d] \in {"accepted", "staging", "waiting", "found"}
  /\ disk' = WithoutTemp(disk, d)
  /\ UNCHANGED <<lock, detached>>

DropUnderLock(d) ==
  /\ pc[d] = "locked" /\ OnDisk(Head(plan[d]))
  /\ GiveUpTheLock
  /\ detached' = detached \cup {Head(plan[d])} \cup
       (IF req[d].op = "stream" THEN {RemoveFile(TempPath(req[d].path, d))} ELSE {})
  /\ disk' = disk

Disconnect(d) ==
  /\ "disconnect" \in Failures
  /\ DropBeforeLock(d) \/ DropUnderLock(d)
  /\ Forget(d)
  /\ UNCHANGED <<store, gc, now>>

Detached(op) ==
  /\ op \in detached
  /\ disk' = IF Possible(op) THEN DiskAfter(op) ELSE disk
  /\ detached' = detached \ {op}
  /\ UNCHANGED <<store, lock, rpc, gc, now>>

NoSweep == [phase |-> "idle", todo |-> {}, absent |-> {}, victims |-> {},
            count |-> 0]

\* The agent dies and is started again: the files stay as they are, staged
\* copies included, and so do the stores.
Crash ==
  /\ "crash" \in Failures
  /\ lock' = Unlocked
  /\ pc' = [d \in Device |-> "idle"]
  /\ req' = [d \in Device |-> NoRequest]
  /\ plan' = [d \in Device |-> <<>>]
  /\ reply' = [d \in Device |-> NoReply]
  /\ detached' = {}
  /\ gc' = NoSweep
  /\ UNCHANGED <<disk, store, now>>

-----------------------------------------------------------------------------
(* The collector: gc_sweep, one look at the directory or removal at a time. *)

GcStep == UNCHANGED <<disk, lock, rpc, detached, now>>

Expired == {p \in DOMAIN tombs : tombs[p].at > 0 /\ now - tombs[p].at >= TombstoneTtl}

SweepStarts ==
  /\ gc.phase = "idle"
  /\ gc' = [NoSweep EXCEPT !.phase = "tombs", !.todo = Expired]
  /\ UNCHANGED store /\ GcStep

\* A bug: the test for the file of an expired tombstone is inverted.
StillAway(p) == ~Exists(p)

CameBack(p) == Exists(p)

\* Phase 1: is the file of an expired tombstone still away?
LookAtTomb ==
  /\ gc.phase = "tombs" /\ gc.todo # {}
  /\ LET p == CHOOSE p \in gc.todo : TRUE
     IN gc' = [gc EXCEPT !.todo = @ \ {p},
                         !.victims = IF CameBack(p) THEN @ ELSE @ \cup {p}]
  /\ UNCHANGED store /\ GcStep

Advance(next) ==
  gc' = IF next = "idle" THEN NoSweep ELSE [gc EXCEPT !.phase = next, !.victims = {}]

\* gc_remove_batch gets the lock and removes what the phase has collected.
RemoveTombs(next) ==
  /\ LockFree
  /\ tombs' = Without(tombs, gc.victims)
  /\ clocks' = clocks
  /\ Advance(next)
  /\ GcStep

RemoveClocks(next) ==
  /\ LockFree
  /\ clocks' = Without(clocks, gc.victims)
  /\ tombs' = tombs
  /\ Advance(next)
  /\ GcStep

\* It waits 100 ms for a contested lock, then leaves the batch for the next
\* sweep.
Skip(next) ==
  /\ ~LockFree
  /\ Advance(next)
  /\ UNCHANGED store /\ GcStep

TombsScanned == gc.phase = "tombs" /\ gc.todo = {}

CollectTombs == TombsScanned /\ (RemoveTombs("entries") \/ Skip("entries"))

\* Phase 2: entries of the clock store with neither a file nor a tombstone.
ListClocks ==
  /\ gc.phase = "entries"
  /\ gc' = [gc EXCEPT !.phase = "clocks", !.todo = DOMAIN clocks]
  /\ UNCHANGED store /\ GcStep

LookAtClock ==
  /\ gc.phase = "clocks" /\ gc.todo # {} /\ gc.absent = {}
  /\ LET p == CHOOSE p \in gc.todo : TRUE
     IN gc' = [gc EXCEPT !.todo = @ \ {p}, !.absent = IF Exists(p) THEN {} ELSE {p}]
  /\ UNCHANGED store /\ GcStep

LookForTomb ==
  /\ gc.phase = "clocks" /\ gc.absent # {}
  /\ gc' = [gc EXCEPT !.absent = {}, !.victims = @ \cup (gc.absent \ DOMAIN tombs)]
  /\ UNCHANGED store /\ GcStep

ClocksScanned == gc.phase = "clocks" /\ gc.todo = {} /\ gc.absent = {}

CollectClocks == ClocksScanned /\ (RemoveClocks("cap_tombs") \/ Skip("cap_tombs"))

Oldest(f, ps, n) ==
  {v \in SUBSET ps : /\ Cardinality(v) = IF n < Cardinality(ps) THEN n ELSE Cardinality(ps)
                     /\ \A p \in v, q \in ps \ v : f[p].at <= f[q].at}

Excess(n) == IF n > MaxEntries THEN n - MaxEntries ELSE 0

\* Phase 3: the oldest tombstones above the cap, then the oldest entries of
\* the clock store that phase 2 would take.
CountEntries ==
  /\ gc.phase = "cap_tombs"
  /\ \E v \in Oldest(tombs, DOMAIN tombs, Excess(Cardinality(DOMAIN tombs))) :
       gc' = [gc EXCEPT !.phase = "excess_tombs", !.victims = v,
                        !.count = Cardinality(DOMAIN clocks)]
  /\ UNCHANGED store /\ GcStep

CapTombs == gc.phase = "excess_tombs" /\ (RemoveTombs("cap_clocks") \/ Skip("cap_clocks"))

Orphans == {p \in DOMAIN clocks : ~Exists(p) /\ p \notin DOMAIN tombs}

CountOrphans ==
  /\ gc.phase = "cap_clocks"
  /\ \E v \in Oldest(clocks, Orphans, Excess(gc.count)) :
       gc' = [gc EXCEPT !.phase = "excess_clocks", !.victims = v]
  /\ UNCHANGED store /\ GcStep

CapClocks == gc.phase = "excess_clocks" /\ (RemoveClocks("idle") \/ Skip("idle"))

Gc == \/ SweepStarts \/ LookAtTomb \/ CollectTombs
      \/ ListClocks \/ LookAtClock \/ LookForTomb \/ CollectClocks
      \/ CountEntries \/ CapTombs \/ CountOrphans \/ CapClocks

Second ==
  /\ now < MaxNow
  /\ now' = now + 1
  /\ UNCHANGED <<disk, store, lock, rpc, detached, gc>>

-----------------------------------------------------------------------------
Init ==
  /\ disk = [p \in {Root} \cup Served |-> IF p = Root THEN Dir ELSE File(EmptyClock, NoData)]
  /\ clocks = EmptyMap /\ tombs = EmptyMap
  /\ lock = Unlocked
  /\ pc = [d \in Device |-> "idle"]
  /\ req = [d \in Device |-> NoRequest]
  /\ plan = [d \in Device |-> <<>>]
  /\ reply = [d \in Device |-> NoReply]
  /\ detached = {}
  /\ gc = NoSweep
  /\ now = 1

Look(d) == StatFile(d) \/ StatClock(d) \/ ReadFile(d) \/ ListDir(d)

Handle(d) == EnsureParent(d) \/ Stage(d) \/ Look(d)
               \/ Acquire(d) \/ Step(d) \/ StepFails(d)

\* All that happens at the host whatever its clients ask, the collector's
\* sweeps and crashes aside.
Serve ==
  \/ \E d \in Device : Handle(d) \/ Disconnect(d)
  \/ \E op \in detached : Detached(op)
  \/ Second

Next ==
  \/ \E d \in Device : Return(d) \/ \E r \in Request : Submit(d, r)
  \/ Serve \/ Gc \/ Crash

Spec == Init /\ [][Next]_vars

\* tokio runs every handler and the collector, hands write_lock out in the
\* order of arrival, and a dropped handler's file operation to a thread.
Fairness ==
  /\ \A d \in Device : /\ WF_vars(Handle(d)) /\ SF_vars(Acquire(d))
                       /\ WF_vars(Return(d))
  /\ WF_vars(\E op \in detached : Detached(op))
  /\ WF_vars(Gc)

-----------------------------------------------------------------------------
(* Properties.                                                              *)

IsOriginal(p) == p # Root /\ p[Len(p)].copies = <<>>

Entry == [clock : Clock, at : Nat]

\* The types of the variables, and who has the lock: it is held exactly by
\* the one handler that is under way with its plan (write_lock's guard).
TypeOK ==
  /\ \A p \in DOMAIN disk : disk[p].kind \in {"dir", "file"}
  /\ \A p \in DOMAIN clocks : clocks[p] \in Entry
  /\ \A p \in DOMAIN tombs : tombs[p] \in Entry
  /\ pc \in [Device -> {"idle", "accepted", "staging", "found", "waiting", "locked", "replied"}]
  /\ lock \in Device \cup {Unlocked}
  /\ \A d \in Device : /\ lock = d <=> pc[d] = "locked"
                       /\ pc[d] = "locked" <=> plan[d] # <<>>
                       /\ reply[d].clock \in Clock

MadeADir(p) == \E r \in Request : r.op = "mkdir" /\ r.path = p

\* Between critical sections a path lives in at most one of the two stores
\* (the comment on FileServiceImpl.tombstones, ADR 0008).
ExactlyOneStore == lock = Unlocked => DOMAIN clocks \cap DOMAIN tombs = {}

\* The same for the names that clients choose for files: conflict copies, and
\* what a mkdir is asked for, are left aside.
OneStorePerName ==
  lock = Unlocked => \A p \in DOMAIN clocks \cap DOMAIN tombs : IsOriginal(p) => MadeADir(p)

\* Between critical sections there is no file where a tombstone says that it
\* was deleted: the delete of it would answer DELETED and leave it there, and
\* the edits in it would be weighed against the wrong clock (write_file,
\* delete_file, rename_file).
DeletedIsGone ==
  lock = Unlocked => \A p \in DOMAIN tombs : Tombed(p) /\ IsOriginal(p) => ~IsFile(p)

IsPut(op, p) == op.do \in {"put_clock", "put_tomb"} /\ op.path = p

\* The clocks that the plan s is about to store for p, once its file operation
\* is done: before, that may fail and the handler store nothing.
Pending(s, p) ==
  {s[i].clock : i \in {j \in DOMAIN s : IsPut(s[j], p) /\ ~OnDisk(s[1])}}

\* What the host knows of the versions of a path: its clock, its tombstone and
\* what the handler at work is about to store.
Known(p) == {LiveClock(p), TombClock(p)} \cup UNION {Pending(plan[d], p) : d \in Device}

\* A rename or a mkdir is at work that gives p to another file.
Reassigned(p) ==
  \E d \in Device :
    /\ pc[d] = "locked"
    /\ \/ req[d].op = "rename" /\ p \in {req[d].path, req[d].to}
       \/ req[d].op = "mkdir" /\ Within(req[d].path, p)

\* The host never forgets a version of a path it has acknowledged, between any
\* two operations on any of the stores, as long as the collector or a rename
\* does not take the entry: a forgotten version would let a stale write
\* through (write_file, delete_file).
VersionsOnlyGrow ==
  [][\A p \in DOMAIN clocks \cup DOMAIN tombs :
        IsOriginal(p) /\ ~Reassigned(p) /\ gc' = gc =>
          \A c \in Known(p) : \E c2 \in Known(p)' : Leq(c, c2)]_vars

\* What a handler answers is so at the moment it releases the lock: APPLIED
\* leaves the written data in place under the clock it returns, DELETED leaves
\* no file and a tombstone with that clock, RENAMED the file at its new path
\* (the comment on write_lock: two operations on the same path cannot
\* interleave and corrupt the decision).
Truthful(d) ==
  LET r == req[d] IN
    CASE reply'[d].result = "Applied" /\ r.op \in {"write", "stream"} ->
           /\ Exists(r.path)' /\ disk'[r.path] = File(r.clock, r.data)
           /\ LiveClock(r.path)' = reply'[d].clock /\ ~Tombed(r.path)'
      [] reply'[d].result = "Deleted" ->
           ~IsFile(r.path)' /\ TombClock(r.path)' = reply'[d].clock
      [] reply'[d].result = "Renamed" ->
           /\ Exists(r.to)' /\ LiveClock(r.to)' = reply'[d].clock /\ ~Tombed(r.to)'
           /\ r.path # r.to => LiveClock(r.path)' = EmptyClock
      [] OTHER -> TRUE

AnswersAreTrue ==
  [][\A d \in Device : pc[d] = "locked" /\ pc'[d] = "replied" /\ IsOriginal(req[d].path)
                        => Truthful(d)]_vars

IsTemp(p) ==
  p # Root /\ LET copies == p[Len(p)].copies IN copies # <<>> /\ copies[Len(copies)].at = 0

\* The name that a rename gives a file.
IsTarget(p, r) == r.op = "rename" /\ r.to = p

\* No edit is lost unseen: when the last copy of a file's content goes, it goes
\* to a request whose clock has seen the edit it came from (README, "keep both
\* versions"; ADR 0008, "detect, never silently lose data").  A rename is no such
\* request for the file at its new name: rename_file replaces whatever is there.
EditsSurvive ==
  [][\A p \in DOMAIN disk :
       \/ ~IsFile(p) \/ IsTemp(p)
       \/ \E q \in DOMAIN disk' : disk'[q] = disk[p]
       \/ \E d \in Device :
            lock = d /\ (Leq(disk[p].edit, req[d].clock) \/ IsTarget(p, req[d]))]_vars

Does(op, what, p) == op.do = what /\ op.path = p

OpsOf(s) == {s[i] : i \in DOMAIN s}

\* The store operations that the handler at work has left, once its file
\* operation is done, of the plans pl.
RestOf(pl) ==
  UNION {OpsOf(pl[d]) : d \in {e \in Device : pl[e] # <<>> /\ ~OnDisk(pl[e][1])}}

\* In the directory f and the stores cs and ts the edit at p is under a clock
\* that has seen it and under no tombstone, or the operations of rest see to it.
Covers(rest, f, cs, ts, p) ==
  LET puts == {op \in rest : Does(op, "put_clock", p)} IN
    /\ \A op \in puts : Leq(f[p].edit, op.clock)
    /\ puts = {} => Leq(f[p].edit, ClockIn(cs, p))
    /\ ClockIn(ts, p) # EmptyClock => DropTomb(p) \in rest

\* The host can weigh whatever request comes next against the file at p.
Covered(p) == Covers(RestOf(plan), disk, clocks, tombs, p)

\* p is a conflict copy that the write r by d may make, in some second.
IsCopyOf(p, r, d) ==
  LET copies == p[Len(p)].copies IN
    /\ r.op \in {"write", "stream"} /\ copies # <<>>
    /\ p = [r.path EXCEPT ![Len(r.path)].copies =
                Append(@, [by |-> d, at |-> copies[Len(copies)].at])]

\* Whatever the collector has done: no edit goes that the host can weigh, unless
\* the request at work has seen it, renames something onto it, or puts its
\* conflict copy where there was one of the same second (write_file,
\* write_file_stream, delete_file, rename_file).
CoveredEditsSurvive ==
  [][\A p \in DOMAIN disk : IsFile(p) /\ ~IsTemp(p) /\ Covered(p) =>
       \/ \E q \in DOMAIN disk' : disk'[q] = disk[p]
       \/ \E d \in Device : /\ lock = d
                            /\ \/ Leq(disk[p].edit, req[d].clock)
                               \/ IsTarget(p, req[d]) \/ IsCopyOf(p, req[d], d)]_vars

\* With nobody at work, the collector takes the clock of p.
Collected(p) == lock = Unlocked /\ p \in DOMAIN clocks \ DOMAIN clocks'

\* The mkdir r has p, or a directory above it, out of its way, and the clocks that
\* were kept there are still to follow.
FollowsTo(p, r, ops) ==
  r.op = "mkdir" /\ \E op \in OpsOf(ops) : op.do = "rekey_clocks" /\ Within(op.to, p)

\* Two steps, and no others, leave the host with a file that it cannot weigh a
\* request against: a batch of the collector whose looks are out of date
\* (gc_sweep, gc_remove_batch), and a conflict copy that gets a name which was
\* deleted before (write_file: its tombstone stays).  A rename takes such a file
\* along, and while a mkdir moves what is in its way the clocks come after the
\* files (mkdir_file).
EditsStayCovered ==
  [][\A p \in DOMAIN disk' : IsFile(p)' /\ ~IsTemp(p) =>
       \/ Covered(p)'
       \/ IsFile(p) /\ ~Covered(p) /\ disk'[p] = disk[p]
       \/ Collected(p)
       \/ \E d \in Device :
            /\ lock = d
            /\ \/ FollowsTo(p, req[d], plan[d])
               \/ IsCopyOf(p, req[d], d) /\ Tombed(p)
               \/ LET q == req[d].path IN
                    IsTarget(p, req[d]) /\ IsFile(q) /\ ~Covered(q) /\ disk'[p] = disk[q]]_vars

\* Every request is answered or its client gone, whatever its handler meets:
\* write_lock is released on every path through every handler, and the
\* collector, which contends for it, never keeps it (gc_remove_batch).
EveryRequestAnswered == \A d \in Device : pc[d] # "idle" ~> pc[d] = "idle"

Overdue(p) == p \in Expired /\ ~Exists(p)

\* A tombstone that is old enough and has no file goes, however often the
\* collector finds the lock taken and puts its batch off (gc_sweep,
\* gc_remove_batch: "those keys are retried next sweep").
OverdueTombsGo == \A r \in Request : Overdue(r.path) ~> ~Overdue(r.path)

-----------------------------------------------------------------------------
(* The inductive invariants behind TypeOK and OneStorePerName.              *)

IsPlan(s) ==
  /\ s \in Seq({s[i] : i \in DOMAIN s})
  /\ \A i \in DOMAIN s : s[i].do \in {"put_clock", "put_tomb"} => s[i].clock \in Clock

\* What a client asks for stays with its handler, and a plan is a sequence of
\* operations that store clocks.
Shape ==
  /\ now \in Nat
  /\ DOMAIN req = Device /\ DOMAIN plan = Device /\ DOMAIN reply = Device
  /\ \A d \in Device :
       /\ pc[d] \in {"accepted", "staging", "waiting", "locked"} => req[d] \in Request
       /\ pc[d] \in {"waiting", "locked"} => req[d].op \in Mutation
       /\ pc[d] = "staging" => req[d].op = "stream"
       /\ IsPlan(plan[d])

TypeInv == TypeOK /\ Shape

\* A plan s keeps the paths of the two stores, cs and ts, apart: it changes
\* the directory first, drops a tombstone before it puts the clock, and the
\* clock after it has put the tombstone.
KeepsApart(s, cs, ts) ==
  \A i \in DOMAIN s :
    /\ s[i].do \notin {"rekey_clocks", "rekey_tombs"}
    /\ OnDisk(s[i]) => i = 1 /\ \A p \in cs \cap ts : ~IsOriginal(p)
    /\ s[i].do = "put_clock" /\ IsOriginal(s[i].path) =>
         \/ s[i].path \notin ts
         \/ \E j \in 1..(i - 1) : Does(s[j], "drop_tomb", s[i].path)
    /\ s[i].do = "put_tomb" =>
         /\ s[i].clock # EmptyClock
         /\ \A j \in DOMAIN s : s[j].do # "put_clock"
         /\ IsOriginal(s[i].path) =>
              \/ s[i].path \notin cs
              \/ \E j \in (i + 1)..Len(s) : Does(s[j], "drop_clock", s[i].path)

PlansKeepApart == \A d \in Device : KeepsApart(plan[d], DOMAIN clocks, DOMAIN tombs)

\* What both stores have, the plan s is about to drop from one.
WillPart(s, cs, ts) ==
  \A p \in cs \cap ts : IsOriginal(p) => \E i \in DOMAIN s : Does(s[i], "drop_clock", p)

BothOnlyWhileDeleting ==
  /\ \A d \in Device : lock = d => WillPart(plan[d], DOMAIN clocks, DOMAIN tombs)
  /\ lock = Unlocked => WillPart(<<>>, DOMAIN clocks, DOMAIN tombs)

TombsAreSeen == \A p \in DOMAIN tombs : Tombed(p)

OneStoreInv == TypeInv /\ PlansKeepApart /\ BothOnlyWhileDeleting /\ TombsAreSeen

\* What is left of a plan s that gives p the clock c: live, or as a tombstone.
Stores(s, p, c) ==
  \/ s \in {<<PutClock(p, c)>>, <<DropTomb(p), PutClock(p, c)>>}
  \/ OnDisk(s[1]) /\ s \in {<<s[1], PutClock(p, c)>>, <<s[1], DropTomb(p), PutClock(p, c)>>}

Deletes(s, p, c) ==
  s \in {<<PutTomb(p, c)>>, <<PutTomb(p, c), DropClock(p)>>,
         <<RemoveFile(p), PutTomb(p, c), DropClock(p)>>}

\* The clock that a write or a delete puts has seen all that the stores, cs and
\* ts, have of the path, and a delete drops a clock that its tombstone has seen.
Overtakes(s, cs, ts) ==
  LET p == s[Len(s)].path IN
    \/ \E i \in DOMAIN s :
         /\ IsPut(s[i], p)
         /\ Stores(s, p, s[i].clock) \/ Deletes(s, p, s[i].clock)
         /\ IsOriginal(p) => Leq(ClockIn(cs, p), s[i].clock) /\ Leq(ClockIn(ts, p), s[i].clock)
    \/ s = <<DropClock(p)>> /\ (IsOriginal(p) => Leq(ClockIn(cs, p), ClockIn(ts, p)))

\* The stores change only where the request at work names the path, and a
\* removal of the collector changes its sweep.
VersionInv ==
  /\ "phase" \in DOMAIN gc
  /\ \A d \in Device : pc[d] = "locked" =>
       /\ req[d].op \in {"write", "stream", "delete"} => Overtakes(plan[d], clocks, tombs)
       /\ req[d].op = "rename" =>
            \A i \in DOMAIN plan[d] :
              OnDisk(plan[d][i]) \/ plan[d][i].path \in {req[d].path, req[d].to}

\* The directory is a tree, and the directories in it are the root and the
\* parents that writes have recreated.
Tree == \A p \in DOMAIN disk : p \in Path /\ \A a \in Ancestors(p) : IsDir(a)

IsParent(p) ==
  \E r \in Request : r.op \in {"write", "stream"} /\ p \in Ancestors(r.path)

OnlyParents == IsDir(Root) /\ \A p \in DOMAIN disk \ {Root} : IsDir(p) => IsParent(p)

RegularFiles == {p \in DOMAIN disk : IsFile(p)}

\* The operation op leaves a file at p.
Makes(op, p) == \/ Does(op, "write", p)
                \/ op.do = "move" /\ op.to = p

\* A plan s leaves a file or a tombstone, never both: it puts a tombstone where
\* it has removed the file, and drops the one of a file it makes.
Buries(s, files, ts) ==
  /\ \A i \in DOMAIN s :
       /\ OnDisk(s[i]) => i = 1 /\ \A p \in files \cap ts : ~IsOriginal(p)
       /\ s[i].do = "put_tomb" =>
            /\ \A j \in DOMAIN s : s[j].do \notin {"write", "move"}
            /\ IsOriginal(s[i].path) =>
                 \/ s[i].path \notin files
                 \/ \E j \in 1..(i - 1) : Does(s[j], "remove", s[i].path)
  /\ \A p \in ts : IsOriginal(p) /\ (p \in files \/ \E i \in DOMAIN s : Makes(s[i], p))
                     => \E i \in DOMAIN s : Does(s[i], "drop_tomb", p)

\* A plan s names no root, makes no directory, and moves what cannot be one.
Spares(s) ==
  \A i \in DOMAIN s : OnDisk(s[i]) =>
    /\ s[i].do # "mkdir" /\ s[i].path \in Path \ {Root}
    /\ s[i].do = "move" => s[i].to \in Path \ {Root} /\ ~IsParent(s[i].path)

PlansBury ==
  /\ \A d \in Device : lock = d => Buries(plan[d], RegularFiles, DOMAIN tombs)
  /\ lock = Unlocked => Buries(<<>>, RegularFiles, DOMAIN tombs)

GoneInv ==
  /\ Tree /\ OnlyParents /\ detached = {} /\ PlansBury
  /\ \A d \in Device : Spares(plan[d])

\* What a handler has left to do, in the directory f and the stores cs and ts,
\* makes its answer true: for a write the file, its clock and the end of its
\* tombstone; for a delete the tombstone; for a rename all that, at both paths.
WillApply(d, r, s, c, f, ts) ==
  LET p == r.path IN
    /\ s \in {<<Store(d, r, p), PutClock(p, c)>>, <<Store(d, r, p), DropTomb(p), PutClock(p, c)>>,
              <<DropTomb(p), PutClock(p, c)>>, <<PutClock(p, c)>>}
    /\ s[1] = Store(d, r, p) \/ (p \in DOMAIN f /\ f[p] = File(r.clock, r.data))
    /\ ClockIn(ts, p) # EmptyClock => DropTomb(p) \in OpsOf(s)

WillDelete(r, s, c, f, ts) ==
  LET p == r.path IN
    /\ Deletes(s, p, c) \/ (s = <<DropClock(p)>> /\ ClockIn(ts, p) = c)
    /\ s[1] = RemoveFile(p) \/ p \notin DOMAIN f \/ f[p].kind # "file"

WillRename(r, s, c, f, cs, ts) ==
  LET p == r.path
      q == r.to
  IN /\ s \in {<<Move(p, q), DropClock(p), DropTomb(q), PutClock(q, c)>>,
               <<WriteFile(q, EmptyClock, NoData), DropTomb(p), DropTomb(q), PutClock(q, c)>>,
               <<DropClock(p), DropTomb(q), PutClock(q, c)>>,
               <<DropTomb(p), DropTomb(q), PutClock(q, c)>>,
               <<DropTomb(q), PutClock(q, c)>>, <<PutClock(q, c)>>}
     /\ OnDisk(s[1]) \/ q \in DOMAIN f
     /\ ClockIn(ts, q) # EmptyClock => DropTomb(q) \in OpsOf(s)
     /\ p # q /\ ClockIn(cs, p) # EmptyClock => DropClock(p) \in OpsOf(s)

Fulfils(d, r, a, s, f, cs, ts) ==
  /\ a.result = "Applied" => r.op \in {"write", "stream"} /\ WillApply(d, r, s, a.clock, f, ts)
  /\ a.result = "Deleted" => r.op = "delete" /\ WillDelete(r, s, a.clock, f, ts)
  /\ a.result = "Renamed" => r.op = "rename" /\ WillRename(r, s, a.clock, f, cs, ts)

\* A streamed write has its data staged until it renames the copy into place,
\* and nobody else touches it.
HasStaged(d) ==
  /\ req[d].op = "stream"
  /\ pc[d] = "waiting" \/ (pc[d] = "locked" /\ OnDisk(plan[d][1]))

Touched(op) == {op.path} \cup (IF op.do = "move" THEN {op.to} ELSE {})

LeavesStaged(d, s) ==
  \A r \in Request, e \in Device \ {d}, i \in DOMAIN s :
    r.op = "stream" /\ OnDisk(s[i]) => TempPath(r.path, e) \notin Touched(s[i])

AnswerInv ==
  /\ now # 0
  /\ \A d \in Device :
       /\ HasStaged(d) => LET p == TempPath(req[d].path, d)
                          IN Exists(p) /\ disk[p] = File(req[d].clock, req[d].data)
       /\ LeavesStaged(d, plan[d])
       /\ pc[d] = "locked" /\ IsOriginal(req[d].path) =>
            Fulfils(d, req[d], reply[d], plan[d], disk, clocks, tombs)

\* What OneStorePerName rests on: no directories are made, every request to
\* change something carries an edit, and the agent does not die.
NoMkdir     == \A r \in Request : r.op # "mkdir"
EditsTicked == \A r \in Request : r.op \in Mutation => r.clock # EmptyClock
NoCrash     == "crash" \notin Failures

\* What DeletedIsGone rests on besides: nothing fails, and what a rename or a
\* streamed write moves is never a directory that a write may recreate.
NoFailures == Failures = {}
MovesOnlyFiles ==
  \A r, s \in Request, d \in Device :
    s.op \in {"write", "stream"} =>
      /\ r.op = "rename" => r.path \notin Ancestors(s.path)
      /\ r.op = "stream" => TempPath(r.path, d) \notin Ancestors(s.path)

\* What AnswersAreTrue rests on besides: no request names a staged file, whose
\* name is made up for the one handler that writes it.
StagedUnnamed ==
  \A r, s \in Request, d \in Device :
    s.op = "stream" =>
      /\ r.path # TempPath(s.path, d)
      /\ r.op = "rename" => r.to # TempPath(s.path, d)

\* Where a file operation puts a file, or takes it.
Place(op) == IF op.do = "move" THEN op.to ELSE op.path

StagedPaths == {TempPath(r.path, d) : r \in {q \in Request : q.op = "stream"}, d \in Device}

\* The files that hold edits for good in the directory f.
EditsIn(f) == {p \in DOMAIN f : f[p].kind = "file" /\ p \notin StagedPaths}

\* The plan s of the request r has been decided by the clocks cs and the
\* tombstones ts: what it replaces, removes or moves is covered only if r, or the
\* clock that the plan puts, has seen it, and what it puts in place will be.
StartsSeen(d, r, s, cs, ts) ==
  LET c == s[Len(s)].clock
      q == s[Len(s)].path
      p == r.path
  IN \/ /\ r.op \in {"write", "stream"} /\ q \in Path \ {Root} /\ q \notin StagedPaths
        /\ Leq(r.clock, c)
        /\ \/ s = <<Store(d, r, q), PutClock(q, c)>>
           \/ s = <<Store(d, r, q), DropTomb(q), PutClock(q, c)>>
        /\ \/ IsCopyOf(q, r, d)
           \/ q = p /\ IF ClockIn(ts, p) = EmptyClock THEN Leq(ClockIn(cs, p), r.clock)
                                                      ELSE DropTomb(p) \in OpsOf(s)
     \/ /\ r.op = "delete" /\ s = <<RemoveFile(p), PutTomb(p, s[2].clock), DropClock(p)>>
        /\ Leq(ClockIn(cs, p), r.clock)
     \/ /\ r.op = "rename" /\ s = <<Move(p, r.to), DropClock(p), DropTomb(r.to), PutClock(r.to, c)>>
        /\ Leq(ClockIn(cs, p), c)
     \/ /\ r.op = "rename"
        /\ s = <<WriteFile(r.to, EmptyClock, NoData), DropTomb(p), DropTomb(r.to), PutClock(r.to, c)>>

\* What is left of the plan s after its file operation uncovers no edit of the
\* directory f: it puts a clock last, drops none that stays dropped, and puts a
\* tombstone over a file only where there was one.
EndsCovered(s, f, ts) ==
  /\ \A i \in DOMAIN s : s[i].do = "put_clock" => i = Len(s)
  /\ \A op \in OpsOf(s) :
       /\ op.do = "drop_clock" /\ op.path \in EditsIn(f) =>
            \E o \in OpsOf(s) : Does(o, "put_clock", op.path)
       /\ op.do = "put_tomb" /\ op.path \in EditsIn(f) =>
            /\ ClockIn(ts, op.path) # EmptyClock
            /\ \A o \in OpsOf(s) : ~Does(o, "drop_tomb", op.path)

EditInv ==
  /\ \A p \in EditsIn(disk) : disk[p].edit \in Clock
  /\ \A d \in Device : pc[d] = "locked" =>
       IF OnDisk(plan[d][1])
       THEN StartsSeen(d, req[d], plan[d], clocks, tombs)
       ELSE EndsCovered(plan[d], disk, tombs)
=============================================================================
