------------------------------ MODULE NexusMount ------------------------------
(***************************************************************************)
(* nexus-mount (crates/fs/src/filesystem.rs, grpc_client.rs): the FUSE     *)
(* mounts of several devices over one FileHost.                            *)
(*                                                                         *)
(* A mount answers one callback of its kernel at a time (fuser's one       *)
(* thread), and waits for the reply of each request it sends meanwhile.    *)
(* The kernel may have several files open, the same file more than once,   *)
(* and calls what its open files and cached names allow.                   *)
(*                                                                         *)
(* Every write of an application is an edit of its own.  The content of a  *)
(* buffer or a file is the set of the edits that went into it: an empty    *)
(* file has none, a partial write adds one to what was there.  The files   *)
(* are in the root directory.                                              *)
(***************************************************************************)
EXTENDS FileHost, InodeTable, Bags

CONSTANTS
  Files,       \* the paths that applications use
  MaxEdits     \* bound on the edits of a device

ASSUME MountAssumption == MaxEdits \in Nat /\ \A p \in Files : Len(p) = 1 /\ p \in Path

VARIABLES
  table,    \* inodes: the inode table of each mount
  bufs,     \* write_buffers: inode -> FileBuf
  known,    \* client_clocks: path -> clock
  call,     \* the callback the mount is answering
  opened,   \* the kernel's open files: a bag of inodes and access modes
  dentry,   \* the kernel's names: path -> inode
  edits,    \* history: how many edits the device has made
  shown,    \* history: the edits a device has read, or was offered with a clock
  told,     \* history: the edits it learnt of from a refusal
  cut,      \* history: the devices that lost a reply to a change
  renamed   \* history: the paths that were an end of a rename

mount   == <<table, bufs, known, call, opened, dentry>>
history == <<edits, shown, told, cut, renamed>>
all     == <<vars, mount, history>>

Edit(d, n) == [by |-> d, n |-> n]

NoCall == [op |-> "none"]

Call(op, ino, path) == [op |-> op, ino |-> ino, path |-> path]

FileBuf(data, dirty, loaded) == [data |-> data, dirty |-> dirty, loaded |-> loaded]

KnownClock(d, p) == IF p \in DOMAIN known[d] THEN known[d][p] ELSE EmptyClock

\* A bug: what was heard of a path is forgotten.
LearnNothing(d, p, c) == known' = known

Learn(d, p, c) == known' = [known EXCEPT ![d] = With(@, p, c)]

-----------------------------------------------------------------------------
(* Asking the host.                                                         *)

Ready(d) == call[d] = NoCall /\ pc[d] = "idle"

Ask(d, c, r) == call' = [call EXCEPT ![d] = c] /\ Submit(d, r)

Looking(op, p) == [op |-> op, path |-> p, clock |-> EmptyClock, data |-> NoData]

\* A bug: a change goes out under the clock of the version it changes.
Unticked(d, p) == KnownClock(d, p)

\* What the device knows of the path, and one more change of its own.
NextClock(d, p) == Tick(KnownClock(d, p), d)

Change(d, op, p, x) == [op |-> op, path |-> p, clock |-> NextClock(d, p), data |-> x]

Broken == Reply("Error", EmptyClock)

Mutating(d) == req[d].op \in Mutation

\* The request fails for the mount: its handler is dropped, or the reply is
\* lost, in which case the host has done what was asked.
Break(d) ==
  /\ "disconnect" \in Failures
  /\ Disconnect(d) \/ Return(d)
  /\ cut' = IF Mutating(d) THEN cut \cup {d} ELSE cut

\* The request of d gets its answer.
Hear(d) == Return(d) /\ cut' = cut

Done(d) == call' = [call EXCEPT ![d] = NoCall]

\* The edits a device has been offered when it is told of a clock: those of
\* the version it saw, and of the one that is there, if the clock covers it.
Offered(a, p) ==
  (UNION {n.data : n \in {m \in a.seen : m.kind = "file"}})
    \cup (IF IsFile(p) /\ Leq(disk[p].edit, a.clock) THEN disk[p].data ELSE {})

-----------------------------------------------------------------------------
(* The callbacks that look: lookup, getattr, readdir, read.                 *)

\* A name is looked up at the host unless it has a local buffer.
Lookup(d, p) ==
  /\ Ready(d)
  /\ IF p \in DOMAIN table[d].inos /\ table[d].inos[p] \in DOMAIN bufs[d]
     THEN /\ dentry' = [dentry EXCEPT ![d] = With(@, p, table[d].inos[p])]
          /\ UNCHANGED <<vars, call>>
     ELSE Ask(d, Call("lookup", 0, p), Looking("stat", p)) /\ dentry' = dentry
  /\ UNCHANGED <<table, bufs, known, opened, history>>

LookedUp(d, a) ==
  LET p     == call[d].path
      isDir == \E n \in a.seen : n.kind = "dir"
      after == InoForPath(IF isDir THEN TrackDir(table[d], p) ELSE table[d], p)
  IN /\ call[d].op = "lookup"
     /\ CASE a.result = "Found" ->
               /\ table' = [table EXCEPT ![d] = after]
               /\ dentry' = [dentry EXCEPT ![d] = With(@, p, after.inos[p])]
          [] a.result = "NotFound" ->
               dentry' = [dentry EXCEPT ![d] = Without(@, {p})] /\ table' = table
          [] OTHER -> UNCHANGED <<table, dentry>>
     /\ Done(d)
     /\ UNCHANGED <<bufs, known, opened, edits, shown, told, renamed>>

\* The attributes of an inode: path_for_ino makes it the most recent.
GetAttr(d, i) ==
  /\ Ready(d) /\ \E p \in DOMAIN dentry[d] : dentry[d][p] = i
  /\ table' = [table EXCEPT ![d] = Touch(@, i)]
  /\ IF i \in DOMAIN table[d].paths /\ i \notin DOMAIN bufs[d]
     THEN Ask(d, Call("getattr", i, table[d].paths[i]), Looking("stat", table[d].paths[i]))
     ELSE UNCHANGED <<vars, call>>
  /\ UNCHANGED <<bufs, known, opened, dentry, history>>

GotAttr(d, a) ==
  /\ call[d].op = "getattr" /\ Done(d)
  /\ UNCHANGED <<table, bufs, known, opened, dentry, edits, shown, told, renamed>>

\* A listing gives every entry an inode.
ReadDir(d) ==
  /\ Ready(d)
  /\ Ask(d, Call("readdir", 1, Root), Looking("list", Root))
  /\ UNCHANGED <<table, bufs, known, opened, dentry, history>>

GotListing(d, a) ==
  /\ call[d].op = "readdir"
  /\ call' = [call EXCEPT ![d] = IF a.result = "Listing" /\ a.seen # {}
                                THEN [op |-> "enlist", todo |-> a.seen] ELSE NoCall]
  /\ UNCHANGED <<table, bufs, known, opened, dentry, edits, shown, told, renamed>>

Enlist(d, p) ==
  /\ call[d].op = "enlist" /\ p \in call[d].todo
  /\ table' = [table EXCEPT ![d] = InoForPath(@, p)]
  /\ call' = [call EXCEPT ![d] = IF call[d].todo = {p} THEN NoCall
                                ELSE [call[d] EXCEPT !.todo = @ \ {p}]]
  /\ UNCHANGED <<vars, bufs, known, opened, dentry, history>>

HasOpen(d, i, modes) == \E m \in modes : BagIn([ino |-> i, mode |-> m], opened[d])

\* Applications read from the host, whatever is in the buffer.
Read(d, i) ==
  /\ Ready(d) /\ HasOpen(d, i, {"read", "both"})
  /\ i \in DOMAIN table[d].paths
  /\ table' = [table EXCEPT ![d] = Touch(@, i)]
  /\ Ask(d, Call("read", i, table[d].paths[i]), Looking("read", table[d].paths[i]))
  /\ UNCHANGED <<bufs, known, opened, dentry, history>>

GotData(d, a) ==
  /\ call[d].op = "read" /\ Done(d)
  /\ shown' = [shown EXCEPT ![d] = @ \cup UNION {n.data : n \in a.seen}]
  /\ UNCHANGED <<table, bufs, known, opened, dentry, edits, told, renamed>>

-----------------------------------------------------------------------------
(* Opening, creating and writing.                                           *)

Opening(d, i, m) == opened' = [opened EXCEPT ![d] = @ (+) SetToBag({[ino |-> i, mode |-> m]})]

\* An open for reading first asks the host for the clock of the file.
Open(d, p, m) ==
  LET i == dentry[d][p] IN
  /\ Ready(d) /\ p \in DOMAIN dentry[d]
  /\ IF m # "write" /\ i \in DOMAIN table[d].paths
     THEN /\ Ask(d, [op |-> "open", ino |-> i, path |-> table[d].paths[i], mode |-> m],
                 Looking("stat", table[d].paths[i]))
          /\ table' = [table EXCEPT ![d] = Touch(@, i)]
          /\ opened' = opened
     ELSE Opening(d, i, m) /\ UNCHANGED <<vars, call, table>>
  /\ UNCHANGED <<bufs, known, dentry, history>>

OpenSynced(d, a) ==
  LET p == call[d].path IN
  /\ call[d].op = "open"
  /\ IF a.result = "Found"
     THEN /\ Learn(d, p, Merge(KnownClock(d, p), a.clock))
          /\ shown' = [shown EXCEPT ![d] = @ \cup Offered(a, p)]
     ELSE UNCHANGED <<known, shown>>
  /\ Opening(d, call[d].ino, call[d].mode)
  /\ Done(d)
  /\ UNCHANGED <<table, bufs, dentry, edits, told, renamed>>

SetBuf(d, i, b) == bufs' = [bufs EXCEPT ![d] = With(@, i, b)]

\* A new file is an empty buffer that is to be written, however it was opened
\* (_flags is not looked at); the kernel has no name for it yet.
Create(d, p, m) ==
  /\ Ready(d) /\ p \notin DOMAIN dentry[d]
  /\ LET after == InoForPath(table[d], p)
         i     == after.inos[p]
     IN /\ table' = [table EXCEPT ![d] = after]
        /\ SetBuf(d, i, FileBuf({}, TRUE, TRUE))
        /\ dentry' = [dentry EXCEPT ![d] = With(@, p, i)]
        /\ Opening(d, i, m)
  /\ UNCHANGED <<vars, known, call, history>>

Loaded(d, i) == i \in DOMAIN bufs[d] /\ bufs[d][i].loaded

\* The edit goes into what the buffer has.
Modify(d, i, base) ==
  /\ edits[d] < MaxEdits
  /\ edits' = [edits EXCEPT ![d] = @ + 1]
  /\ SetBuf(d, i, FileBuf(base \cup {Edit(d, edits[d] + 1)}, TRUE, TRUE))

\* write, and setattr to a size that is not zero: without a loaded buffer the
\* file is fetched first, its size and then that much of it.
Write(d, i) ==
  /\ Ready(d) /\ HasOpen(d, i, {"write", "both"})
  /\ edits[d] < MaxEdits
  /\ i \in DOMAIN table[d].paths
  /\ table' = [table EXCEPT ![d] = Touch(@, i)]
  /\ IF Loaded(d, i)
     THEN Modify(d, i, bufs[d][i].data) /\ UNCHANGED <<vars, call>>
     ELSE /\ Ask(d, Call("size", i, table[d].paths[i]), Looking("stat", table[d].paths[i]))
          /\ UNCHANGED <<bufs, edits>>
  /\ UNCHANGED <<known, opened, dentry, shown, told, cut, renamed>>

GotSize(d, a) ==
  LET i    == call[d].ino
      size == UNION {n.data : n \in {m \in a.seen : m.kind = "file"}}
  IN /\ call[d].op = "size"
     /\ CASE a.result = "Error" -> Done(d) /\ UNCHANGED <<bufs, edits>>
          [] size # {} -> /\ call' = [call EXCEPT ![d] = [op |-> "fetch", ino |-> i,
                                                         path |-> @.path, size |-> size]]
                          /\ UNCHANGED <<bufs, edits>>
          [] OTHER -> Modify(d, i, {}) /\ Done(d)
     /\ UNCHANGED <<table, known, opened, dentry, shown, told, renamed>>

Fetch(d) ==
  /\ call[d].op = "fetch" /\ pc[d] = "idle"
  /\ Ask(d, [op |-> "load", ino |-> call[d].ino, path |-> call[d].path, size |-> call[d].size],
         Looking("read", call[d].path))
  /\ UNCHANGED <<table, bufs, known, opened, dentry, history>>

\* Of a file that has changed since its size was asked, a part may be read.
GotContent(d, a) ==
  LET data == UNION {n.data : n \in a.seen} IN
  /\ call[d].op = "load" /\ Done(d)
  /\ IF a.result = "Data"
     THEN \E part \in IF data = call[d].size THEN {data} ELSE SUBSET data :
            /\ Modify(d, call[d].ino, part)
            /\ shown' = [shown EXCEPT ![d] = @ \cup part]
     ELSE UNCHANGED <<bufs, edits, shown>>
  /\ UNCHANGED <<table, known, opened, dentry, told, renamed>>

\* setattr to size 0, of an open file or of a name: what was there is not read.
Truncate(d, i) ==
  /\ Ready(d)
  /\ HasOpen(d, i, {"write", "both"}) \/ \E p \in DOMAIN dentry[d] : dentry[d][p] = i
  /\ i \in DOMAIN table[d].paths
  /\ table' = [table EXCEPT ![d] = Touch(@, i)]
  /\ SetBuf(d, i, FileBuf({}, TRUE, TRUE))
  /\ UNCHANGED <<vars, known, call, opened, dentry, history>>

-----------------------------------------------------------------------------
(* Writing back: flush_buffer, for release and fsync.                       *)

Dirty(d, i) == i \in DOMAIN bufs[d] /\ bufs[d][i].dirty

Closing(d, h) == opened' = [opened EXCEPT ![d] = @ (-) SetToBag({h})]

WriteBack(d, op, i) ==
  LET p == table[d].paths[i] IN
  /\ Ask(d, Call(op, i, p), Change(d, "stream", p, bufs[d][i].data))
  /\ table' = [table EXCEPT ![d] = Touch(@, i)]
  /\ bufs' = bufs

\* The buffer goes with any open file of its inode, once it is written back
\* if that is to be done; flush does nothing.
Release(d, h) ==
  /\ Ready(d) /\ BagIn(h, opened[d])
  /\ Closing(d, h)
  /\ IF h.ino \in DOMAIN table[d].paths /\ Dirty(d, h.ino)
     THEN WriteBack(d, "release", h.ino)
     ELSE /\ bufs' = [bufs EXCEPT ![d] = Without(@, {h.ino})]
          /\ table' = [table EXCEPT ![d] = Touch(@, h.ino)]
          /\ UNCHANGED <<vars, call>>
  /\ UNCHANGED <<known, dentry, history>>

FSync(d, i) ==
  /\ Ready(d) /\ HasOpen(d, i, {"read", "write", "both"})
  /\ IF i \in DOMAIN table[d].paths /\ Dirty(d, i)
     THEN WriteBack(d, "fsync", i)
     ELSE table' = [table EXCEPT ![d] = Touch(@, i)] /\ UNCHANGED <<vars, call, bufs>>
  /\ UNCHANGED <<known, opened, dentry, history>>

\* The mount now knows the clock it sent and the one it was told, whatever
\* the answer; release drops the buffer even after an error.
WrittenBack(d, a) ==
  LET i == call[d].ino
      p == call[d].path
  IN /\ call[d].op \in {"release", "fsync"} /\ Done(d)
     /\ bufs' = [bufs EXCEPT ![d] =
                   IF call[d].op = "release" THEN Without(@, {i})
                   ELSE IF a.result # "Error" THEN [@ EXCEPT ![i].dirty = FALSE] ELSE @]
     /\ IF a.result # "Error"
        THEN Learn(d, p, Merge(req[d].clock, a.clock))
        ELSE known' = known
     /\ told' = [told EXCEPT ![d] = IF a.result \in {"Conflict", "Stale"}
                                    THEN @ \cup Offered(a, p) ELSE @]
     /\ UNCHANGED <<table, opened, dentry, edits, shown, renamed>>

-----------------------------------------------------------------------------
(* Removing and renaming.                                                   *)

Unlink(d, p) ==
  /\ Ready(d) /\ p \in DOMAIN dentry[d]
  /\ Ask(d, Call("unlink", 0, p), Change(d, "delete", p, NoData))
  /\ UNCHANGED <<table, bufs, known, opened, dentry, history>>

\* The buffer of the path goes, even if the host has kept the file.
Unlinked(d, a) ==
  LET p == call[d].path IN
  /\ call[d].op = "unlink" /\ Done(d)
  /\ IF a.result = "Error"
     THEN UNCHANGED <<known, bufs, dentry>>
     ELSE /\ Learn(d, p, Merge(req[d].clock, a.clock))
          /\ bufs' = IF p \in DOMAIN table[d].inos
                     THEN [bufs EXCEPT ![d] = Without(@, {table[d].inos[p]})] ELSE bufs
          /\ dentry' = [dentry EXCEPT ![d] = Without(@, {p})]
  /\ told' = [told EXCEPT ![d] = IF a.result \in {"Conflict", "Stale"}
                                 THEN @ \cup Offered(a, p) ELSE @]
  /\ UNCHANGED <<table, opened, edits, shown, renamed>>

\* A path that the table has as a directory is refused.
Rename(d, p, q) ==
  /\ Ready(d) /\ p \in DOMAIN dentry[d] /\ p # q
  /\ p \notin table[d].dirs
  /\ Ask(d, [op |-> "rename", ino |-> 0, path |-> p, to |-> q],
         [op |-> "rename", path |-> p, to |-> q, clock |-> NextClock(d, p)])
  /\ renamed' = renamed \cup {p, q}
  /\ UNCHANGED <<table, bufs, known, opened, dentry, edits, shown, told, cut>>

Renamed(d, a) ==
  LET p == call[d].path
      q == call[d].to
      clock == Merge(req[d].clock, a.clock)
  IN /\ call[d].op = "rename" /\ Done(d)
     /\ CASE a.result \in {"Renamed", "Conflict"} ->
               /\ table' = [table EXCEPT ![d] = RenamePath(@, p, q)]
               /\ known' = [known EXCEPT ![d] = With(Without(@, {p}), q, clock)]
               /\ dentry' = [dentry EXCEPT ![d] = With(Without(@, {p}), q, @[p])]
          [] a.result = "Stale" ->
               Learn(d, p, clock) /\ UNCHANGED <<table, dentry>>
          [] OTHER -> UNCHANGED <<table, known, dentry>>
     /\ told' = [told EXCEPT ![d] = IF a.result = "Stale" THEN @ \cup Offered(a, p) ELSE @]
     /\ UNCHANGED <<bufs, opened, edits, shown, renamed>>

-----------------------------------------------------------------------------
(* The system.                                                              *)

MountInit ==
  /\ Init
  /\ table = [d \in Device |-> NewTable]
  /\ bufs = [d \in Device |-> EmptyMap]
  /\ known = [d \in Device |-> EmptyMap]
  /\ call = [d \in Device |-> NoCall]
  /\ opened = [d \in Device |-> EmptyBag]
  /\ dentry = [d \in Device |-> EmptyMap]
  /\ edits = [d \in Device |-> 0]
  /\ shown = [d \in Device |-> {}] /\ told = [d \in Device |-> {}]
  /\ cut = {} /\ renamed = {}

Modes == {"read", "write", "both"}

\* The callbacks of the kernel of d, about the paths ps.
Browse(d, ps) ==
  \/ \E p \in ps : Lookup(d, p)
  \/ \E i \in 2..(table[d].next - 1) : GetAttr(d, i) \/ Read(d, i)
  \/ ReadDir(d)

Use(d, ps) ==
  \/ \E p \in ps, m \in Modes : Open(d, p, m) \/ Create(d, p, m)
  \/ \E i \in 2..(table[d].next - 1) : Write(d, i) \/ Truncate(d, i) \/ FSync(d, i)

Close(d) == \E h \in BagToSet(opened[d]) : Release(d, h)

Remove(d, ps) == \E p \in ps : Unlink(d, p) \/ \E q \in ps : Rename(d, p, q)

Proceed(d, a) ==
  \/ LookedUp(d, a) \/ GotAttr(d, a) \/ GotListing(d, a) \/ GotData(d, a)
  \/ OpenSynced(d, a) \/ GotSize(d, a) \/ GotContent(d, a)
  \/ WrittenBack(d, a) \/ Unlinked(d, a) \/ Renamed(d, a)

\* The mount goes on with the answer it gets.
Resume(d) ==
  \/ Hear(d) /\ Proceed(d, reply[d])
  \/ Fetch(d)
  \/ call[d].op = "enlist" /\ \E p \in call[d].todo : Enlist(d, p)

\* The mount goes on without an answer.
Unanswered(d) == Break(d) /\ Proceed(d, Broken)

\* nexus-mount dies and is started again: of its state only the clocks are on
\* its disk (client-clocks.json), and the kernel closes everything.
Remount(d) ==
  /\ \/ Break(d)
     \/ pc[d] = "idle" /\ UNCHANGED <<vars, cut>>
  /\ table' = [table EXCEPT ![d] = NewTable]
  /\ bufs' = [bufs EXCEPT ![d] = EmptyMap]
  /\ call' = [call EXCEPT ![d] = NoCall]
  /\ opened' = [opened EXCEPT ![d] = EmptyBag]
  /\ dentry' = [dentry EXCEPT ![d] = EmptyMap]
  /\ UNCHANGED <<known, edits, shown, told, renamed>>

\* The steps of the host's handlers and its clock.  No collector runs, and the
\* agent does not die: FileHost's own specification has both.
HostStep ==
  /\ \/ \E d \in Device : Handle(d)
     \/ \E op \in detached : Detached(op)
     \/ Second
  /\ UNCHANGED <<mount, history>>

MountNext ==
  \/ HostStep
  \/ \E d \in Device :
       \/ Browse(d, Files) \/ Use(d, Files) \/ Close(d) \/ Remove(d, Files)
       \/ Resume(d) \/ Unanswered(d) \/ Remount(d)

MountSpec == MountInit /\ [][MountNext]_all

-----------------------------------------------------------------------------
(* Properties.                                                              *)

\* The two maps of every mount's inode table are inverses of each other,
\* whatever is looked up, listed, evicted, created and renamed (InodeTable:
\* "kept in sync").
TablesAgree == \A d \in Device : Agrees(table[d])

\* An inode table keeps to its capacity.
TablesBounded == \A d \in Device : Bounded(table[d])

\* The edits that can still be found at the host, staged files aside.
Kept == UNION {disk[p].data : p \in {q \in DOMAIN disk : IsFile(q) /\ ~IsTemp(q)}}

Aware(d) == shown[d] \cup told[d] \cup {Edit(d, n) : n \in 1..edits[d]}

Whole == cut = {} /\ renamed = {}

\* An edit that has been saved goes only with a change of a device that made
\* it, was shown it or was told of the conflict with it: the clocks that the
\* mounts keep, adopt and send, and the host's decisions, together keep both
\* versions of concurrent edits (README, "never silently merged"; ADR 0007).
\* Lost replies and renamed paths are left aside.
NoUnseenLoss ==
  [][Whole /\ Whole' => \A x \in Kept \ Kept' : \E d \in Device : lock = d /\ x \in Aware(d)]_all

\* The same without what a device is told by a refusal: it then knows the clock
\* of the other version, and has not read it (ADR 0007: "Blindly overwrite
\* without reading ... You never saw the other version").
BlindWritesConflict ==
  [][Whole /\ Whole' => \A x \in Kept \ Kept' : \E d \in Device :
       lock = d /\ x \in shown[d] \cup {Edit(d, n) : n \in 1..edits[d]}]_all

\* All the clocks there are for a path, outside the mount of d.
ClocksAbout(d, p) ==
  {LiveClock(p), TombClock(p)} \cup {KnownClock(e, p) : e \in Device \ {d}}
    \cup {req[e].clock : e \in {f \in Device \ {d} : pc[f] # "idle" /\ req[f].path = p}}

Changing(d, p) == pc[d] # "idle" /\ Mutating(d) /\ req[d].path = p

\* Nobody has heard of a change that a device does not know it made, the one
\* it is waiting for aside: so no two of its changes of a path share a count,
\* and none of its writes can be taken for an old one (flush_buffer: the host
\* would answer STALE and drop the data).  Of a conflict copy, whose clock its
\* writer has not heard, this is not so.
OwnCountAhead ==
  Whole => \A d \in Device, p \in Files : IsOriginal(p) =>
             \A c \in ClocksAbout(d, p) :
               c[d] <= KnownClock(d, p)[d] + (IF Changing(d, p) THEN 1 ELSE 0)

\* The mount has the answer to a write-back, and it is not an error.
WrittenBackWell(d) ==
  /\ call[d].op \in {"release", "fsync"} /\ call'[d] = NoCall /\ cut' = cut
  /\ reply[d].result \in {"Applied", "Conflict", "Stale"}

Preserved(d, x) == x \in Kept \/ \E e \in Device \ {d} : x \in Aware(e)

\* A write-back that succeeds has put the data where the application's file is
\* or in a conflict copy, and there it is, or it was replaced by a device that
\* had seen it (release, fsync).
SavedIsStored ==
  [][\A d \in Device : Whole /\ WrittenBackWell(d) => \A x \in req[d].data : Preserved(d, x)]_all

-----------------------------------------------------------------------------
(* The inductive invariant behind OwnCountAhead.                            *)

\* The host may tell others of the change that d asks of p: it is past
\* the file operation that could still fail.
Published(d, p) ==
  /\ Mutating(d) /\ req[d].path = p
  /\ \/ pc[d] = "locked" /\ ~OnDisk(plan[d][1])
     \/ pc[d] = "replied" /\ reply[d].result # "Error"

\* As many changes of p by d as anybody can have heard of.
Limit(d, p) == KnownClock(d, p)[d] + (IF Published(d, p) THEN 1 ELSE 0)

IsName(p) == p \in Path \ {Root}

NamesOf(t) == \A i \in DOMAIN t.paths : IsName(t.paths[i])

\* A plan of a streamed write or a delete.
ChangesAFile(s) ==
  /\ IsPlan(s)
  /\ \A i \in DOMAIN s :
       /\ OnDisk(s[i]) => i = 1
       /\ s[i].do \in {"move", "remove", "put_clock", "drop_clock", "put_tomb", "drop_tomb"}
       /\ s[i].do = "move" => s[i].path \in Path /\ s[i].to \in Path

\* The stores and the mounts hold clocks, the directory and the tables paths.
Typed ==
  /\ now \in Nat
  /\ pc \in [Device -> {"idle", "accepted", "staging", "found", "waiting", "locked", "replied"}]
  /\ DOMAIN req = Device /\ DOMAIN plan = Device /\ DOMAIN reply = Device
  /\ DOMAIN known = Device /\ DOMAIN call = Device
  /\ DOMAIN disk \subseteq Path
  /\ \A p \in DOMAIN clocks : clocks[p].clock \in Clock
  /\ \A p \in DOMAIN tombs : tombs[p].clock \in Clock
  /\ \A d \in Device : /\ \A p \in DOMAIN known[d] : known[d][p] \in Clock
                       /\ NamesOf(table[d])

\* Where a request stands at the host.  Only changes take the lock.
AtHost(d) ==
  /\ pc[d] = "idle" => req[d] = NoRequest
  /\ pc[d] # "idle" => req[d].path \in Path
  /\ pc[d] = "found" => req[d].op = "stat"
  /\ pc[d] \in {"staging", "waiting", "locked"} => Mutating(d)
  /\ pc[d] # "locked" => plan[d] = <<>>
  /\ pc[d] = "locked" => plan[d] # <<>> /\ reply[d].result # "Error"
  /\ ChangesAFile(plan[d])
  /\ reply[d].clock \in Clock
  /\ pc[d] = "replied" /\ req[d].op = "list" => \A p \in reply[d].seen : IsName(p)

\* A request is that of the callback that waits for it, and a change carries
\* what the device knows and one more.
AtMount(d) ==
  /\ "op" \in DOMAIN call[d]
  /\ Mutating(d) <=> call[d].op \in {"release", "fsync", "unlink"}
  /\ Mutating(d) => /\ req[d].op \in {"stream", "delete"} /\ IsName(req[d].path)
                    /\ req[d].op = "stream" <=> call[d].op # "unlink"
                    /\ req[d].path = call[d].path
                    /\ req[d].clock = NextClock(d, req[d].path)
  /\ ~Mutating(d) /\ pc[d] # "idle" => req[d].clock = EmptyClock
  /\ call[d].op = "open" => req[d].op = "stat" /\ req[d].path = call[d].path
  /\ call[d].op = "readdir" => req[d].op = "list"
  /\ call[d].op \in {"lookup", "size", "fetch"} => IsName(call[d].path)
  /\ call[d].op = "enlist" => "todo" \in DOMAIN call[d] /\ \A p \in call[d].todo : IsName(p)
  /\ call[d].op # "rename"

LinkInv == detached = {} /\ \A d \in Device : AtHost(d) /\ AtMount(d)

\* Nobody has heard of more changes of d than that, and what its own handler
\* is about to put has one more than the device knows.
Counted(d, p) ==
  /\ LiveClock(p)[d] <= Limit(d, p) /\ TombClock(p)[d] <= Limit(d, p)
  /\ \A e \in Device \ {d} :
       /\ KnownClock(e, p)[d] <= Limit(d, p)
       /\ pc[e] \in {"locked", "replied"} /\ req[e].path = p => reply[e].clock[d] <= Limit(d, p)
       /\ \A i \in DOMAIN plan[e] : IsPut(plan[e][i], p) => plan[e][i].clock[d] <= Limit(d, p)
  /\ \A i \in DOMAIN plan[d] : IsPut(plan[d][i], p) =>
       req[d].path = p /\ plan[d][i].clock[d] <= KnownClock(d, p)[d] + 1

CountInv == \A d \in Device, p \in Files : IsOriginal(p) => Counted(d, p)

AheadInv == Whole => Typed /\ LinkInv /\ CountInv

-----------------------------------------------------------------------------
(* The inductive invariant behind NoUnseenLoss and SavedIsStored.           *)

\* An inode that the mount has given to a file of the applications, even if
\* its table has lost it since.
OfFiles(d, i) ==
  /\ i \in 0..(table[d].next - 1)
  /\ i \in DOMAIN table[d].paths => table[d].paths[i] \in Files

\* The kernel and the buffers of d have only such inodes, and only files are
\* asked to change.
AsksFiles(d) ==
  /\ \A p \in DOMAIN dentry[d] : OfFiles(d, dentry[d][p])
  /\ \A h \in DOMAIN opened[d] : OfFiles(d, h.ino)
  /\ \A i \in DOMAIN bufs[d] : OfFiles(d, i)
  /\ call[d].op \in {"open", "size", "fetch", "load"} => OfFiles(d, call[d].ino)
  /\ call[d].op = "lookup" => call[d].path \in Files
  /\ Mutating(d) => req[d].path \in Files

\* The directory is flat, and one handler at a time is at work in it.
Ordered ==
  /\ now # 0
  /\ Root \in DOMAIN disk /\ disk[Root] = Dir
  /\ \A p \in DOMAIN disk \ {Root} : Len(p) = 1 /\ IsFile(p) /\ disk[p].edit \in Clock
  /\ \A d \in Device : pc[d] = "locked" => lock = d
  /\ DOMAIN bufs = Device /\ DOMAIN opened = Device /\ DOMAIN dentry = Device
  /\ DOMAIN edits = Device /\ DOMAIN shown = Device /\ DOMAIN told = Device
  /\ \A d \in Device : AsksFiles(d)

\* What a mount has to write it has made or read, and what it has sent waits
\* in its staged copy.
Sends(d) ==
  /\ edits[d] \in Nat
  /\ \A i \in DOMAIN bufs[d] :
       "data" \in DOMAIN bufs[d][i] /\ bufs[d][i].data \subseteq Aware(d)
  /\ req[d].op = "stream" => req[d].data \subseteq Aware(d)
  /\ HasStaged(d) => LET p == TempPath(req[d].path, d)
                      IN Exists(p) /\ disk[p] = File(req[d].clock, req[d].data)

\* The streamed write of d is where it was asked to be, and its clock is still
\* to be put.
Landed(d) == LET p == req[d].path IN Exists(p) /\ disk[p] = File(req[d].clock, req[d].data)

Settling(d) ==
  LET p   == req[d].path
      put == PutClock(p, reply[d].clock)
  IN /\ pc[d] = "locked" /\ req[d].op = "stream" /\ Landed(d)
     /\ Leq(req[d].clock, reply[d].clock)
     /\ plan[d] = <<DropTomb(p), put>> \/ (plan[d] = <<put>> /\ ~Tombed(p))

\* It is to take the place of what is there.
Landing(d) ==
  LET p    == req[d].path
      move == Move(TempPath(p, d), p)
      put  == PutClock(p, reply[d].clock)
  IN /\ req[d].op = "stream" /\ Leq(req[d].clock, reply[d].clock)
     /\ plan[d] = <<move, DropTomb(p), put>> \/ (plan[d] = <<move, put>> /\ ~Tombed(p))

LastBy(q) == q[Len(q)].copies[Len(q[Len(q)].copies)].by

IsCopy(q) == Len(q) = 1 /\ ~IsOriginal(q) /\ ~IsTemp(q)

\* It becomes a conflict copy of its device.
Copying(d) ==
  LET q   == Place(plan[d][1])
      put == PutClock(q, req[d].clock)
  IN /\ req[d].op = "stream" /\ reply[d].result = "Conflict"
     /\ IsCopy(q) /\ q \in Path /\ LastBy(q) = d
     /\ plan[d] \in {<<Move(TempPath(req[d].path, d), q), put>>, <<put>>}

Burying(d) ==
  LET p   == req[d].path
      put == PutTomb(p, reply[d].clock)
  IN /\ req[d].op = "delete"
     /\ \/ plan[d] = <<RemoveFile(p), put, DropClock(p)>>
        \/ ~Exists(p) /\ plan[d] \in {<<put, DropClock(p)>>, <<put>>, <<DropClock(p)>>}

\* A handler at work does one of these, and takes the place of nothing that its
\* device does not know of.
Works(d) ==
  /\ Landing(d) \/ Settling(d) \/ Copying(d) \/ Burying(d)
  /\ OnDisk(plan[d][1]) =>
       LET p == Place(plan[d][1]) IN Exists(p) => disk[p].data \subseteq Aware(d)

\* The clocks through which devices hear of the versions of p.
Heard(p) ==
  {LiveClock(p)} \cup {reply[e].clock : e \in {f \in Device : /\ pc[f] \in {"locked", "replied"}
                                                          /\ req[f].path = p}}

\* The content of p is of a change by w, which w knows: whoever has heard of as
\* many changes of w has heard of this one, and knows the content or is told of
\* it with the answer.
Authored(p, w) ==
  /\ 0 < disk[p].edit[w] /\ disk[p].data \subseteq Aware(w)
  /\ \A c \in Heard(p) : disk[p].edit[w] <= c[w] => Leq(disk[p].edit, c)
  /\ \A e \in Device :
       /\ disk[p].edit[w] <= KnownClock(e, p)[w] => disk[p].data \subseteq Aware(e)
       /\ /\ Mutating(e) /\ req[e].path = p /\ pc[e] \in {"locked", "replied"}
          /\ reply[e].result \notin {"Conflict", "Stale", "Error"}
          /\ disk[p].edit[w] <= reply[e].clock[w]
          => disk[p].data \subseteq Aware(e)

\* A file has seen its stored clock, no tombstone covers it, and its content has an author,
\* if there is any; that of a conflict copy is its writer's.
Accounted(p) ==
  /\ IsOriginal(p) =>
       /\ \/ Leq(disk[p].edit, LiveClock(p)) /\ ~Tombed(p)
          \/ \E d \in Device : Settling(d) /\ req[d].path = p
       /\ disk[p].data # {} => \E w \in Device : Authored(p, w)
  /\ IsCopy(p) => disk[p].data \subseteq Aware(LastBy(p))

\* What the host has done of a write-back is there or replaced by a device
\* that had seen it, and it is never taken for an old one.
Delivered(d) ==
  req[d].op = "stream" /\ pc[d] \in {"locked", "replied"} =>
    /\ reply[d].result # "Stale"
    /\ \/ pc[d] = "replied" /\ reply[d].result \in {"Applied", "Conflict"}
       \/ pc[d] = "locked" /\ ~OnDisk(plan[d][1])
       => \A x \in req[d].data : Preserved(d, x)

SeenInv ==
  Whole =>
    /\ Ordered
    /\ \A d \in Device : Sends(d) /\ Delivered(d) /\ (pc[d] = "locked" => Works(d))
    /\ \A p \in DOMAIN disk \ {Root} : Accounted(p)
===============================================================================
