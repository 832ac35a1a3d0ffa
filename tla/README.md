# nexus: verification project

nexus shares one machine's files, screen and application state with a person's other
devices. A *host* (`nexus-agent`) serves a directory over gRPC and lets devices pair with it,
a *client* (`nexus-mount`) mounts the directory through FUSE, a viewer shows the host's
screen, and a small SDK moves an application's state between devices. This directory holds a
TLA+ model of the parts where order, failure and concurrency decide whether files, edits and
pictures survive, the TLC runs that check it, and proofs checked by TLAPS.

## The system

| Part | Keeps | Operations | Hard because |
|---|---|---|---|
| Vector clocks (`crates/common/src/lib.rs`) | a counter per device | increment, merge, compare | every conflict decision rests on compare |
| Clock and tombstone stores (`crates/common/src/lib.rs`) | a map in memory, a snapshot file, a journal | put, remove, rekey a subtree, compact, open | a crash can fall between any two file operations and inside an append |
| File host (`crates/agent/src/host.rs`) | the served directory, the clocks of live paths, the tombstones of deleted ones, `write_lock` | write, streamed write, delete, rename, mkdir, stat, list, read | handlers run concurrently; some of what they do is outside the lock, and any of them can be dropped or die half way |
| Garbage collector (`host.rs`, `gc_sweep`) | the keys a phase has collected | expire tombstones, drop orphaned clocks, enforce the cap | looks at the directory without the lock and removes later |
| FUSE mount (`crates/fs/src/filesystem.rs`, `grpc_client.rs`) | inode table, a write-back buffer per open file, the clocks it knows | lookup, getattr, readdir, read, open, create, write, truncate, fsync, release, unlink, rename | replies can be lost; clocks are adopted from answers; the table evicts what the kernel still uses |
| Pairing (`crates/agent/src/pairing.rs`, `approval.rs`, `crates/fs/src/pairing.rs`) | code, guesses, limiter table, `peers.json`, one pending dialog | request a pairing, guess, approve, expire, persist | concurrent requests against a one-time code, two processes over one file, late answers |
| Screen stream (`crates/stream/src`) | frame ring, encoder, send queue, keyframe gate, the viewer's window and inputs | capture, encode, send, receive, type, inject, leave | full queues drop frames that others depend on; one loop holds the locks for as long as it runs |
| Migration SDK (`crates/migrate/src`) | registered keys, a clock, the application's state | register, export, import, resolve, merge | snapshots are taken wholesale or key by key according to the clocks, and come late and twice |
| Discovery, TLS, configuration, Android screens | little or nothing | socket and file I/O | — |

Clients call the host through gRPC, one request at a time per mount (each FUSE callback
blocks on its reply). Handlers of different clients run concurrently in the host and meet in
`write_lock`, in the two stores and in the directory; the collector runs beside them and
meets them in the same three. The stores are written through to the journal inside their own
mutex, so at the host's grain a store operation is one step, and what happens below that
grain is the subject of a module of its own. Pairing, the screen stream and migration share
no state with the file service.

`PROJECT.json` lists every part with its status and, under `hazards`, what in this code is
hard to test, at the line where it bites, with the property that would catch it.

## Modules

| Module | Models | Checked by | Proofs |
|---|---|---|---|
| `VectorClock` | `VectorClock`, `ClockOrder` | every run of the host, the mount, migration | `VectorClockProofs` |
| `DurableMap` | what a store promises (abstract) | as a property of `store_crash` | `JournaledMapRefinement` |
| `JournaledMap` | the store below `ClockStore` and `TombstoneStore` | `MCJournaledMap` | `JournaledMapProofs`, `JournaledMapRefinement` |
| `FileHost` | the handlers of `FileServiceImpl`, the collector | `MCFileHost` | `FileHostProofs` |
| `InodeTable`, `NexusMount` | the mount, over `FileHost` itself | `MCNexusMount` | `NexusMountProofs` |
| `RateLimiter`, `Pairing` | pairing by code and by dialog | `MCPairing` | `PairingProofs` |
| `ScreenStream` | the host's loop and the desktop viewer | `MCScreenStream` | `ScreenStreamProofs` |
| `Migrate` | the SDK and the JNI layer | `MCMigrate` | `MigrateProofs` |

`Maps` has the finite maps that all of them use. A definition that stands under the comment
"A bug" is a mutation of the definition after it: `PROJECT.json` names, for every property,
the mutation that breaks it. The `MC` modules bound the runs with *scenarios*: a variable
that counts what the environment may still do, by kind, so that one run covers several
situations without their product.

### `VectorClock`

The source's map from device to counter, in which a missing device reads as 0, is here a
function on all devices. The two differ only where a map holds an explicit zero, which no
client produces.

### `DurableMap` and `JournaledMap`

One action per file operation of the code. `Put`, `RemoveMany` and `Rekey` change `mem` and
put the lines they will append in `lines`; `AppendDone` or `AppendError` writes them and
starts a compaction when `pending_ops` is due; `WriteTmp`, `RenameTmp` and `TruncateJournal`
are `compact`; `Open` replays the journal and compacts if there was one. `Crash` can fall
anywhere: inside an append it leaves any prefix of the lines and a part of the next, torn
in a character, torn between characters, or complete but for the newline. An append that
follows a line without its newline is glued to it, as the file system would do, and neither
parses. A crash is the death of the process, as in the code's own comment: what `write` has
returned for is in the file.

Two ghosts say what a restart may find. `allowed[k]` is the last acknowledged value of `k`
and whatever a call has tried to put there since; `stable` is the map when the last call
returned.

`DurableMap` is the same without files: a map in memory (`live`), the map a restart finds
(`stored`), and the changes of the call in progress (`todo`). A call that returns has stored
them; one that fails may have its changes stored later, when a compaction writes the whole
map (`Settle`), or never; a crash stores a first part of them. `JournaledMap` implements it
with `live` the map in memory and `stored` what replaying the files of the moment would give
(`Recovered`): most file operations, those of the compaction among them, are stutters, and
that they are is the point. That a rekey of a subtree is not atomic under a crash is part of
the promise, because the code does not do better; it is among the findings.

### `FileHost`

A handler reads the stores and the directory when it gets the lock and decides at once what
it will do (one `...Outcome` operator per handler, in the shape of the handler's own
branches). What it decides is its *plan*, the file and store operations it has left, and
`Step` does one of them at a time. Nothing that a handler reads under the lock can be changed
by another handler, but the collector's looks, `Stat`, `ReadFile`, `ListDir`, the recreation
of a deleted parent and the staging of streams run without the lock, and they come between
the steps. When an operation on the directory cannot succeed (a parent that is gone, a
directory in the way) `StepFails` returns the error and drops the rest of the plan, which is
what `?` does in the code.

A file's content is the clock of the edit that wrote it, and the data a mount sent; paths are
sequences of leaves, a leaf knows whose conflict copy it is. `now` is the clock in seconds,
read for tombstones, for entries of the clock store and for the names of conflict copies.

Failures are a constant. `"disconnect"` drops a handler where it awaits: before the lock, or
under it with a file operation in a blocking thread, which runs all the same (`Detached`)
after the lock has been given up. `"crash"` ends the process and leaves directory and stores
as they are.

The collector is one action per look at the directory and per removal, in the four phases of
`gc_sweep`: expired tombstones, orphaned clocks, and the two halves of the cap. The scan of
the cap's phase, which the code does for all entries at once without yielding, is one step.
`Skip` is the batch given up after 100 ms of a contested lock. A phase's keys are one batch
(`GC_BATCH` is 256).

### `NexusMount` and `InodeTable`

`NexusMount` extends `FileHost`: the mounts' requests go through the same `Submit`, `Handle`
and `Return`, so that a client reads between two steps of the host and hears of a clock
before or after the data it belongs to. The mounts' host has its request steps only
(`MountNext`): the collector does not sweep and the agent does not die, neither in the runs
nor in the theorems about the mount, while the mounts and their connections do. Each mount answers one callback at a time (`call`),
as fuser's one thread does; a callback that needs the host sends a request and goes on with
the answer, one action for each half (`Open` and `OpenSynced`, `Release` or `FSync` and
`WrittenBack`, `Write`, then `GotSize`, `Fetch` and `GotContent`, ...). The kernel is
external: it has names (`dentry`) and open files (`opened`, a bag, for a file can be open
more than once) and calls what these allow. `Unanswered` is a request that fails for the
mount, by a lost reply or a dropped handler; `Remount` is the death and restart of
nexus-mount, of which only `client-clocks.json` is left.

The content of a buffer or file is the set of the edits that went into it: an edit is the
n-th of a device. What is tracked beside the state says which edits a device has been shown
by a read, or told of by a refusal.

`InodeTable` has the table's two maps, its LRU order and its set of directories as operators
on a record, one per method.

### `Pairing` and `RateLimiter`

Each device has one request at a time, which passes through the handler's steps (`pc`): what
a handler does under one mutex is one step, and the two locks of `verify` are two, so that
guesses and the right code come between. `serve` and `pair-mode` are processes of their own,
each with its copy of the peers, over one `peers.json` and one temporary file; either can be
killed anywhere (`Kill`), a write can fail (`PersistFails`), a client can go while its dialog
is shown (`Cancel`, where `DropGuard` is the guard's `drop`). `RateLimiter` has the limiter's
methods as operators, changed under one mutex in the code.

### `ScreenStream`

A picture is a number. A stream's loop keeps the locks of the encoder and of the capture for
as long as it runs (`holder`); its tick is `Capture`, `Encode`, `Send`, or `Close` when the
queue is found closed. `Change` is the screen that changes, with PipeWire's ring written from
its own thread; X11 captures what is there. The encoder is its request for a keyframe, the
frames since the last, and what it buffers (`h264_qsv` gives packets back late). `broken`
follows, per viewer, whether a frame it depends on has been dropped, and a frame is `whole`
if the viewer can decode it. The viewer receives, shows, forwards the inputs its window has
queued only after a frame has been shown, and leaves when its window is closed; `Inject`
runs on the host beside the stream. `InjectFails` is an input that does not get to the virtual
device, or a host that has none; the task goes on with the next. A capture that fails changes
nothing and is no step.

### `Migrate`

One action per call of the SDK, which are all under one lock. A device has either a
`MigrateSdk` in front of an application that holds the state, or the JNI layer with the state
in the library. A snapshot that was ever exported may be imported by any device, its own
included, late, again and in any order. A value is the set of the edits that went into it.
The clock that an import compares is the library's own in the JNI layer, and in a `MigrateSdk`
what the application exports with its state (`Says`), which nothing ties to anything: it is any
clock of the constant `AppClock`, another one at each import.
`Filtered` is `filter_schema_keys`, `Resolve` is `resolve_conflicts`, `Outcome` the import's
use of both with the application's merge. `ClockAfter` leaves the clock alone, as the code
does: it drops the result of `merge`.

## Runs

Passing runs:

| Run | Bounds | Shows |
|---|---|---|
| `store_crash` | two keys, one of which is a path that can be moved to the other, two values, compaction due after two operations, journals of up to two lines at the start of a call, so that an append both is and is not followed by a compaction | `AcknowledgedSurvives`, `FreshAppendsStartClean`: crashes at every step, appends that fail whole and compactions that fail lose nothing acknowledged, and no append lands behind a torn line. `ImplementsDurableMap`: the files implement the abstract map. `DurableInv` is the invariant of the proof. |
| `host` | two devices, a second passing once, every sweep of the collector; three requests, of either two files, of which one is renamed onto the other, and the first conflict copy, or one name that is a file, a tombstone and a directory in turn; or four requests, of one file, a rename of it, and deletes of it and of its copy that come late | `OneStorePerName`: no name is both live and deleted when the lock is free. `DeletedIsGone`, `AnswersAreTrue`: what a device is told is so. `VersionsOnlyGrow`: no version of a path is forgotten. `CoveredEditsSurvive`: an edit that the host can weigh (`Covered`: its clock is stored, or about to be, and no tombstone hides it) goes only with a request that has seen it, or at the new name of a rename (a finding). `EditsStayCovered`: what the collector's late batch does in `host_gcloss` is the only step of its kind, but for a conflict copy that takes a name which was deleted, a rename of a file which either has hit, and a mkdir that is moving what is in its way. |
| `host_progress` | one file, three requests, every failure at every await | `EveryRequestAnswered`, `OverdueTombsGo`: the lock is always given up, and contention delays the collector without losing its work. |
| `mount` | two mounts, one to three files, a table of two inodes, up to five changing callbacks, in six scenarios: both save, one reads first, one deletes, more files than inodes, a rename, a lost reply or restart; no collector, and no crash of the host | `TablesAgree`, `TablesBounded`: the table survives eviction and renames. `OwnCountAhead`: no two changes of a device to a file share a count. `NoUnseenLoss`: a saved edit goes only with a change of a device that made it, was shown it or was told of it. `SavedIsStored`: what a close or fsync reported as written is there, or was replaced by somebody who knew. |
| `pairing` | two devices, two guesses per code, one or three attempts per address and window, a limiter with room for one address; scenarios with overlapping processes, guessing, waiting windows out, and recovery | `OneDialog`, `CodeSpentOnce`, `ExhaustedCodeIsDead`, `PeersHadConsent`, `PromiseKept` (who was told it is paired is in the file, unless both processes ran at once), `AttemptsBounded`, `EveryRequestAnswered`. |
| `migrate` | pairs of three devices (SDK, JNI, JNI of a newer version), two keys (KeepBoth and AppMerge), two edits and three snapshots, or one and two, a restart of the JNI layer; applications that export an empty clock, one of their own, or one ahead of every snapshot, in any order | `NothingLostSilently`: local edits stay, unless an application claims to be behind, and remote ones are merged or reported, unless it claims to be abreast; for the JNI layer, before a restart, without exception. `StaysReadable`: no value of an unknown version replaces another, and no key goes but of an application that claims to be behind. |
| `stream` | two viewers, queues and ring of two, one buffered packet, a keyframe every three frames, up to three changes of the screen, two inputs, one failure of the encoder or of an injection; scenarios of watching, typing, failing and sharing | `WholeOnly`: nothing is sent that cannot be decoded, as long as no call of the encoder fails and no stream leaves frames in it for the next (`clean`). `CatchesUp`: a viewer that is served comes to show the screen at rest. `InputsArrive`: no key stays down of a viewer that is served and has its window open, if its last input was injected; of one that leaves with a key down nothing is said. `LeavingFrees`: a viewer that has left frees the host for the next. |

Two devices and clocks of at most two counts are enough for compare to give each of its four
answers. The small capacities (two inodes, two frames, two guesses, one tracked address, one
entry of the stores) are chosen to be reached: their code differs only at the limit.

Five runs expect a violation. Each checks what a comment or a design record of the repository
says, against what the code does; `PROJECT.json` quotes the line under `findings`.

| Run | Property | What happens |
|---|---|---|
| `host_gcloss` | `EditsSurvive` | The collector takes the clock of a file that came back while it looked; a stale delete then removes the only copy of an unseen edit. |
| `mount_blind` | `BlindWritesConflict` | A mount adopts the host's clock with every answer, a refusal included: its next blind write replaces a version it has never read, without a conflict. |
| `pairing_overlap` | `PairedStaysPaired` | `serve` and `pair-mode` each write all of their own copy of `peers.json`: the second drops the peer of the first. |
| `migrate_lost` | `KeepBothNeverLost` | The JNI layer's clock starts over with its process; a snapshot of before then dominates it, and an import replaces what was edited since. |
| `stream_second` | `EveryViewerSees` | The picture to repeat is local to a stream's loop: the next viewer of a screen at rest is sent nothing. |

More disagreements were met while modelling and are listed under `findings` without a run of
their own: a crash leaves a part of a rekeyed subtree under neither name; a write cut short by
an I/O error leaves a tail that the next acknowledged line is glued to; a tail torn inside a
character keeps the agent from starting; a crash between a file and the removal of its
tombstone leaves the file deleted for good; a removal outlives its handler and undoes a later
write; a rename replaces the file at its new name unweighed; a directory made where a file was
deleted is in both stores; a lost reply makes a mount
reuse its counter; a device that opens the conflict copy of its own write for writing only, whose
clock it has never heard, has its next write answered STALE and dropped, while the close
succeeds; an import by a `MigrateSdk` compares what the application exports as its clock, so that
of an application that exports none, as those of the repository's tests, every snapshot of another
device replaces the state, a KeepBoth value included; imports drop the merged clock; the JNI import drops values of an older
schema; libx264's keyframe distance is not the one that ADR 0014 names.

### Fairness

The safety runs need none. What is assumed, and why:

- `host_progress`: tokio polls every task that is ready, so each handler's next step is weakly
  fair, and so are the reply and the steps of the collector. `Acquire` is strongly fair:
  tokio's `Mutex` hands the lock out in the order of arrival. A file operation of a dropped
  handler runs on its thread, weakly fair. The requests of the run are bounded, so
  `OverdueTombsGo` does not say that the collector wins against clients that never rest.
- `pairing`: the steps of a handler that is running are weakly fair, and its turn at the
  store's mutex (`Add`) strongly. `Deny` is among them because a dialog that nobody answers
  times out.
- `stream`: the loop's steps, the viewer's receiving and the injecting task are weakly fair,
  threads and tasks of their own.

Nothing is assumed of users, clients, failures, the screen or the passing of time.

## Proofs

All of the following hold for every value of the constants that satisfies the assumptions
in the modules, and are checked by `tlapm` to the last leaf.

`VectorClockProofs`: `Compare` answers each of its four values in exactly one case
(`CompareClassifies`), `Merge` is the least upper bound (`MergeIsLub`), a tick dominates
(`TickDominates`).

`JournaledMapProofs`: `Durability` proves `AcknowledgedSurvives` for any finite set of
keys, any values and any length of the journal, and `NoAppendBehindATear` proves
`FreshAppendsStartClean`, both under `"partial_write" \notin Faults`, since a write cut short
while the process lives breaks them. `AcknowledgedSurvives` is not inductive, since it says
nothing of the lines an operation is about to append or of the snapshot half way through a
compaction. `DurableInv` (`DurableInvariant`) adds the two facts that carry it: outside of
`open` the journal is made of whole lines and ends with a newline, and what is in memory and
in the lines of the operation in progress is what the operation may leave. The central lemma
says how replaying a journal extended by lines about a key relates to replaying the two
parts.

`JournaledMapRefinement`: `StoreIsDurable` proves under the same assumption that the store
implements `DurableMap`. Each action is shown to be a step of the map or a stutter: an append
is `Commit`, a failed one `Fail`, and a crash inside an append `Crash` with the prefix that
reached the file. The rename of a new snapshot and the truncation of the journal are `Settle`:
they can bring in what an earlier call failed to store, and change nothing else, because
replaying old lines over a newer snapshot ends where the snapshot does.

`FileHostProofs`: `LockDiscipline` proves `TypeOK`, with who holds the lock, for any set of
devices and requests and whatever fails. `OneStore` proves `OneStorePerName`: between
critical sections no name is in both stores, however handlers, the collector and lost
connections interleave. It assumes that nobody makes directories (`NoMkdir`: a mkdir over a
tombstone leaves it), that a request to change something carries an edit (`EditsTicked`:
clients tick before every request), and that the agent does not die (`NoCrash`: the delete of
a path passes through a state in which it is in both stores, on purpose, and a crash there
keeps it). The property is about the moments between critical sections, so the invariant
`OneStoreInv` speaks of plans: a plan touches the directory only as its first operation, puts
a clock only where there is no tombstone or after dropping it, and puts a tombstone only where
there is no clock or before dropping it. The collector only removes, which keeps sets apart.

`DeletedStaysGone` proves `DeletedIsGone`. It assumes more, each time because the code
does otherwise without it: nothing fails (`NoFailures`: a crash leaves a file under its
tombstone, and a removal or write that outlives its handler lands after another handler's
decision), nobody makes directories, and no directory is renamed (`MovesOnlyFiles`: a rename
takes the files of a directory along and leaves the clocks and tombstones below it where they
are, so that a file can come to stand on a tombstone). The invariant `GoneInv` follows the
directory: it is a tree whose directories are the root and recreated parents (`Tree`,
`OnlyParents`), so that a move carries one file; and a plan that puts a file at a path drops the path's tombstone later, a plan that puts a tombstone has
no file there or removes it first (`Buries`).

`VersionsKept` proves the action property `VersionsOnlyGrow`, with lost connections and
failing file operations. Its invariant says where the plan of each write and delete is: either it
will put a clock that covers what both stores have of the path, or a delete has put it and
only drops the live clock, which its tombstone covers (`Overtakes`). As `OneStore`, it assumes
`NoMkdir`, `EditsTicked` and `NoCrash`.

`AnswersHold` proves `AnswersAreTrue`, under the assumptions of `DeletedStaysGone` and if no
request names a staged file (`StagedUnnamed`; such a name is made up by the handler that
writes it). `AnswerInv` says that what is left of a plan makes the prepared answer true in the
directory and the stores as they are (`Fulfils`), and that a staged file is complete and
touched by nobody else. When the plan is empty the answer is true.

`CoveredEditsKept` proves `CoveredEditsSurvive` and `EditsKeptCovered` proves
`EditsStayCovered`, under the same assumptions as `AnswersHold` and no other: the collector may
take the clock of a file that came back, as the code lets it, and a conflict copy may meet a
name that is taken. `EditsSurvive` itself is false for such a host, as `host_gcloss` shows, so it
is not proved. The two theorems divide it: a file's edit is *covered* while the host can weigh a
request against it, that is, its path has a clock that has seen the edit and no tombstone, or
the plan at work will give it one (`Covered`); a covered edit goes only with a request that has
seen it, and an edit ceases to be covered in no step but those the property names. `EditInv`
carries both: while the file operation of a plan is still to come, what it replaces is a
covered edit that the request has seen, or one that is not covered, and the store operations
after it cover what it puts in place (`StartsSeen`, `EndsCovered`). The exceptions are where they
are because of the code. In `CoveredEditsSurvive`, a rename weighs nothing at its new name, and a
copy may replace a copy of the same second (`IsCopyOf`; the run, in which a device's clocks
grow, does without that exception, arbitrary requests do not). In `EditsStayCovered`, the
collector (`Collected`), a copy on a deleted name, whose tombstone stays, a rename of a file
that either has hit, and a mkdir whose clocks are still to follow the files (`FollowsTo`; the
theorem, without mkdir, never needs it): without any one of the four TLC finds the property
violated.

`NexusMountProofs`: `TablesStayInverse` proves `TablesAgree` and `TablesStayBounded`
proves `TablesBounded`, for any files, devices and capacity. The invariant `SoundTables` says
that each table's two maps are inverses, that its next inode is new, that the order of use
lists each inode of the table once (so that the evicted one is in the table, and the maps
shrink when the order does), and that the table is no larger than its capacity. Every
operation of the table keeps it, evictions and renames included, and no action of the mount
touches a table but by these operations.

`CountsStayAhead` proves `OwnCountAhead`, across host and mounts, for any devices, files and
callbacks, with lost connections and restarted mounts. `AheadInv` is `Whole` implying three
parts. `Typed` gives the shapes. `LinkInv` ties the halves of a request together: which
callback waits for it, that it names the callback's path, and that it carries what the device
knows and one more. `CountInv` bounds every clock there is of a path, in the stores, in the
other mounts, in their answers and in their plans, by what the device knows (`Limit`), plus one
from the moment its own change has passed the last operation that can fail (`Published`); its
own plan puts at most that. `OwnCountAhead` alone is not inductive: a clock that is still in a
plan or an answer may be about to be stored or adopted. What `Whole` leaves out, a lost reply
to a change and a renamed path, is where the code does lose count; conflict copies are left
out of `OwnCountAhead` because there it does too, as the findings say.

`NothingLostUnseen` proves `NoUnseenLoss` and `SavedStaysStored` proves `SavedIsStored`, for any
devices, callbacks, answers and restarts of mounts, if applications use original files and not
conflict copies or staged files (`FilesOriginal`): of its own conflict copy a device has not
heard the clock, and there `SavedIsStored` is false, as the findings say. Both rest on `SeenInv`,
which is proved inductive together with `AheadInv`. It follows every edit from the buffer of a
mount to the host and back to the other mounts.

- `Sends`: what a mount buffers or sends it made or was shown, and the copy that its handler
  stages is what it sent, whatever others do.
- `Works`: a handler that has the lock is at one of four things, in this order of its plan:
  about to put its staged file in place (`Landing`), to put the clock of one it has put there
  (`Settling`), to make a conflict copy (`Copying`), or to remove the file and bury it
  (`Burying`); and what its next file operation takes the place of, its device knows.
- `Accounted`: a file's edit is below its stored clock and no tombstone covers it, but between
  the two halves of a `Settling`; a conflict copy is of edits its writer knows.
- `Authored`: a file with content is of a change by some device, which knows it, and whoever
  has heard of that many changes by the device, through the store, an answer or its own
  `client-clocks.json`, has heard of the whole version, and knows the content or is told of it
  with the answer. This is the step from clocks to content: the host compares clocks only, and
  a change that covers the stored clock comes from a device that knows what is there.
- `Delivered`: a write is never answered STALE, and what the host has done of it is there or
  was replaced by a device that knew.

`NoUnseenLoss` then follows for the one step that takes an edit away, an operation of a plan
(`WorkKeeps`), and `SavedIsStored` for the one that ends a write-back without a lost reply, the
arrival of its answer (`SavedWhenAnswered`). Neither property is inductive: a decision is taken
when the lock is, on clocks of which the mounts heard long before, and carried out in steps
between which other mounts look, stage and are answered. What stays outside is what the
properties leave out: lost replies to changes and renames (`Whole`).

`PairingProofs`: one invariant, `PairInv`, proves `TypeOK`, `OneDialog`, `CodeSpentOnce`,
`PeersHadConsent`, `ExhaustedCodeIsDead`, `PromiseKept` and `AttemptsBounded` for any number
of devices, requests and guesses, with every fault. It joins to the types where each request
is routed and who holds the mutex of a store, that the code is used as soon as somebody has
spent it, that a code guessed at too often is used unless a handler stands between the two
locks, and that who is on the way to a store was let in. For `PromiseKept`, as long as the
processes have not run at once, the copy in the memory of the one that runs covers the file,
the temporary file that a handler is about to rename is that copy, and who is answered
"accepted" is in the file already (`Promised`); it rests on `FileAssumption`, that an absent
and a torn file differ from a map of peers. For `AttemptsBounded` the invariant (`Tracked`)
relates the attempts that were admitted to the limiter's table: each either has the window it
was counted in still in the table, with its number, or that window is over, and two attempts
with one number are a window apart. So forgetting an address, by a sweep or for room, never
forgets a window that runs, and any stretch as long as a window meets at most two.
Addresses of devices that are paired are left out, because a pairing clears their entry on
purpose.

`ScreenStreamProofs`: `StreamTypes` proves `TypeOK`, `FramesAreWhole` proves `WholeOnly`, for
every capacity, depth of the encoder and distance of keyframes. What carries it (`Resumes`):
while a loop that misses a frame does not wait for a keyframe, the first packet on its way,
in the loop, the encoder's buffer or still to be encoded, is a keyframe; and the encoder is
handed over empty.

`MigrateProofs`: `ImportsLoseNothing` and `ImportsStayReadable` prove `NothingLostSilently`
and `StaysReadable` for any devices, keys, edits and order of snapshots, and for whatever clocks
applications give (`AppClock` is any set of clocks): every outcome of the comparison is
covered, the wholesale ones included. An application that claims to be behind
loses its local edits, and keys, to the snapshot, and the properties say that this is the only
way to; that it happens to one which keeps no clock is among the disagreements above. For the JNI
layer the invariant `ClocksCountApart` excludes it: every clock counts for its device alone,
because imports drop the merged clock, and no snapshot of a JNI process that lives is ahead of
it, so a snapshot is concurrent with the state it is imported into, or the device's own and not
newer (`SnapshotOrder`). That a value of an unknown version never replaces another needs none of
that, only the schema check before the comparison, and holds for restarted devices too.

### Only model-checked

The liveness properties, which are out of the prover's reach, as is all that needs ENABLED.
Every invariant and action property of the passing runs has a proof; where a theorem needs an
assumption, it is named above with what stays outside it.

## Not modelled

- The upgrade of the legacy `clocks.json`; symbolic links, checks against paths that leave
  the root, tokens and certificates in front of the services: input validation without state.
- Store operations that return an error inside a handler of `FileHost` (`JournaledMap` has
  what they leave in the store), and the sanitized form of device ids.
- Offsets, lengths and attributes of the mount, and files below other directories than the
  root; the command line of nexus-mount beside mounting and pairing.
- Pixels, the choice of encoder parameters, the metrics task and mouse events of the stream
  (keys stand for them); decoding and drawing are external.
- The framing of a snapshot by the migration transport: in the model any snapshot may arrive.
- The Android viewer and provider, in another language and on Android's life cycles; Android
  screens and key-value storage.
- Discovery, beacon, pairing links, TLS and configuration: encoding and socket or file I/O
  without protocol state. `storage.rs` and `storage_host.rs` of the agent are in no crate's
  module tree and are never compiled. The generated protocol definitions.

Some limits of the properties: those of the mount leave out what happens after a lost reply or
to a path that was renamed (`Whole`), where the code does lose count, as the findings say; and
no mount of the runs opens a conflict copy, which `OwnCountAhead` leaves out, since of its own
copies a device does not know the clocks. `NothingLostSilently` leaves out a
JNI process that has been restarted, which is the subject of `migrate_lost`. A half-written
temporary file of `peers.json` is not told from a whole one, since it is written anew before it
is renamed; that the other process might rename it is left out. A decoder that wants more data
before its first picture is taken to show the frame it got.
