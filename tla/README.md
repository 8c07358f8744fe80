# A formal model of pseudoroot

pseudoroot lets an unprivileged program believe that it runs as root: a library
preloaded into every process of a session intercepts `chown`, `chmod`, `stat`,
`mknod`, `setxattr` and their relatives, keeps fake metadata for the inodes they
touch, and shows it again when they ask. This directory holds TLA+ modules of the
parts of pseudoroot that carry its logic, configurations that model-check them
with TLC, and proofs that TLAPS checks.

Sources are named relative to the repository root; the crate directories
`pseudoroot-core` (core), `pseudoroot/interpose` (the preloaded library) and
`pseudoroot` (launcher) are all below it. `PROJECT.json` maps every definition to
the lines it models.

## 1. The system

### Components

| Component | Source | State | Operations |
|---|---|---|---|
| Shared-memory inode table | core `shm_map.rs` | a mapping shared by the processes of a session: header with current ids, `slot_count` slots (an atomic `occupied` word, plain fields `dev`, `ino`, `uid`, `gid`, `mode`, `rdev`) and one xattr page per slot | `get_inode`, `upsert_chown`, `upsert_inode`, `remove_inode`, `current_uid_gid`, `set_current_uid_gid` |
| In-process state | core `state.rs` | `FakeRootState`: `DashMap` from (dev, ino) to `FakeInode`, two atomic ids | the same |
| Shared-memory client | core `shm_client.rs` | the attached table | attaches once from `PSEUDOROOT_SHM_FD`, forwards |
| Protocol and channel | core `protocol.rs` | one `UnixStream` | `connect`, `send`, `recv`, `request` |
| Daemon client | core `daemon_client.rs` | the channel behind a mutex, `DAEMON_CONNECTED` | one function per request |
| Daemon server | core `daemon_server.rs` | a `FakeRootState`, a shutdown flag, the socket file | accept loop, a thread per client, dispatch, shutdown |
| Ownership hooks | interposer `ownership.rs` | what each hook needs between its steps; initialization flags | choice of backend, `record_chown*`, `record_chmod*`, `finish_fake_mknod`, xattrs, `maybe_remove_inode*`, `prepare_rename_overwrite`, stat overlays, credentials |
| libc hooks | interposer `lib.rs`, `platform/*.rs` | none | one per intercepted symbol; the order of bookkeeping and real call |
| Inode identity | interposer `inode.rs` | none | stat by path, descriptor or directory |
| Launcher | `pseudoroot/src/lib.rs` | the extracted library file, a session's table or daemon | extraction, `.fakeroot()`, session set-up |
| Command lines | `pdr.rs`, daemon `main.rs` | none | `pdr run`, `daemon`, `status`, `stop` (which removes a socket file nobody serves) |
| Build script | `build.rs` | none | embeds the preloaded library in the launcher |

### How they interact

A hook finds the (dev, ino) of its file with a real `stat`, then reads or writes
the inode map through one of three backends, in this order: the shared table when
it is attached, the daemon when the process is connected, the process's own state.
In daemon mode the own state also takes a copy of whole entries that are stored.
Nothing ties the `stat`, the map operation and the real system call together, and
the processes and threads of a session run all of this at the same time. The table
is plain shared memory without a lock: the only synchronization is the `occupied`
word of each slot. The daemon serializes single operations on its map, not the
read-modify-write of a hook.

### What is hard, and what makes each component correct

- **Table**: probes cross slots that other processes fill and clear. Correct means:
  an entry that stays is never missed; a lookup whose slot keeps holding its key
  returns only what was written for it; a key has one entry; the table drops an insert only when there is no
  room; every operation returns; what the finished operations amount to is what is
  there.
- **Hooks**: inode numbers are reused, names of a file come and go, a real call may
  be refused or raced. Correct means: a file shows the metadata root would have
  given it (`Faithful`), a stat reports what root would be told (`StatFaithful`), and
  a new file does not inherit anything (`NoGhost`).
- **Backends**: the daemon may never have run or may end, copies grow stale.
  Correct means: every process of a session finds what its processes recorded
  (`Recorded`).
- **Credentials**: the current ids are kept in three places, stored one after the other
  and set by read-modify-write; a new process sends `Init` with the ids it started
  with. Correct means: `getuid` and `getgid` report what was last set (`Reported`), and
  `stat` agrees with them (`StatAgrees`).
- **Initialization**: hooks run before and during it, on several threads, also from within
  it. Correct means: no call waits for itself (`CallsReturn`).
- **Channel**: a forked child shares its parent's stream, frames are written and read
  in halves, answers are not matched to requests, callers are killed, the daemon ends.
  Correct means: a caller gets the answer to its own request (`OwnAnswer`), a request
  takes effect once, at one moment (`ImplementsCalls`), and returns (`Returns`).
- **Daemon**: every daemon and `pdr stop` removes a socket path by name. Correct
  means: who serves can be reached (`Reachable`), one that ends because it is told to
  leaves nothing behind (`CleansUp`), what another one leaves is no obstacle (`FreePath`),
  and all come to an end (`Ends`, `StopReturns`). That `pdr stop` removes stale files only,
  as its comment says (`OnlyStale`), is not so: see Findings.
- **Extended attributes**: reading takes two calls, between which attributes change.
  Correct means: what was set is read back (`ReadsBack`), whole (`ReadsAll`), and
  reading ends (`ReadsEnd`).
- **Launching**: launchers extract one library at the same time and may be killed; the
  environment decides the backend. Correct means: a library that can be found is whole
  (`Complete`), a command gets the session it asked for (`Asked`), and is launched
  (`Launches`).

`PROJECT.json` lists the hazards at their lines, with the properties that cover them.

## 2. The modules

    FakeInodes            FakeInode, the merge of a chown
      InodeMap            what a store of metadata promises: an atomic map
      ShmTable            the table, one operation at a time;
                          implements InodeMap (ImplementsMap)
        ShmTable_proofs   theorems about ShmTable, the refinement among them
      Ownership           the hooks over a file system
        Ownership_proofs  theorems about Ownership
      Backing             where the hooks' entries are kept
        Backing_proofs    theorems about Backing
      DaemonMessages      requests, answers, and what the daemon does
        DaemonCalls       what the daemon promises its callers
        DaemonRpc         frames, connections, handler threads;
                          implements DaemonCalls (ImplementsCalls)
          DaemonRpc_proofs
                          theorems about DaemonRpc, its refinement of
                          DaemonCalls among them
          DaemonFork      the same with calls mixed on one stream
    ShmMap                the table, one memory access at a time
      ShmMap_proofs       theorems about ShmMap, and about sessions whose
                          mutating calls do not overlap
    DaemonLife            daemons and pdr stop on one socket path
      Session_proofs      theorems about DaemonLife, and about Launcher
    Credentials           current ids, and the two initializations
      Credentials_proofs  theorems about Credentials
    Xattrs                extended attributes of a file, and who reads them
      Xattrs_proofs       theorems about Xattrs
    Launcher              extraction of the library, choice of the session
    MC...                 instances for TLC

**FakeInodes** has the data: an entry with owner, optional mode and device, and
xattrs, which are one opaque value (`Fits` are the xattr maps that fit in the
4096-byte page of a slot).

**InodeMap** is the abstract specification: a map from keys to entries on which
each operation is one step. With `Bounded = FALSE` it is `FakeRootState`. With
`Bounded = TRUE` it is what a table of fixed size can promise: an insert of a new
key may be dropped, mode and device 0 read back as "not set", xattrs that do not
fit are dropped.

**ShmTable** is `shm_map.rs` with all its data and each operation as one step:
`At(k, d)` is the slot d steps from the home bucket, the probe is stated by
quantifiers over the slots a walk has passed instead of a loop, and its outcomes
are those of `enum Probe`. Fields of a slot that is not live keep their old
contents, as in the code. The refinement mapping to InodeMap takes the entry of a
key from its live slot.

**ShmMap** is the same file access by access, for any number of threads. A step is
one load of an `occupied` word, one comparison or access of a plain field, or the
final Release store. Plain accesses between two accesses of an `occupied` word are
made in any order, since they are ordinary loads and stores; a single access is not
torn, and the copy of an xattr page counts as one access. A value is named by the
key it is written for and a number, because the code moves metadata without looking
at it; `held` and `truth` are history variables. The constant `Serial` restricts
instances to one mutating operation at a time, for the properties that need it.

**Ownership** puts the hooks over a real file system: a directory of names, inode
numbers that are free again when the last name and descriptor go, types, permission
bits, symbolic links (all to one target), a descriptor per process. Each hook is
split at its system calls and map operations, which are atomic, as InodeMap states:
chown is stat and upsert; chmod is stat, get, set and the real chmod; unlink is
stat, remove and the real unlink; rename stats the new name, then the old one, and
makes the real call with the flags of `renameat2`, which it has not looked at; mknod
opens a regular file in place of the node, stats it and stores the mode it was passed,
or makes the real call when the file has gone; stat is the real stat and a lookup. What
the code records of a node (`Recorded`) and what root's mknod would have made (`Made`,
with the umask and a type for a mode without one) are two definitions. The
history variable `truth` is the metadata root would have given the file. Files have
no real owner in the model, because the library shows the current fake ids for a
file without an entry; the current ids do not change.

**Backing** is `get_inode`, `set_inode`, `update_inode`, `remove_inode` and
`record_chown_key` with their three backends, processes that start, fork and exit,
and a daemon that may not run or may end. An operation is one step here.

**DaemonRpc** is the channel from end to end: a process connects once, calls under
its channel's mutex, writes a frame in two writes and reads one in two; the daemon
accepts, and has a thread per connection that reads, dispatches and answers. A frame's
part is the message it belongs to; the sender and the number of its request come with
it, of which the code sends the number only, so that `OwnAnswer` can compare them.
What dispatch does to the map is in **DaemonMessages**. A process may be killed in a
call, the daemon may end at any time and be started anew, with an empty map. The
refinement mapping to **DaemonCalls** needs history variables: a call's moment is its
dispatch (`served`), and a connection that is closed loses the call that is on it.
**DaemonFork** adds what happens when a part of a frame comes where the other is
expected, which only calls mixed on one stream can bring about.

**DaemonLife** is the socket path: bind in its steps (remove, bind, listen), the
accept loop and its flag, the removal at the end, the errors of `set_nonblocking` and
`accept`, a `SessionDaemon` and its drop, Ctrl+C, kill, and `pdr stop` with its answer.
The history variable `killed` has the daemons that ended otherwise than by their flag or
with the removal of the socket: by a kill, Ctrl+C, or one of these errors. Removal is by name in the model as in the
code: `file` is the daemon that has bound what is at the path now.

**Credentials** is `getuid`, `setuid` and their relatives in threads and processes of
one session: the bootstrap ids, the ids of the process's own state, those of the
session, each pair stored in two steps where the code does so; the library's `Once`
with `LIBRARY_INITIALIZING`, the session's `Once`, hooks called from within them.

**Xattrs** is one file: `setxattr` and `removexattr` change fake attributes, `getxattr` and
`listxattr` return them with the real ones, programs read with a size query and a
second call. Values and lists are known by their lengths and what they say.

**Launcher** is `.fakeroot()`, the supervisor and the extraction of the library: look,
open, write chunk by chunk, rename, start. A file that is open stays the same file when
it is renamed or replaced (`fd`). The environment of an outer session is part of the
setting.

In all modules but those of the table a constant `Scenes` (`Settings` in Launcher) is a set of
scenes, of which a behaviour has one from its first state on: what the callers do and
what is under them. The properties do not hold in every scene (see Findings), and the
scenes of the MC modules say where they do.

## 3. What is checked

| Run | Instance | Checks |
|---|---|---|
| `shm_table` | 3 slots, 3 keys, two in one bucket and one in the next; entries a slot cannot express | `TypeOK`, `Reachable` (no empty slot before an entry on its walk), `OneSlotPerKey`, `ImplementsMap` (refinement of InodeMap) |
| `shm_concurrent` | 2 processes of 2 calls each, 3 keys in one bucket of 2 slots | `TypeOK`, `Reachable`, `NoFalseMiss` (a walk does not miss an entry that was in one slot all along), `FullMeansUsedUp`, `Completes` (every operation returns) |
| `shm_serial` | the same with one mutating call at a time, two metadata fields, one of them the xattr page, and two values | `OneSlotPerKey`, `NoForeignRead` (a lookup whose slot keeps holding its key returns only what was written for it), `Settled` (between mutating calls, the table holds what they amount to) |
| `ownership` | eight scenes of up to 3 names and 3 inode numbers: `Naming`, `Changing`, `Apart`, `Making`, `MakingFiles`, `Watching`, `Refused`, `Moving` | `TypeOK`, `Faithful`, `NoGhost`, `StatFaithful` (a stat reports what root would be told, when it was asked for or now) |
| `backing` | six scenes of up to 2 processes and 2 inodes: `Alone` (three backends), `Together`, `Ending` | `TypeOK`, `Recorded` |
| `daemon_rpc` | 2 processes, 2 connections, one inode, up to 2 calls each; scenes `Own`, `Turns`, `Ending` | `TypeOK`, `OwnAnswer`, `ImplementsCalls` (refinement of DaemonCalls), `Returns` |
| `daemon_life` | 2 daemons and 2 `pdr stop` commands; daemons of their own and session daemons, with and without `--cleanup`, apart and at any time | `TypeOK`, `Reachable`, `CleansUp`, `FreePath`, `Ends`, `StopReturns` |
| `credentials` | scenes `Separate`, `FirstCalls`, `TwoThreads`, `Forking`: up to 2 processes or 2 threads, 2 ids, three backends | `TypeOK`, `Reported`, `StatAgrees`, `CallsReturn` |
| `xattrs` | a reader and up to 4 changes; 2 names, values shorter than, as long as and longer than the limit, with and without a real attribute | `TypeOK`, `ReadsBack`, `ReadsAll`, `ReadsEnd` |
| `launcher` | 3 threads, of as many processes or of one that asks for sessions; a library of 2 chunks, or one that is given | `Complete`, `Asked`, `Launches` |
| `shm_lost` | 2 processes, one chown each | finding: `Settled` |
| `launcher_threads` | 2 threads of one process | finding: `Complete` |

**Bounds.** In the instances of ShmMap all keys are of one bucket, the last one, so that
every walk collides, wraps around and crosses tombstones, and there are more keys than
slots, so that the table fills up. In that of ShmTable there are three keys in two
buckets, so that walks from different homes cross, and three slots, which are soon all
used. Two processes of two calls each reach every pair of overlapping calls from every
state two calls can make. `MaxOps` (ShmMap), `MaxCalls` (DaemonRpc; a scene may say
less) and `MaxChanges` (Xattrs) are the only bounds on behaviours, and the first two
leave nothing to do when all calls are used up: hence `CHECK_DEADLOCK FALSE` in the runs
of these modules. `credentials` and `xattrs` have it because a program may simply make
no further call. In `shm_table`, `ownership`, `backing`, `daemon_life`, `credentials`
and `launcher` calls go on for ever, and the finite sets of keys, names, processes and
values bound the states. Three names are what a rename over one of two links of a file
needs; an inode number more than names in use lets a new file take a fresh or a reused
one. In the scenes `Naming` and `Refused` directories have one link, as on file systems
that do not count subdirectories, because with two `NoGhost` fails. Several small scenes
instead of one with all calls keep the run short: `Naming` has the calls that change
names without following links, `Changing` those that change metadata, `Making` and
`MakingFiles` the types of nodes (block devices are like character devices, sockets like
pipes); two processes compete for inode numbers in `Apart`, one stats what the other
changes in `Watching`, and one moves away what the other's mknod makes in `Moving`. Two
daemons and two commands are one more than a removal by name needs to go wrong. A
library of two chunks is whole, begun or half written; three launchers are one that
extracts, one that interferes and one that uses the result. `SYMMETRY` exchanges
processes only, and no run with it has a liveness property.

**Fairness.** It is weak throughout, of the steps a thread makes inside an operation
it has begun: all it takes is that the scheduler runs the thread. Nothing is assumed of
starting calls, of kills, of a daemon's end or start.

| Property | Fair are | Why it is not a matter of course |
|---|---|---|
| `Completes` (ShmMap) | the accesses of an operation | a walk compares slots that change under it, and ends because it advances `slot_count` times at most |
| `Returns` (DaemonRpc) | a caller's steps, a handler's steps, the end of a daemon whose flag is set | a caller waits for an answer that may never be sent: then the stream must be closed |
| `Ends`, `StopReturns` (DaemonLife) | steps of a daemon that runs, of a command that was given | the daemon looks at its flag between accepts, and may exit before it has answered |
| `CallsReturn` (Credentials) | steps of an initialization and of a call | hooks are called from within the initialization they wait for |
| `ReadsEnd` (Xattrs) | the calls of a program that has begun to read | a second call that answers `ERANGE` sends the reader back |
| `Launches` (Launcher) | the steps of a launch | a launcher may find what an earlier one left when it was killed |

Each property of a passing run has a mutant: a definition of the module with a fault of
the kind a change of the code might bring in (marked "Faulty variant" in the modules; no
specification uses them), under which TLC finds the property violated.

## 4. What is proved

Eight modules hold theorems, for every value of the constants that satisfies the
assumptions of its modules.

### ShmMap_proofs

For any number of processes, keys, slots, calls and values, any hash function and any
set of metadata fields:

| Theorem | States |
|---|---|
| `TypeCorrect` | `Spec => []TypeOK`: no walk or access leaves the table |
| `ReachableAlways` | `NoMixedKeys => (Spec => []Reachable)` |
| `FullMeansUsedUpAlways` | `Spec => []FullMeansUsedUp` |
| `NoFalseMissAlways` | `NoMixedKeys => (Spec => []NoFalseMiss)` |

They rest on `ShmMapAssumption` (the constants are what their comments say) and
`NothingAssumption` (no entry and no value are neither entry nor value). Two also
assume `NoMixedKeys`: the `dev` of one key and the `ino` of another never make up a
third key, as with the files of one file system. Without it two racing inserts can
write such a key into a slot that is not on its walk; `ShmMapMixed.cfg` shows what
becomes of it.

The argument has three layers, each an inductive invariant.

1. `TypeInv` adds to the types what the program counter says about the other local
   variables (`LocalOK`): a process at an access has chosen a slot of the table, and
   is only about to access fields its operation uses.
2. `WalkInv` adds the walks. `Reachable` alone is not inductive, since two inserts may write
   one slot in turns and publish a mixture. What is: slots never become empty again
   (`UsedStays`), so a passed slot stays passed; every process has only passed used
   slots and has chosen one on its walk (`PathOK`); and every key *field* in the table
   was written on the walk of a key with that field (`Origin`). Under `NoMixedKeys` a
   live slot's two fields belong to one key whose walk leads there.
3. `LookInv` adds the lookups (`HeldOK`): slots that have held the key since the walk
   began lie ahead of it. A walk ends at an empty slot only if none is left, because
   `Reachable` says an entry has no empty slot before it, and after `slot_count` steps
   only if none is left, because the steps visit all slots (`AtOnto`).

When no two mutating calls overlap (`Serial`; lookups overlap with everything), there is
more to say. All three theorems assume `Serial /\ NoMixedKeys`; without `Serial`,
`ShmMapLost.cfg` shows what is lost.

| Theorem | States |
|---|---|
| `OneSlotPerKeyAlways` | `Spec => []OneSlotPerKey` |
| `NoForeignReadAlways` | `Spec => []NoForeignRead` |
| `SettledAlways` | `Spec => []Settled` |

None of the three is inductive: while a call is under way the table is ahead of the
finished calls, and whether an insert makes a second slot for a key was decided on its
walk. `SerialOK`, added to `LookInv`, says

- what relates the table to the finished calls *during* a mutating call: a slot holds a key
  just when the key has an entry (`Present`), and a field of it differs from the entry only
  if the call has written it (`Contents`, `Updated`);
- that the mutating call knows the truth (`MutationOK`): the slots that hold its key are
  those it has watched since it began, so a walk that ends without an entry, which by
  `NothingHere` has nothing left to watch, is right that there is none; what it has written
  so far is what it is to write, into the slot of its key or a free one;
- that what a lookup has read so far is of its key if the slot is still watched (`ReadOK`).

The steps then fall into three kinds: those that leave the table alone (`QuietKeeps`), writes
(`WriteKeeps`), and the last store of a call (`UpdateEnds`, `RemovalEnds`, `InsertionEnds`),
at which table and finished calls move together.

### ShmTable_proofs

For any number of slots and keys, any hash function, any entries:

| Theorem | States |
|---|---|
| `TypeCorrect` | `Spec => []TypeOK` |
| `ReachableAlways` | `Spec => []Reachable` |
| `OneSlotPerKeyAlways` | `Spec => []OneSlotPerKey` |
| `Implements` | `Spec => ImplementsMap`: the table refines InodeMap with `Bounded = TRUE` |

`Inv`, the conjunction of the three invariants, is inductive: an insert that reuses a
tombstone does so after a walk that did not find the key, which by `Reachable` means that
no slot has it, so the key does not get a second one. For the refinement, `Inv` gives
each key at most one live slot, so that the refinement mapping `View` is determined by it;
an operation then changes the view of its own key only, to what InodeMap says, and an
insert that finds no slot is a step that drops it.

### Session_proofs: DaemonLife

For any number of daemons and commands, in every scene:

| Theorem | States |
|---|---|
| `TypeCorrect` | `Spec => []TypeOK` |
| `CleansUpAlways` | `Spec => []CleansUp` |
| `ReachableAlways` | `Spec => []Reachable` |
| `FreePathAlways` | `Spec => []FreePath` |

`CleansUp` is implied by an inductive invariant of its own (`LeftInv`: who has ended
without being killed is not the one at the path), which holds however daemons overlap. The
other two are about scenes in which daemons follow each other; `ApartInv` says what that
means for the states in between: at most one daemon is not off, the file at the path
is its own as soon as it has bound, and when a command has been refused no daemon is
starting or serving. Where commands are given at any time a refused one may remove the
file of a daemon that serves, as `DaemonLifeStale.cfg` shows.

### Session_proofs: Launcher

The same module extends Launcher, whose names are its own for that purpose. Its scenes are
called settings. For any number of threads, requests and sessions, and any length of the
library; `Separate` are the settings in which threads that extract the library do so in
processes of their own:

| Theorem | States |
|---|---|
| `LaunchTypeCorrect` | `LaunchSpec => []LaunchTypeOK` |
| `CompleteAlways` | `LaunchSpec => []Complete`, if all settings are `Separate` |
| `OwnFileAlways` | `LaunchSpec => []OwnFile`, if all settings are `Separate`: what a launcher renames is the file it has written, and all of it |
| `AskedAlways` | `LaunchSpec => []Asked`, if all settings are `Suited` |

`WholeInv` carries the proof: of a file that is being written, a thread has written the
chunks before `at`, after the last one all of it, and until then it has its temporary name,
which no other thread uses. So what is renamed is whole, and nobody writes it any more.
`launcher_threads` shows that the assumption is needed.

`Suited` says which requests are made where an outer session has set the environment: those
it does not stand in the way of. A setting without an outer session is always `Suited`. The
proof goes through the environment a command is started with, request by request
(`SuitedBackend`). `LauncherNested.cfg` shows what happens in the others.

### Xattrs_proofs

For any number of readers and changes, every finite set of names of any lengths, every set of
values and every size of buffers and pages:

| Theorem | States |
|---|---|
| `TypeCorrect` | `Spec => []TypeOK` |
| `ReadsBackAlways` | `Spec => []ReadsBack`, if all scenes are `Recordable` |
| `ReadsAllAlways` | `Spec => []ReadsAll`, if all scenes are `Listable` |

The size a reader makes its buffer of is a sum over a set of names, and `TypeCorrect` needs
it to be a number. The sum is a fold, which the community modules define as the function that
satisfies a recursive equation; `FoldExists` shows that there is one, and `ListLengthTyped`
what it returns. Both go by the number of names. The library's induction theorems cannot be
used (see below), so `SetInduction` states induction for a set of numbers instead of a
predicate, which follows from the least-element theorem of `WellFoundedInduction`.

A scene is `Recordable` if what is set and removed in it can be recorded at all: attributes
the file has in fact are not removed (the scene `RemoveReal` shows what happens otherwise) and not
longer than `MAX_XATTR`, which is the kernel's own limit, and the page has room for whatever is
set (scene `Overflow`). `ReadsBack` speaks of the attributes as they are shown; that it is
an invariant follows from `BackInv`, which says of the stored ones that they are those that
were set, cut, and that a name without one was not touched.

A scene is `Listable` if a file with attributes of its own has its list read in one call, with a
buffer for any list, as in two of the run's scenes; with two calls its names get lost
(`XattrsLost.cfg`). `AllInv` adds that such a read is at its second step. That a value or a list
is read whole although it changes between the two calls rests on what the second call
does with a buffer that has become too small: it returns nothing (`GetXattrIs`, `ListXattrIs`).

### Ownership_proofs

For any number of processes, names and inode numbers, and any sets of ids, permissions and
extended attributes:

| Theorem | States |
|---|---|
| `TypeCorrect` | `Spec => []TypeOK`, in every scene |
| `NoGhostAlways` | `Spec => []NoGhost`, if all scenes are `Sober` |
| `FaithfulAlways` | `Spec => []Faithful`, if all scenes are `Sober` and `Exact` |
| `StatFaithfulAlways` | `Spec => []StatFaithful`, if all scenes are `Sober` and `Lasting` |

`TypeCorrect` rests on `TypeInv`: a call that works on an entry has found a file, and every
file has metadata with a mode that its type can have. It needs no assumption about who
works on what.

The other three are about processes that change files of different names; inode numbers
and the directory are shared by all, a number that one process frees is what another gets,
and any process may stat any file. What they assume of a scene is what section 5 shows to
be needed:

- `Sober`, for all three: no two processes change files of one name (`Removers`, `Writers`),
  no directory with two links is removed (`Directories`), no symbolic link is removed
  (`Links`) and no node made through one, no file loses its names while it is open
  (`OpenFiles`). Only one process makes symbolic links, because all of them point to one
  name. Refused calls, the flags of `renameat2` and every kind of node are allowed: there
  is no ghost in the scenes `Exchanges`, `Umasks`, `Untyped` and `Devices` either.
- `Exact`, for `Faithful`: names are not exchanged (`Exchanges`), mknod is called with a type
  (`Untyped`) and no bit of the umask (`Umasks`), and where modes change, for regular files
  only (`Devices`).
- `Lasting`, for `StatFaithful`: no call removes, renames or makes nodes (`Readers` shows what
  happens when a file is removed before its entry is looked up).

The scenes of the run are `Sober`, except `Moving`, in which one process moves away what the
other makes, and those without refused calls are `Exact`; `Changing` and `Watching` are
`Lasting`. In the others a process stats its own files only.

None of the three invariants is inductive: whether a file is shown as it should be depends
on what a hook that has not finished knows. `OwnInv`, which `NoGhost` and `Faithful` follow
from, adds

- that every file has names, all of them of one process (`Owned`), and what a process holds
  open is its own: this is what makes inode numbers safe to reuse;
- what a hook has found is still so at its next step (`ProcOK`): the file its name leads to
  is the one it works on, the entry it has read is the one there is (`ChangeOK`), the file
  it stands in for a node is there (`MknodOK`), the name it removes is of the file whose
  entry it looked at, and if that was the last one the entry is gone (`RemoveOK`);
- when a file need not be shown as it should be (`Excused`): while a node is made, and
  between dropping the entry and removing the last name.

The proof splits along the processes. `Keeps` says what a step of one process leaves to the
others: what is not its own, and names only get its own files or free numbers. Whatever
`Keeps` that keeps the other processes' part of `OwnInv` (`OthersOK`, `Compose`), so each
action is left with its own process and files. The number of links, a cardinality in the
code's guard `st_nlink <= 1`, enters through `LastIs`: for a file that is no directory it
means that there is one name only.

`StatFaithful` needs more, because the file of a stat in progress is changed by another
process: its entry may come, and its real mode change, between the real call and the lookup.
`StatInv` says that the file is still the one the name leads to, and that its real mode is as
it was read unless a mode has been recorded, which is what is shown then. It is kept because
record_chmod stores the new mode before the real chmod, and because no call takes a recorded
mode away again (`Steady`, `StatStep`).

### Credentials_proofs

For any number of processes, threads and ids:

| Theorem | States |
|---|---|
| `TypeCorrect` | `Spec => []TypeOK`, in every scene |
| `ReportedAlways` | `Spec => []Reported`, if all scenes are `Orderly` |
| `StatAgreesAlways` | `Spec => []StatAgrees`, if all scenes are `Orderly` |

`Orderly`: calls that set ids do not overlap, and no process starts inside a session.
`CredentialsRace.cfg`, `CredentialsFirst.cfg` and `CredentialsExec.cfg` show what happens
otherwise. `CredInv` has two halves, of which the first does not look at ids.

- `Control` says who may be where: an initialization under way has a thread that waits for
  it, hooks within an initialization are there only while it is, a call that sets ids has
  the library initialized and the session joined, and it is the only one.
- `Values` follows the ids through their copies: until a process has joined, its ids are
  those of the environment (`FreshOK`), and so are the session's (`AloneOK`); what a call is
  about to store is the new id and the other one as it was (`IdsOK`); what a process sees
  is what was set, but for the group id while a call has stored the user id only
  (`SeenOK`, `HalfOK`).

### Backing_proofs

For any number of processes and inodes:

| Theorem | States |
|---|---|
| `TypeCorrect` | `Spec => []TypeOK` |
| `RecordedAlways` | `Spec => []Recorded`, if all scenes are `Coherent` |

`Coherent` is about scenes with a daemon only: processes that remove entries run one after
the other, and no chown is left to a daemon that may end. `Inv` says, for each backend,
which store has what was recorded: the table, the daemon while it is up, and otherwise
the one process there is. A daemon that may end hands over to the copies of the process
that uses it, so `Inv` also says that these cover all it has changed (`DaemonHas`). The
scenes `Losing` and `Removing` of section 5 show that the assumption is needed.

### DaemonRpc_proofs

For any number of processes, streams and calls and any set of requests:

| Theorem | States |
|---|---|
| `TypeCorrect` | `Spec => []TypeOK`, whoever shares a stream |
| `OwnAnswerAlways` | `Spec => []OwnAnswer`, if all scenes are `Unshared` |
| `CallsImplemented` | `Spec => ImplementsCalls`, if all scenes are `Unshared` |

`Unshared`: each process has a stream of its own, or those who share one call in turns and
none is killed in a call. All scenes of `daemon_rpc` are; `DaemonRpcForked.cfg` shows
what happens in others. Processes may be killed otherwise, and the daemon may end and be
started anew at any time.

- `CallInv` says at which of seven stages a call is (`Unsent`, `HalfSent`, `Sent`, `InHand`,
  `HalfAnswered`, `Answered`, `Lost`). The stage determines what the process waits for, what
  the daemon's thread is about to do, which parts of which frames are on the stream, and
  that they are about this call; a stream without a call is `Quiet`. So an answer read
  is the answer to the question asked, although the code does not compare their numbers.
- `AskInv` relates this to `asked` and `served`, the history that DaemonCalls speaks of: a
  request on its way or in the daemon's hands is the one asked, and has not taken effect
  (`Ahead`, `Hand`); an answer on its way is the one it took effect with (`Behind`); a
  call that is lost, or has not begun, has nothing left (`Asking`, `NoCall`).
- Each step is then one of DaemonCalls or not seen by it: `Dispatch` is `TakeEffect`, reading
  the body is `Return`, closing streams is `Lose`, the end of the daemon is `End`.

### Only model-checked

- Liveness under fairness (`Completes`, `Returns`, `Ends`, `StopReturns`, `CallsReturn`,
  `ReadsEnd`, `Launches`), and all that is about `ENABLED`: out of the prover's reach. So is
  induction over data as the library's theorems state it, with an operator as parameter;
  the one place that needs it is that of `SetInduction` above. No module declares a `RECURSIVE`
  operator.
- Every invariant of a passing run is stated by a theorem, most of them under assumptions
  about the scenes. The scenes of the passing runs satisfy these, but for the exceptions
  named above for Ownership, which are only model-checked; the configurations of section 5 have
  scenes that do not.

## 5. Findings

Places where the code does not do what its documents, comments or callers say. Two have a
run that checks the property in question and finds the counterexample.

- `shm_lost`: two inserts of different keys may choose the same vacant slot, and the
  second overwrites the first. `docs/architecture.md:100-101` promises that concurrent
  writers stay consistent.
- `launcher_threads`: the temporary file of an extraction is named after the process, so
  two threads of one process share it, and one renames what the other has just emptied
  or is still writing. A launcher that comes by then uses part of a library. The comment
  at `pseudoroot/src/lib.rs:189` calls the rename atomic.

The configurations below show more of the same kind and are not part of the regular
set of runs; `tlc -config X.cfg M` reports the counterexample. Where a scene is named,
give it as `Scenes <- ...` in `Ownership.cfg`, `Backing.cfg` or `Xattrs.cfg`, with the property
alone.

| Configuration | Module | Shows |
|---|---|---|
| `ShmTableFull.cfg` | MCShmTable | `FullOnlyWhenAllLive`: in a table without empty slots `probe` returns `Full` although it has seen a tombstone it could reuse, against the comments at `shm_map.rs:52-53` and `:379-380`; no slot becomes empty again, so such inserts are dropped from then on |
| `ShmMapMixed.cfg` | MCShmMap | `Untouched`: two racing inserts leave an entry with the device of one file and the inode number of the other, a file nobody changed |
| scene `Directories` | MCOwnership | `NoGhost`: an entry is dropped when `st_nlink <= 1`, but a directory has at least two links on most file systems, so `rmdir`, which `docs/architecture.md:200` lists among the calls that drop entries, never does |
| scene `Links` | MCOwnership | `Faithful`: unlink looks at the file a symbolic link points to, and drops its entry |
| scene `Removers` | MCOwnership | `NoGhost`: a chown that found its file before it was unlinked records a free inode number |
| scene `OpenFiles` | MCOwnership | `NoGhost`: fchown of a file that is open but unlinked leaves an entry |
| scene `Writers` | MCOwnership | `Faithful`: chmod writes back the owner it read, over a chown in between |
| scene `Devices` | MCOwnership | `Faithful`: chmod of a device composes the mode with the type of the placeholder file |
| scene `Umasks` | MCOwnership | `Faithful`: `mknod` records its mode as passed, where root's would have taken the umask off |
| scene `Untyped` | MCOwnership | `Faithful`: `mknod` with a mode without type bits records it so, and stat shows a file of no type, where root's makes a regular file |
| scene `Exchanges` | MCOwnership | `Faithful`: `renameat2` drops the entry at the new path before `RENAME_EXCHANGE` gives that file the other name |
| scene `Readers` | MCOwnership | `StatFaithful`: between the real stat and the lookup the file is removed, and another one with its inode number gets an owner, which the stat reports |
| scene `Losing` | MCBacking | `Recorded`: `DAEMON_CONNECTED` is never taken back, so with a daemon that has ended chown neither reaches it nor falls back to the process's own state |
| scene `Removing` | MCBacking | `Recorded`: with a daemon, an entry that another process removed is found in the copy of the one that stored it |
| `DaemonRpcForked.cfg` | MCDaemonRpc | `OwnAnswer`: parent and child call over one stream, and one takes the other's answer |
| `DaemonRpcHang.cfg` | MCDaemonRpc | `Returns`: a reader waits for the half of a frame that the other has taken |
| `DaemonLifeTold.cfg` | MCDaemonLife | `ItsOwnSocket`: `pdr stop` has said that the daemon has stopped, a new one binds, and the old one removes its file |
| `DaemonLifeStale.cfg` | MCDaemonLife | `OnlyStale`: `pdr stop` takes a failed connect for the absence of a daemon, and the comment at `pdr.rs:271` says that at most a stale socket file is left then; a daemon that starts has bound the path and does not listen yet, or binds it before the removal, and serves on where nobody can reach it |
| `CredentialsRace.cfg` | MCCredentials | `Reported`: `setuid` and `setgid` at the same time, and one of them is lost |
| `CredentialsFirst.cfg` | MCCredentials | `Reported`: a `setuid` during another thread's initialization is overwritten by its end |
| `CredentialsExec.cfg` | MCCredentials | `Reported`: a program that starts sends `Init`, and the session is back at its first ids |
| `CredentialsStat.cfg` | MCCredentials | `StatAgreesInSession`: `stat` shows the ids of the process's own state where another process of the session has set new ones |
| `CredentialsLength.cfg` | MCCredentials | `CallsReturn`: without `PSEUDOROOT_SHM_LEN` attaching calls `fstat`, whose hook waits for the attaching |
| `XattrsLost.cfg` | MCXattrs | `ReadsAll`: the size query leaves out the real names, and in a buffer of that size the second call does, too: the list looks complete |
| `XattrsRetry.cfg` | MCXattrs | `ReadsEnd`: the size query leaves out the real names, which the second call counts when they alone would fit, so the reader is sent back for ever |
| scene `RemoveReal` | MCXattrs | `ReadsBack`: a real attribute that was removed is read again |
| scene `Overflow` | MCXattrs | `ReadsBack`: attributes that do not fit the page are dropped, and `setxattr` returns success |
| `LauncherNested.cfg` | MCLauncher | `Asked`: inside another session the command runs with a backend other than the one it was asked for |

The properties of scenes with refused calls do not include `Faithful`: hooks drop the
entry before the real call, so a refused unlink or rename loses it.

## 6. What is not modelled

- **Identity.** Devices, directory-relative paths, `AT_EMPTY_PATH` and the field mask of
  `statx`: a file has one number, and all the ways to name it lead there.
- **Calls that make and rename files.** `RENAME_WHITEOUT`, which leaves a device at the old
  name that no hook sees; `mknod` of types the system refuses, such as directories; block
  devices and sockets, which the code treats like character devices and pipes. The umask
  is applied by mknod only: other calls make files without permissions in the model.
- **Odd buffers.** A call of `listxattr` with size 0 and a buffer all the same, for which the
  code reads from that buffer (`ownership.rs:867-874`): the size query is made without one.
- **Hooks without state.** `setfsuid` and `setfsgid`, and the constant answers of
  `setgroups`, `capset` and their relatives. The table of symbols that macOS interposes, and
  the resolution of the real ones: calls made before the library's constructor are the first
  calls of Credentials.
- **Encoding.** Messages and xattr pages are known by what they say and whether they fit.
- **Memory.** Creating, sizing, mapping and passing on the shared memory: it happens
  before the first entry. Tearing of a single access is excluded.
- **Processes.** Signals other than a kill (`SIGPIPE` among them: writing to a closed
  stream fails), and Ctrl+C in its parts: its handler is one step.
- **Launching.** Where the cache directory is, arguments, `LD_PRELOAD`, argument parsing,
  `print-library-path` and `pdr run` beyond what it asks of the launcher. The build script and
  the tests are not part of the running program.
- **Real owners.** The library shows the current fake ids for a file without entry, so real
  owners do not matter; in Ownership these ids do not change.
