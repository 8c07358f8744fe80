----------------------------- MODULE Ownership -----------------------------
(***************************************************************************)
(* The ownership hooks of pseudoroot/interpose (lib.rs and ownership.rs)   *)
(* over a real file system.  A hook is a few system calls and a few        *)
(* operations on the inode map, each atomic (InodeMap), and other          *)
(* processes and the file system itself move between them: an inode        *)
(* number whose last name goes away is given to the next new file.         *)
(*                                                                         *)
(* The file system is one directory with the names Names and the inode     *)
(* numbers Keys of one device; a file has no owner of its own, since the   *)
(* library reports the current fake ids for a file without an entry, and   *)
(* these do not change here.  Every symbolic link points to Target.        *)
(*                                                                         *)
(* A scene says what the callers do: the names each process works on and   *)
(* the others it stats, the system calls in use and their arguments,       *)
(* whether they make calls the real system refuses, and the file system    *)
(* under them.  What holds depends on it.                                  *)
(***************************************************************************)
EXTENDS FakeInodes, FiniteSets

CONSTANTS Procs,
          Names,
          Target,    \* what symbolic links point to
          Scenes,    \* the scenes of a run
          Chowns,    \* the ids passed to chown: a subset of ChownIds
          Perms,     \* permission bits passed to chmod and mknod
          Current,   \* the current fake uid and gid
          Dev,       \* the device number passed to mknod
          NoFile     \* no inode number

\* The type bits in the mode passed to mknod; "none" is a mode without any.
\* Block devices are like "chr", sockets like "fifo".
Nodes == {"reg", "chr", "fifo", "none"}

\* What renameat2 is asked: no flag, as rename and renameat are,
\* RENAME_NOREPLACE, RENAME_EXCHANGE.
Renames == {"rename", "noreplace", "exchange"}

\* umask[m] is what the umask leaves of permissions m; dirlinks is st_nlink
\* of an empty directory: 2, or 1 on some file systems.
Scene == [own : [Procs -> SUBSET Names], reads : [Procs -> SUBSET Names],
          kinds : SUBSET STRING, inodes : SUBSET Keys, perms : SUBSET Perms,
          nodes : SUBSET Nodes, umask : [Perms -> Perms], dirlinks : {1, 2},
          refused : BOOLEAN]

ALLPERMS == 8
Types == {"reg", "dir", "lnk", "chr", "fifo"}
TypeBits == [reg |-> 8, dir |-> 16, lnk |-> 24, chr |-> 32, fifo |-> 40,
             none |-> 0, free |-> 0]

ASSUME OwnershipAssumption ==
    /\ IsFiniteSet(Names) /\ Target \in Names
    /\ Scenes \subseteq Scene
    /\ Chowns \subseteq ChownIds
    /\ Perms \subseteq 0 .. ALLPERMS - 1 /\ 0 \in Perms
    /\ Current \in Owners
    /\ Dev \in Rdevs
    /\ NoFile \notin Keys
    /\ \A t \in Types \cup {"none"}, m \in Perms : TypeBits[t] + m \in Modes

VARIABLES scene,  \* the scene
          dir,    \* the inode number of every name
          type,   \* the type of every inode, or "free"
          perm,   \* its real permission bits
          fd,     \* the one file each process has open
          entry,  \* the inode map
          proc,   \* the hook in progress in every process
          truth   \* history: the metadata root would have given the file

files == <<scene, dir, type, perm, fd>>
vars == <<files, entry, proc, truth>>

\* Where a hook is, its arguments, and what it has learnt: the inode number
\* and mode of a stat buffer, the entry it read.
Idle == [pc |-> "idle", call |-> "none", name |-> Target, to |-> Target,
         ids |-> Current, perm |-> 0, node |-> "none", xattrs |-> NoXattrs,
         key |-> NoFile, mode |-> 0, inode |-> New(Current[1], Current[2])]
Proc == [pc : {"idle", "upsert", "get", "set", "chmod", "stat", "mknod",
               "statold", "remove", "real", "patch"},
         call : scene.kinds \cup {"none"}, name : Names, to : Names,
         ids : Chowns \cup {Current}, perm : Perms, node : Nodes, xattrs : Xattrs,
         key : Keys \cup {NoFile}, mode : Modes \cup {0}, inode : FakeInode]

TypeOK ==
    /\ scene \in Scenes
    /\ dir \in [Names -> Keys \cup {NoFile}]
    /\ type \in [Keys -> Types \cup {"free"}]
    /\ perm \in [Keys -> Perms]
    /\ fd \in [Procs -> Keys \cup {NoFile}]
    /\ entry \in [Keys -> FakeInode \cup {Absent}]
    /\ proc \in [Procs -> Proc]
    /\ truth \in [Keys -> FakeInode \cup {Absent}]

Init ==
    /\ scene \in Scenes
    /\ dir = [n \in Names |-> NoFile]
    /\ type = [i \in Keys |-> "free"]
    /\ perm = [i \in Keys |-> 0]
    /\ fd = [p \in Procs |-> NoFile]
    /\ entry = [i \in Keys |-> Absent]
    /\ proc = [p \in Procs |-> Idle]
    /\ truth = [i \in Keys |-> Absent]
-----------------------------------------------------------------------------
(***************************************************************************)
(* The file system.                                                        *)
(***************************************************************************)
IsLink(i) == i # NoFile /\ type[i] = "lnk"

\* What a path that is followed leads to; a link to a link is a loop.
Follow(n) ==
    IF ~ IsLink(dir[n]) THEN dir[n]
    ELSE IF IsLink(dir[Target]) THEN NoFile ELSE dir[Target]

StMode(i) == TypeBits[type[i]] + perm[i]
StNlink(i) ==
    IF type[i] = "dir" THEN scene.dirlinks ELSE Cardinality({n \in Names : dir[n] = i})

\* Metadata of a new file.
Fresh(t) == [New(Current[1], Current[2]) EXCEPT !.mode = TypeBits[t]]

\* A file without a name that nobody has open is gone.
Kept(i) == (\E n \in Names : dir'[n] = i) \/ (\E p \in Procs : fd'[p] = i)
Reap ==
    /\ type' = [i \in Keys |-> IF Kept(i) THEN type[i] ELSE "free"]
    /\ truth' = [i \in Keys |-> IF Kept(i) THEN truth[i] ELSE Absent]

NewFile(n, t, m, metadata) ==
    \E i \in scene.inodes :
        /\ type[i] = "free"
        /\ dir' = [dir EXCEPT ![n] = i]
        /\ type' = [type EXCEPT ![i] = t]
        /\ perm' = [perm EXCEPT ![i] = m]
        /\ truth' = [truth EXCEPT ![i] = metadata]

Ready(p, call) == proc[p].pc = "idle" /\ call \in scene.kinds
Become(p, state) == proc' = [proc EXCEPT ![p] = state]
Return(p) == Become(p, Idle)

\* System calls the library does not intercept.
Creat(p, n) ==
    /\ dir[n] = NoFile
    /\ \/ Ready(p, "creat") /\ NewFile(n, "reg", 0, Fresh("reg"))
       \/ Ready(p, "mkdir") /\ NewFile(n, "dir", 0, Fresh("dir"))
       \/ Ready(p, "symlink") /\ NewFile(n, "lnk", 0, Fresh("lnk"))
    /\ UNCHANGED <<scene, fd, entry, proc>>

Link(p, n, to) ==
    /\ Ready(p, "link")
    /\ dir[n] # NoFile /\ type[dir[n]] # "dir" /\ dir[to] = NoFile
    /\ dir' = [dir EXCEPT ![to] = dir[n]]
    /\ UNCHANGED <<scene, type, perm, fd, entry, proc, truth>>

Open(p, n) ==
    /\ Ready(p, "open")
    /\ fd[p] = NoFile /\ Follow(n) # NoFile
    /\ fd' = [fd EXCEPT ![p] = Follow(n)]
    /\ UNCHANGED <<scene, dir, type, perm, entry, proc, truth>>

Close(p) ==
    /\ Ready(p, "open") /\ fd[p] # NoFile
    /\ fd' = [fd EXCEPT ![p] = NoFile]
    /\ UNCHANGED <<scene, dir, perm, entry, proc>>
    /\ Reap
-----------------------------------------------------------------------------
(***************************************************************************)
(* chown, chmod and setxattr: stat the file, then record.                  *)
(***************************************************************************)
Statted(call, n, i) ==
    [Idle EXCEPT !.call = call, !.name = n, !.key = i, !.mode = StMode(i)]

\* source.stat(): by path, by path without following, by descriptor.
Source(p, call, n) ==
    CASE call \in {"fchown", "fchmod", "fstat"} -> fd[p]
      [] call \in {"lchown", "lstat"} -> dir[n]
      [] OTHER -> Follow(n)

RecordChown(p, n) ==
    /\ \E call \in {"chown", "lchown", "fchown"}, ids \in Chowns :
          /\ Ready(p, call) /\ Source(p, call, n) # NoFile
          /\ Become(p, [Statted(call, n, Source(p, call, n)) EXCEPT
                           !.pc = "upsert", !.ids = ids])
    /\ UNCHANGED <<files, entry, truth>>

Chowned(inode, ids) == MergeChown(inode, ids[1], ids[2])

\* record_chown_key: one operation on the map.
UpsertChown(p) ==
    LET i == proc[p].key
        old == IF entry[i] = Absent THEN New(Current[1], Current[2]) ELSE entry[i]
    IN  /\ proc[p].pc = "upsert"
        /\ entry' = [entry EXCEPT ![i] = Chowned(old, proc[p].ids)]
        /\ truth' = [truth EXCEPT ![i] =
               IF @ = Absent THEN @ ELSE MergeChown(@, proc[p].ids[1], proc[p].ids[2])]
        /\ Return(p)
        /\ UNCHANGED files

RecordChmod(p, n) ==
    /\ \E call \in {"chmod", "fchmod"}, m \in scene.perms :
          /\ Ready(p, call) /\ Source(p, call, n) # NoFile
          /\ Become(p, [Statted(call, n, Source(p, call, n)) EXCEPT
                           !.pc = "get", !.perm = m])
    /\ UNCHANGED <<files, entry, truth>>

SetXattr(p, n) ==
    /\ \E call \in {"setxattr", "removexattr"}, x \in Xattrs :
          /\ Ready(p, call) /\ Source(p, call, n) # NoFile
          /\ call = "removexattr" <=> x = NoXattrs
          /\ Become(p, [Statted(call, n, Source(p, call, n)) EXCEPT
                           !.pc = "get", !.xattrs = x])
    /\ UNCHANGED <<files, entry, truth>>

\* Faulty variant: the entry is taken out of the map while it is changed.
GetInode_Takes(p) ==
    /\ proc[p].pc = "get"
    /\ Become(p, [proc[p] EXCEPT !.pc = "set",
                     !.inode = IF entry[proc[p].key] = Absent THEN @
                               ELSE entry[proc[p].key]])
    /\ entry' = [entry EXCEPT ![proc[p].key] = Absent]
    /\ UNCHANGED <<files, truth>>

\* update_inode reads the entry, or starts one with the current ids ...
GetInode(p) ==
    /\ proc[p].pc = "get"
    /\ Become(p, [proc[p] EXCEPT !.pc = "set",
                     !.inode = IF entry[proc[p].key] = Absent THEN @
                               ELSE entry[proc[p].key]])
    /\ UNCHANGED <<files, entry, truth>>

\* Faulty variant: the old permission bits are not masked out.
compose_mode_Unmasked(real, requested) == real + requested
compose_mode(real, requested) == (real \div ALLPERMS) * ALLPERMS + requested

\* ... changes one field, and stores it whole.
SetInode(p) ==
    LET i == proc[p].key
        chmod == proc[p].call \in {"chmod", "fchmod"}
        Changed(inode, real) ==
            IF chmod THEN [inode EXCEPT !.mode = compose_mode(real, proc[p].perm)]
            ELSE [inode EXCEPT !.xattrs = proc[p].xattrs]
        Due(inode) ==
            IF chmod
            THEN [inode EXCEPT !.mode = (@ \div ALLPERMS) * ALLPERMS + proc[p].perm]
            ELSE [inode EXCEPT !.xattrs = proc[p].xattrs]
    IN  /\ proc[p].pc = "set"
        /\ entry' = [entry EXCEPT ![i] = Changed(proc[p].inode, proc[p].mode)]
        /\ truth' = [truth EXCEPT ![i] = IF @ = Absent THEN @ ELSE Due(@)]
        /\ IF chmod THEN Become(p, [proc[p] EXCEPT !.pc = "chmod"]) ELSE Return(p)
        /\ UNCHANGED files

\* The real chmod follows; whether it is refused is not reported.
RealChmod(p) ==
    LET i == Source(p, proc[p].call, proc[p].name) IN
    /\ proc[p].pc = "chmod"
    /\ \/ i # NoFile /\ perm' = [perm EXCEPT ![i] = proc[p].perm]
       \/ UNCHANGED perm
    /\ Return(p)
    /\ UNCHANGED <<scene, dir, type, fd, entry, truth>>
-----------------------------------------------------------------------------
(***************************************************************************)
(* mknod: a regular file stands in for the node.                           *)
(***************************************************************************)
\* Faulty variant: any node has a device number.
Recorded_Rdev(k, m) ==
    [New(Current[1], Current[2]) EXCEPT !.mode = TypeBits[k] + m, !.rdev = Dev]

\* finish_fake_mknod records the mode as passed, and dev for a device.
Recorded(k, m) ==
    [New(Current[1], Current[2]) EXCEPT !.mode = TypeBits[k] + m,
                                        !.rdev = IF k = "chr" THEN Dev ELSE None]

\* What root would have got: a mode without type makes a regular file, and the
\* umask is applied.
MadeType(k) == IF k = "none" THEN "reg" ELSE k
Made(k, m) ==
    [New(Current[1], Current[2]) EXCEPT
        !.mode = TypeBits[MadeType(k)] + scene.umask[m],
        !.rdev = IF k = "chr" THEN Dev ELSE None]

\* open(O_WRONLY | O_CREAT) finds a file, through a link too, or makes one;
\* root's mknod makes a node, or fails on a name that is taken.  Where the open
\* fails the name is taken (a directory, a loop), and so the real mknod that
\* follows fails and nothing has changed.
MknodOpen(p, n) ==
    LET at == IF IsLink(dir[n]) THEN Target ELSE n IN
    \E k \in scene.nodes, m \in scene.perms :
        /\ Ready(p, "mknod") /\ (scene.refused \/ dir[n] = NoFile)
        /\ \/ dir[at] = NoFile /\ NewFile(at, "reg", 0, Made(k, m))
           \/ /\ dir[at] # NoFile /\ type[dir[at]] = "reg"
              /\ UNCHANGED <<dir, type, perm, truth>>
        /\ Become(p, [Idle EXCEPT !.pc = "stat", !.call = "mknod", !.name = n,
                                  !.node = k, !.perm = m])
        /\ UNCHANGED <<scene, fd, entry>>

MknodStat(p) ==
    LET i == Follow(proc[p].name) IN
    /\ proc[p].pc = "stat" /\ i # NoFile
    /\ Become(p, [proc[p] EXCEPT !.pc = "mknod", !.key = i])
    /\ UNCHANGED <<files, entry, truth>>

\* The file has gone before the stat, so the real mknod is called, which makes
\* anything but a device without privileges.
MknodFalls(p) ==
    LET n == proc[p].name
        k == proc[p].node
        m == proc[p].perm
    IN  /\ proc[p].pc = "stat" /\ Follow(n) = NoFile
        /\ \/ /\ dir[n] = NoFile /\ k # "chr"
              /\ NewFile(n, MadeType(k), scene.umask[m], Made(k, m))
           \/ /\ dir[n] # NoFile \/ k = "chr"
              /\ UNCHANGED <<dir, type, perm, truth>>
        /\ Return(p)
        /\ UNCHANGED <<scene, fd, entry>>

MknodSet(p) ==
    /\ proc[p].pc = "mknod"
    /\ entry' = [entry EXCEPT ![proc[p].key] = Recorded(proc[p].node, proc[p].perm)]
    /\ Return(p)
    /\ UNCHANGED <<files, truth>>
-----------------------------------------------------------------------------
(***************************************************************************)
(* unlink, rmdir and rename: drop the entry of a file that is about to     *)
(* lose its last name, then make the real call.                            *)
(***************************************************************************)
\* What the kernel accepts: unlink does not remove a directory, rmdir nothing
\* else, and a directory and a file do not replace each other; RENAME_NOREPLACE
\* wants the new name free, RENAME_EXCHANGE taken.
IsDir(n) == type[dir[n]] = "dir"
CanUnlink(call, n) ==
    call \in {"unlink", "rmdir"} /\ dir[n] # NoFile /\ (call = "rmdir" <=> IsDir(n))
CanRename(call, n, to) ==
    /\ call \in Renames /\ dir[n] # NoFile
    /\ call = "rename" /\ dir[to] # NoFile => (IsDir(n) <=> IsDir(to))
    /\ call = "noreplace" => dir[to] = NoFile
    /\ call = "exchange" => dir[to] # NoFile

\* Faulty variant: the name about to go is not counted.
LastName_OffByOne(i) == StNlink(i) < 1
LastName(i) == StNlink(i) <= 1

\* maybe_remove_inode_path: unlink and rmdir stat the path following links.
MaybeRemove(p, n) ==
    /\ \E call \in {"unlink", "rmdir"} :
          /\ Ready(p, call) /\ (scene.refused \/ CanUnlink(call, n))
          /\ LET i == Follow(n) IN
             Become(p, [Idle EXCEPT !.call = call, !.name = n, !.key = i,
                           !.pc = IF i # NoFile /\ LastName(i) THEN "remove" ELSE "real"])
    /\ UNCHANGED <<files, entry, truth>>

\* prepare_rename_overwrite: stat the new path, then the old one; renameat2's
\* flags are not looked at.
PrepareRename(p, n, to) ==
    /\ \E call \in Renames :
          /\ Ready(p, call) /\ (scene.refused \/ CanRename(call, n, to))
          /\ LET i == Follow(to) IN
             Become(p, [Idle EXCEPT !.call = call, !.name = n, !.to = to, !.key = i,
                           !.pc = IF i # NoFile /\ LastName(i) THEN "statold" ELSE "real"])
    /\ UNCHANGED <<files, entry, truth>>

\* Faulty variant: renaming a file to itself counts as overwriting it.
StatOld_SameFile(p) ==
    /\ proc[p].pc = "statold"
    /\ Become(p, [proc[p] EXCEPT !.pc = "remove"])
    /\ UNCHANGED <<files, entry, truth>>

StatOld(p) ==
    /\ proc[p].pc = "statold"
    /\ Become(p, [proc[p] EXCEPT !.pc =
                     IF Follow(proc[p].name) = proc[p].key THEN "real" ELSE "remove"])
    /\ UNCHANGED <<files, entry, truth>>

RemoveInode(p) ==
    /\ proc[p].pc = "remove"
    /\ entry' = [entry EXCEPT ![proc[p].key] = Absent]
    /\ Become(p, [proc[p] EXCEPT !.pc = "real"])
    /\ UNCHANGED <<files, truth>>

RealUnlink(p) ==
    LET n == proc[p].name IN
    /\ proc[p].pc = "real" /\ CanUnlink(proc[p].call, n)
    /\ dir' = [dir EXCEPT ![n] = NoFile]
    /\ Return(p)
    /\ UNCHANGED <<scene, perm, fd, entry>>
    /\ Reap

RealRename(p) ==
    LET n == proc[p].name
        to == proc[p].to
        call == proc[p].call
    IN  /\ proc[p].pc = "real" /\ CanRename(call, n, to)
        /\ dir' = IF dir[n] = dir[to] THEN dir
                  ELSE [dir EXCEPT ![to] = dir[n],
                                   ![n] = IF call = "exchange" THEN dir[to] ELSE NoFile]
        /\ Return(p)
        /\ UNCHANGED <<scene, perm, fd, entry>>
        /\ Reap

\* What the real call needs still holds.
Can(p) == CanUnlink(proc[p].call, proc[p].name)
          \/ CanRename(proc[p].call, proc[p].name, proc[p].to)

\* The call is refused, or another process has changed the directory since.
RealFails(p) ==
    /\ proc[p].pc = "real" /\ (scene.refused \/ ~ Can(p))
    /\ Return(p)
    /\ UNCHANGED <<files, entry, truth>>
-----------------------------------------------------------------------------
(***************************************************************************)
(* stat: make the real call, then look its inode number up.                *)
(***************************************************************************)
\* The call in progress carries, as history, what root would be told.
Stat(p, n, call, i) ==
    /\ Ready(p, call) /\ Source(p, call, n) # NoFile /\ i # NoFile
    /\ Become(p, [Statted(call, n, i) EXCEPT
                     !.pc = "patch", !.inode = truth[Source(p, call, n)]])
    /\ UNCHANGED <<files, entry, truth>>

RealStat(p, n) ==
    \E call \in {"stat", "lstat", "fstat"} : Stat(p, n, call, Source(p, call, n))

\* patch_inode_fields, or apply_default_ownership.
Patched(mode, inode) ==
    IF inode = Absent THEN [New(Current[1], Current[2]) EXCEPT !.mode = mode]
    ELSE [inode EXCEPT !.mode = IF @ = None THEN mode ELSE @]

\* modify_stat_buf.
Seen(p) == Patched(proc[p].mode, entry[proc[p].key])

ModifyStat(p) ==
    /\ proc[p].pc = "patch"
    /\ Return(p)
    /\ UNCHANGED <<files, entry, truth>>
-----------------------------------------------------------------------------
Next ==
    \E p \in Procs :
       \/ \E n \in scene.own[p] :
             \/ Creat(p, n) \/ Open(p, n)
             \/ RecordChown(p, n) \/ RecordChmod(p, n) \/ SetXattr(p, n)
             \/ MknodOpen(p, n) \/ MaybeRemove(p, n)
             \/ \E to \in scene.own[p] : Link(p, n, to) \/ PrepareRename(p, n, to)
       \/ \E n \in scene.own[p] \cup scene.reads[p] : RealStat(p, n)
       \/ Close(p) \/ UpsertChown(p) \/ GetInode(p) \/ SetInode(p) \/ RealChmod(p)
       \/ MknodStat(p) \/ MknodFalls(p) \/ MknodSet(p)
       \/ StatOld(p) \/ RemoveInode(p) \/ ModifyStat(p)
       \/ RealUnlink(p) \/ RealRename(p) \/ RealFails(p)

Spec == Init /\ [][Next]_vars
-----------------------------------------------------------------------------
(***************************************************************************)
(* Properties.                                                             *)
(***************************************************************************)
\* What stat and getxattr report of a file nobody changes.
Shown(i) == Patched(StMode(i), entry[i])

\* Once the calls on its names have returned, a file shows the metadata root
\* would have given it: what was done to it under any of its names and
\* nothing that was done to another file, be it one that had its inode number
\* before, was renamed over, or is changed by another process meanwhile.  A
\* call that is refused may have dropped an entry before.
Faithful ==
    ~ scene.refused =>
      \A n \in Names :
        dir[n] # NoFile /\ (\A p \in Procs : n \in scene.own[p] => proc[p].pc = "idle")
            => Shown(dir[n]) = truth[dir[n]]

\* What stat reports is what root would be told of the file, when it is asked for
\* or when it is reported, although other processes change the file, its entry and
\* its real permissions between the real call and the lookup.
StatFaithful ==
    ~ scene.refused =>
      \A p \in Procs :
        proc[p].pc = "patch" =>
          LET now == Source(p, proc[p].call, proc[p].name) IN
          Seen(p) \in {proc[p].inode} \cup (IF now = NoFile THEN {} ELSE {truth[now]})

\* A free inode number has no entry, so the next file that gets it does not
\* inherit one.
NoGhost == \A i \in Keys : type[i] = "free" => entry[i] = Absent
=============================================================================
