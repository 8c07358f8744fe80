--------------------------- MODULE Ownership_proofs ---------------------------
(***************************************************************************)
(* Proofs about Ownership for any number of processes, names and inode     *)
(* numbers: types in every scene and, in scenes in which processes change  *)
(* files of different names and that leave out the calls known to go       *)
(* wrong, that no inode number keeps the metadata of a file that is gone,  *)
(* that a file shows the metadata root would have given it, and that stat  *)
(* reports it.                                                             *)
(***************************************************************************)
EXTENDS Ownership, FiniteSetTheorems, TLAPS

-----------------------------------------------------------------------------
(***************************************************************************)
(* Type correctness.                                                       *)
(***************************************************************************)
\* A mode that a file of a type can have.
ModeOf(t, mode) == \E m \in Perms : mode = TypeBits[t] + m

\* The mode of what mknod puts a regular file for.
NodeMode(t, mode) ==
    /\ t = "reg" /\ "mknod" \in scene.kinds
    /\ \E k \in scene.nodes : ModeOf(MadeType(k), mode)

\* A file has metadata, and the mode of its type or, from mknod, that of a node.
FilesTyped ==
    /\ \A i \in Keys : type[i] = "free" <=> truth[i] = Absent
    /\ \A n \in Names : dir[n] # NoFile => type[dir[n]] # "free"
    /\ \A p \in Procs : fd[p] # NoFile => type[fd[p]] # "free" /\ "open" \in scene.kinds
    /\ \A i \in Keys : type[i] # "free" =>
          ModeOf(type[i], truth[i].mode) \/ NodeMode(type[i], truth[i].mode)

\* A call that changes the entry of a file, or looks it up, has found the file.
Knowing == {"upsert", "get", "set", "mknod", "statold", "remove", "patch"}

WorkTyped(p) ==
    /\ proc[p].pc \in Knowing =>
          proc[p].key # NoFile
    /\ proc[p].pc \in {"get", "set"} => \E t \in Types : ModeOf(t, proc[p].mode)

TypeInv == TypeOK /\ FilesTyped /\ \A p \in Procs : WorkTyped(p)

LEMMA BitsAre ==
    /\ TypeBits["reg"] = 8 /\ TypeBits["dir"] = 16
    /\ TypeBits["lnk"] = 24 /\ TypeBits["chr"] = 32 /\ TypeBits["fifo"] = 40
  BY DEF TypeBits

LEMMA PermsAre == Perms \subseteq 0 .. 7 /\ 0 \in Perms
  BY OwnershipAssumption DEF ALLPERMS

LEMMA ModeTyped ==
    ASSUME NEW t \in Types, NEW mode, ModeOf(t, mode)
    PROVE  mode \in Modes /\ mode \in Nat /\ mode # None
<1>1. mode \in Modes
  BY OwnershipAssumption DEF ModeOf
<1> QED BY <1>1, FakeInodesAssumption

\* A mode of a type, with other permissions.
LEMMA Composed ==
    ASSUME NEW t \in Types, NEW mode, ModeOf(t, mode), NEW m \in Perms
    PROVE  ModeOf(t, (mode \div ALLPERMS) * ALLPERMS + m)
           /\ (mode \div ALLPERMS) * ALLPERMS = TypeBits[t]
<1>1. PICK r \in Perms : mode = TypeBits[t] + r
  BY DEF ModeOf
<1>2. r \in 0 .. 7
  BY PermsAre
<1>3. TypeBits[t] \in {8, 16, 24, 32, 40}
  BY BitsAre DEF Types
<1>4. (mode \div 8) * 8 = TypeBits[t]
  <2>1. CASE TypeBits[t] = 8
    BY <1>1, <1>2, <2>1
  <2>2. CASE TypeBits[t] = 16
    BY <1>1, <1>2, <2>2
  <2>3. CASE TypeBits[t] = 24
    BY <1>1, <1>2, <2>3
  <2>4. CASE TypeBits[t] = 32
    BY <1>1, <1>2, <2>4
  <2>5. CASE TypeBits[t] = 40
    BY <1>1, <1>2, <2>5
  <2> QED BY <1>3, <2>1, <2>2, <2>3, <2>4, <2>5
<1> QED BY <1>4 DEF ALLPERMS, ModeOf

LEMMA NewTyped == New(Current[1], Current[2]) \in FakeInode
<1>1. Current[1] \in Ids /\ Current[2] \in Ids
  BY OwnershipAssumption DEF Owners
<1> QED BY <1>1, FakeInodesAssumption DEF New, FakeInode

LEMMA FreshTyped ==
    ASSUME NEW t \in Types
    PROVE  Fresh(t) \in FakeInode /\ ModeOf(t, Fresh(t).mode) /\ Fresh(t) # Absent
<1>1. ModeOf(t, TypeBits[t])
  BY PermsAre, BitsAre DEF ModeOf, Types
<1>2. TypeBits[t] \in Modes
  BY <1>1, ModeTyped
<1>3. Fresh(t) \in FakeInode
  BY <1>2, NewTyped DEF Fresh, New, FakeInode
<1>4. Fresh(t).mode = TypeBits[t]
  BY DEF Fresh, New
<1> QED BY <1>1, <1>3, <1>4, ReplyAssumption

LEMMA RecordedTyped ==
    ASSUME NEW k \in Nodes, NEW m \in Perms
    PROVE  Recorded(k, m) \in FakeInode /\ Recorded(k, m).mode # None
           /\ Recorded(k, m) # Absent
<1>1. Recorded(k, m).mode = TypeBits[k] + m
  BY DEF Recorded, New
<1>2. TypeBits[k] + m \in Modes
  BY OwnershipAssumption DEF Nodes, Types
<1>3. Dev \in Rdevs
  BY OwnershipAssumption
<1>4. Recorded(k, m) \in FakeInode
  BY <1>2, <1>3, NewTyped DEF Recorded, New, FakeInode
<1> QED BY <1>1, <1>2, <1>4, FakeInodesAssumption, ReplyAssumption

LEMMA UmaskTyped ==
    ASSUME scene \in Scenes, NEW m \in Perms
    PROVE  scene.umask[m] \in Perms
  BY OwnershipAssumption DEF Scene

LEMMA NodesTyped ==
    ASSUME scene \in Scenes, NEW k \in scene.nodes
    PROVE  MadeType(k) \in Types
  BY OwnershipAssumption DEF Scene, Nodes, MadeType, Types

LEMMA MadeTyped ==
    ASSUME scene \in Scenes, NEW k \in Nodes, NEW m \in Perms
    PROVE  /\ MadeType(k) \in Types /\ Made(k, m) \in FakeInode
           /\ ModeOf(MadeType(k), Made(k, m).mode) /\ Made(k, m) # Absent
<1>1. Made(k, m).mode = TypeBits[MadeType(k)] + scene.umask[m]
  BY DEF Made, New
<1>2. MadeType(k) \in Types
  BY DEF MadeType, Nodes, Types
<1>3. ModeOf(MadeType(k), Made(k, m).mode)
  BY <1>1, UmaskTyped DEF ModeOf
<1>4. TypeBits[MadeType(k)] + scene.umask[m] \in Modes
  BY <1>1, <1>2, <1>3, ModeTyped
<1>5. Dev \in Rdevs
  BY OwnershipAssumption
<1>6. Made(k, m) \in FakeInode
  BY <1>4, <1>5, NewTyped DEF Made, New, FakeInode
<1> QED BY <1>2, <1>3, <1>6, ReplyAssumption

LEMMA MergeTyped ==
    ASSUME NEW inode \in FakeInode, NEW ids \in Chowns \cup {Current}
    PROVE  MergeChown(inode, ids[1], ids[2]) \in FakeInode
           /\ MergeChown(inode, ids[1], ids[2]).mode = inode.mode
<1>1. ids \in ChownIds
  BY OwnershipAssumption DEF Owners, ChownIds
<1>2. IdOr(ids[1], inode.uid) \in Ids /\ IdOr(ids[2], inode.gid) \in Ids
  BY <1>1 DEF ChownIds, IdOr, FakeInode
<1> QED BY <1>2 DEF MergeChown, FakeInode

LEMMA IdleTyped ==
    ASSUME TypeOK
    PROVE  Idle \in Proc /\ Idle.pc = "idle"
<1>1. NoXattrs \in Xattrs /\ Target \in Names /\ 0 \in Perms
  BY FakeInodesAssumption, OwnershipAssumption
<1> QED BY <1>1, NewTyped DEF Idle, Proc, Nodes

\* The stat buffer of a file, on which a call goes on.
LEMMA StattedTyped ==
    ASSUME TypeInv, NEW call \in scene.kinds, NEW n \in Names, NEW i \in Keys,
           type[i] # "free"
    PROVE  /\ Statted(call, n, i) \in Proc
           /\ type[i] \in Types /\ ModeOf(type[i], StMode(i))
           /\ Statted(call, n, i).key = i /\ Statted(call, n, i).mode = StMode(i)
<1>1. type[i] \in Types /\ perm[i] \in Perms
  BY DEF TypeInv, TypeOK
<1>2. ModeOf(type[i], StMode(i))
  BY <1>1 DEF StMode, ModeOf
<1>3. StMode(i) \in Modes
  BY <1>1, <1>2, ModeTyped
<1>4. Idle \in Proc
  BY IdleTyped DEF TypeInv
<1>5. /\ Statted(call, n, i) \in Proc
      /\ Statted(call, n, i).key = i /\ Statted(call, n, i).mode = StMode(i)
  BY <1>3, <1>4 DEF Statted, Proc
<1> QED BY <1>1, <1>2, <1>5

\* What a name leads to is a file, if there is one.
LEMMA SourceTyped ==
    ASSUME TypeInv, NEW p \in Procs, NEW n \in Names, NEW call,
           Source(p, call, n) # NoFile
    PROVE  Source(p, call, n) \in Keys /\ type[Source(p, call, n)] # "free"
<1>1. dir[n] # NoFile => dir[n] \in Keys /\ type[dir[n]] # "free"
  BY DEF TypeInv, TypeOK, FilesTyped
<1>2. dir[Target] # NoFile => dir[Target] \in Keys /\ type[dir[Target]] # "free"
  BY OwnershipAssumption DEF TypeInv, TypeOK, FilesTyped
<1>3. fd[p] # NoFile => fd[p] \in Keys /\ type[fd[p]] # "free"
  BY DEF TypeInv, TypeOK, FilesTyped
<1>4. Follow(n) # NoFile => Follow(n) \in Keys /\ type[Follow(n)] # "free"
  BY <1>1, <1>2 DEF Follow
<1> QED BY <1>1, <1>3, <1>4 DEF Source

LEMMA FollowTyped ==
    ASSUME TypeInv, NEW n \in Names, Follow(n) # NoFile
    PROVE  Follow(n) \in Keys /\ type[Follow(n)] # "free"
<1>1. dir[n] # NoFile => dir[n] \in Keys /\ type[dir[n]] # "free"
  BY DEF TypeInv, TypeOK, FilesTyped
<1>2. dir[Target] # NoFile => dir[Target] \in Keys /\ type[dir[Target]] # "free"
  BY OwnershipAssumption DEF TypeInv, TypeOK, FilesTyped
<1> QED BY <1>1, <1>2 DEF Follow

LEMMA TypeInit == Init => TypeInv
<1> SUFFICES ASSUME Init PROVE TypeInv
  OBVIOUS
<1>1. scene \in Scenes /\ Idle \in Proc
  <2>1. NoXattrs \in Xattrs /\ Target \in Names /\ 0 \in Perms
    BY FakeInodesAssumption, OwnershipAssumption
  <2> QED BY <2>1, NewTyped DEF Init, Idle, Proc, Nodes
<1>2. TypeOK
  BY <1>1, PermsAre DEF Init, TypeOK
<1>3. FilesTyped
  BY DEF Init, FilesTyped
<1>4. \A p \in Procs : WorkTyped(p)
  BY DEF Init, WorkTyped, Knowing, Idle
<1> QED BY <1>2, <1>3, <1>4 DEF TypeInv

\* A call goes on, and changes nothing that others see.
LEMMA TypeMoves ==
    ASSUME TypeInv, NEW p \in Procs, NEW state \in Proc, Become(p, state),
           UNCHANGED <<files, entry, truth>>,
           state.pc \in Knowing =>
               state.key # NoFile,
           state.pc \in {"get", "set"} => \E t \in Types : ModeOf(t, state.mode)
    PROVE  TypeInv'
<1>1. UNCHANGED <<scene, dir, type, perm, fd, entry, truth>>
      /\ proc' = [proc EXCEPT ![p] = state]
  BY DEF files, Become
<1>2. TypeOK'
  BY <1>1 DEF TypeInv, TypeOK, Proc
<1>3. FilesTyped'
  BY <1>1 DEF TypeInv, FilesTyped, ModeOf, NodeMode
<1>4. proc'[p] = state /\ \A q \in Procs \ {p} : proc'[q] = proc[q]
  BY <1>1 DEF TypeInv, TypeOK
<1>5. \A q \in Procs : WorkTyped(q)'
  BY <1>4 DEF TypeInv, WorkTyped, ModeOf
<1> QED BY <1>2, <1>3, <1>5 DEF TypeInv

\* A call returns, and has changed nothing that others see.
LEMMA TypeReturns ==
    ASSUME TypeInv, NEW p \in Procs, Return(p), UNCHANGED <<files, entry, truth>>
    PROVE  TypeInv'
  BY IdleTyped, TypeMoves DEF TypeInv, Return, Knowing

\* A call changes the entry of a file, and root would have changed its metadata.
LEMMA TypeWork ==
    ASSUME TypeInv, NEW p \in Procs, NEW state \in Proc, Become(p, state), UNCHANGED files,
           state.pc \notin Knowing,
           NEW i \in Keys, entry' \in [Keys -> FakeInode \cup {Absent}],
           NEW new, truth' = [truth EXCEPT ![i] = new],
           truth[i] = Absent => new = Absent,
           truth[i] # Absent => /\ new \in FakeInode
                                /\ \A t \in Types : ModeOf(t, truth[i].mode) => ModeOf(t, new.mode)
    PROVE  TypeInv'
<1>1. UNCHANGED <<scene, dir, type, perm, fd>> /\ proc' = [proc EXCEPT ![p] = state]
  BY DEF files, Become
<1>2. truth' \in [Keys -> FakeInode \cup {Absent}]
  BY DEF TypeInv, TypeOK
<1>3. TypeOK'
  BY <1>1, <1>2 DEF TypeInv, TypeOK, Proc
<1>4. truth'[i] = new /\ \A j \in Keys \ {i} : truth'[j] = truth[j]
  BY DEF TypeInv, TypeOK
<1>5. \A j \in Keys : truth'[j] = Absent <=> truth[j] = Absent
  BY <1>4, ReplyAssumption
<1>6. \A j \in Keys, t \in Types :
         truth[j] # Absent /\ ModeOf(t, truth[j].mode) => ModeOf(t, truth'[j].mode)
  BY <1>4
<1>7. FilesTyped'
  <2>1. ASSUME NEW j \in Keys, type[j] # "free"
        PROVE  ModeOf(type[j], truth'[j].mode) \/ NodeMode(type[j], truth'[j].mode)
    <3>1. type[j] \in Types /\ truth[j] # Absent
      BY <2>1 DEF TypeInv, TypeOK, FilesTyped
    <3> QED BY <1>6, <2>1, <3>1, NodesTyped DEF TypeInv, TypeOK, FilesTyped, NodeMode
  <2>2. \A j \in Keys : type'[j] # "free" =>
           ModeOf(type[j], truth'[j].mode) \/ NodeMode(type[j], truth'[j].mode)
    BY <1>1, <2>1
  <2> QED BY <1>1, <1>5, <2>2 DEF TypeInv, FilesTyped, ModeOf, NodeMode
<1>8. proc'[p] = state /\ \A q \in Procs \ {p} : proc'[q] = proc[q]
  BY <1>1 DEF TypeInv, TypeOK
<1>9. \A q \in Procs : WorkTyped(q)'
  BY <1>8 DEF TypeInv, WorkTyped, ModeOf, Knowing
<1> QED BY <1>3, <1>7, <1>9 DEF TypeInv

LEMMA Started ==
    ASSUME TypeInv, NEW p \in Procs, NEW n \in scene.own[p]
    PROVE  /\ n \in Names /\ scene.perms \subseteq Perms /\ scene.inodes \subseteq Keys
           /\ scene.nodes \subseteq Nodes
  BY OwnershipAssumption DEF TypeInv, TypeOK, Scene

LEMMA TypeRecordChown ==
    ASSUME TypeInv, NEW p \in Procs, NEW n \in scene.own[p], RecordChown(p, n)
    PROVE  TypeInv'
<1>1. PICK call \in {"chown", "lchown", "fchown"}, ids \in Chowns :
         /\ Ready(p, call) /\ Source(p, call, n) # NoFile
         /\ Become(p, [Statted(call, n, Source(p, call, n)) EXCEPT
                          !.pc = "upsert", !.ids = ids])
  BY DEF RecordChown
<1> DEFINE i == Source(p, call, n)
           state == [Statted(call, n, i) EXCEPT !.pc = "upsert", !.ids = ids]
<1>2. n \in Names /\ call \in scene.kinds
  BY <1>1, Started DEF Ready
<1>3. i \in Keys /\ type[i] # "free"
  BY <1>1, <1>2, SourceTyped
<1> HIDE DEF i
<1>4. Statted(call, n, i) \in Proc /\ Statted(call, n, i).key = i
  BY <1>2, <1>3, StattedTyped
<1>5. state \in Proc /\ state.key = i /\ state.pc = "upsert"
  BY <1>4 DEF Proc
<1>6. Become(p, state) /\ i # NoFile /\ UNCHANGED <<files, entry, truth>>
  BY <1>1 DEF i, RecordChown
<1> HIDE DEF state
<1> QED BY <1>5, <1>6, TypeMoves

LEMMA TypeRecordChmod ==
    ASSUME TypeInv, NEW p \in Procs, NEW n \in scene.own[p], RecordChmod(p, n)
    PROVE  TypeInv'
<1>1. PICK call \in {"chmod", "fchmod"}, m \in scene.perms :
         /\ Ready(p, call) /\ Source(p, call, n) # NoFile
         /\ Become(p, [Statted(call, n, Source(p, call, n)) EXCEPT
                          !.pc = "get", !.perm = m])
  BY DEF RecordChmod
<1> DEFINE i == Source(p, call, n)
           state == [Statted(call, n, i) EXCEPT !.pc = "get", !.perm = m]
<1>2. n \in Names /\ call \in scene.kinds /\ m \in Perms
  BY <1>1, Started DEF Ready
<1>3. i \in Keys /\ type[i] # "free"
  BY <1>1, <1>2, SourceTyped
<1> HIDE DEF i
<1>4. /\ Statted(call, n, i) \in Proc /\ Statted(call, n, i).key = i
      /\ \E t \in Types : ModeOf(t, Statted(call, n, i).mode)
  BY <1>2, <1>3, StattedTyped
<1>5. /\ state \in Proc /\ state.key = i /\ state.pc = "get"
      /\ state.mode = Statted(call, n, i).mode
  BY <1>2, <1>4 DEF Proc
<1>6. Become(p, state) /\ i # NoFile /\ UNCHANGED <<files, entry, truth>>
  BY <1>1 DEF i, RecordChmod
<1> HIDE DEF state
<1> QED BY <1>4, <1>5, <1>6, TypeMoves

LEMMA TypeSetXattr ==
    ASSUME TypeInv, NEW p \in Procs, NEW n \in scene.own[p], SetXattr(p, n)
    PROVE  TypeInv'
<1>1. PICK call \in {"setxattr", "removexattr"}, x \in Xattrs :
         /\ Ready(p, call) /\ Source(p, call, n) # NoFile
         /\ Become(p, [Statted(call, n, Source(p, call, n)) EXCEPT
                          !.pc = "get", !.xattrs = x])
  BY DEF SetXattr
<1> DEFINE i == Source(p, call, n)
           state == [Statted(call, n, i) EXCEPT !.pc = "get", !.xattrs = x]
<1>2. n \in Names /\ call \in scene.kinds
  BY <1>1, Started DEF Ready
<1>3. i \in Keys /\ type[i] # "free"
  BY <1>1, <1>2, SourceTyped
<1> HIDE DEF i
<1>4. /\ Statted(call, n, i) \in Proc /\ Statted(call, n, i).key = i
      /\ \E t \in Types : ModeOf(t, Statted(call, n, i).mode)
  BY <1>2, <1>3, StattedTyped
<1>5. /\ state \in Proc /\ state.key = i /\ state.pc = "get"
      /\ state.mode = Statted(call, n, i).mode
  BY <1>2, <1>4 DEF Proc
<1>6. Become(p, state) /\ i # NoFile /\ UNCHANGED <<files, entry, truth>>
  BY <1>1 DEF i, SetXattr
<1> HIDE DEF state
<1> QED BY <1>4, <1>5, <1>6, TypeMoves

LEMMA Stats ==
    ASSUME TypeInv, NEW p \in Procs, NEW n \in scene.own[p] \cup scene.reads[p]
    PROVE  n \in Names
  BY OwnershipAssumption DEF TypeInv, TypeOK, Scene

LEMMA TypeRealStat ==
    ASSUME TypeInv, NEW p \in Procs, NEW n \in scene.own[p] \cup scene.reads[p],
           RealStat(p, n)
    PROVE  TypeInv'
<1>1. PICK call \in {"stat", "lstat", "fstat"} :
         /\ Ready(p, call) /\ Source(p, call, n) # NoFile
         /\ Become(p, [Statted(call, n, Source(p, call, n)) EXCEPT
                          !.pc = "patch", !.inode = truth[Source(p, call, n)]])
         /\ UNCHANGED <<files, entry, truth>>
  BY DEF RealStat, Stat
<1> DEFINE i == Source(p, call, n)
           state == [Statted(call, n, i) EXCEPT !.pc = "patch", !.inode = truth[i]]
<1>2. n \in Names /\ call \in scene.kinds
  BY <1>1, Stats DEF Ready
<1>3. i \in Keys /\ type[i] # "free"
  BY <1>1, <1>2, SourceTyped
<1>n. i # NoFile /\ Become(p, state) /\ UNCHANGED <<files, entry, truth>>
  BY <1>1
<1> HIDE DEF i
<1>4. Statted(call, n, i) \in Proc /\ Statted(call, n, i).key = i
  BY <1>2, <1>3, StattedTyped
<1>5. truth[i] \in FakeInode
  BY <1>3 DEF TypeInv, TypeOK, FilesTyped
<1>6. state \in Proc /\ state.key = i /\ state.pc = "patch"
  BY <1>4, <1>5 DEF Proc
<1> HIDE DEF state
<1> QED BY <1>n, <1>6, TypeMoves

\* The steps of a call that only look.
LEMMA TypeLooks ==
    ASSUME TypeInv, NEW p \in Procs,
           GetInode(p) \/ MknodStat(p) \/ StatOld(p) \/ RealFails(p) \/ ModifyStat(p)
    PROVE  TypeInv'
<1>0. /\ UNCHANGED <<files, entry, truth>> /\ proc[p] \in Proc /\ WorkTyped(p)
      /\ entry \in [Keys -> FakeInode \cup {Absent}]
  BY DEF GetInode, MknodStat, StatOld, RealFails, ModifyStat, TypeInv, TypeOK
<1>1. CASE GetInode(p)
  <2>1. PICK inode : /\ proc[p].pc = "get"
                     /\ inode = IF entry[proc[p].key] = Absent THEN proc[p].inode
                                ELSE entry[proc[p].key]
                     /\ Become(p, [proc[p] EXCEPT !.pc = "set", !.inode = inode])
    BY <1>1 DEF GetInode
  <2>2. proc[p].key \in Keys
    BY <1>0, <2>1 DEF WorkTyped, Knowing, Proc
  <2>3. inode \in FakeInode
    BY <1>0, <2>1, <2>2 DEF Proc
  <2>4. [proc[p] EXCEPT !.pc = "set", !.inode = inode] \in Proc
    BY <1>0, <2>3 DEF Proc
  <2>5. PICK state : state = [proc[p] EXCEPT !.pc = "set", !.inode = inode]
    OBVIOUS
  <2>6. state.key # NoFile /\ \E t \in Types : ModeOf(t, state.mode)
    BY <1>0, <2>1, <2>5 DEF WorkTyped, Knowing, Proc
  <2>7. state \in Proc /\ Become(p, state)
    BY <2>1, <2>4, <2>5
  <2> QED BY <1>0, <2>6, <2>7, TypeMoves
<1>2. CASE MknodStat(p)
  <2>1. PICK i : i = Follow(proc[p].name)
    OBVIOUS
  <2>2. PICK state : state = [proc[p] EXCEPT !.pc = "mknod", !.key = i]
    OBVIOUS
  <2>3. Become(p, state) /\ i # NoFile
    BY <1>2, <2>1, <2>2 DEF MknodStat
  <2>4. i \in Keys
    BY <1>0, <2>1, <2>3, FollowTyped DEF Proc
  <2>5. state \in Proc /\ state.pc = "mknod" /\ state.key = i
    BY <1>0, <2>2, <2>4 DEF Proc
  <2> QED BY <1>0, <2>3, <2>5, TypeMoves
<1>3. CASE StatOld(p)
  <2>1. proc[p].key # NoFile
    BY <1>0, <1>3 DEF StatOld, WorkTyped, Knowing
  <2>2. PICK state : state = [proc[p] EXCEPT !.pc =
                        IF Follow(proc[p].name) = proc[p].key THEN "real" ELSE "remove"]
    OBVIOUS
  <2>3. state \in Proc /\ state.pc \in {"real", "remove"} /\ state.key = proc[p].key
    BY <1>0, <2>2 DEF Proc
  <2>4. Become(p, state)
    BY <1>3, <2>2 DEF StatOld
  <2> QED BY <1>0, <2>1, <2>3, <2>4, TypeMoves
<1>4. CASE RealFails(p)
  BY <1>0, <1>4, TypeReturns DEF RealFails
<1>5. CASE ModifyStat(p)
  BY <1>0, <1>5, TypeReturns DEF ModifyStat
<1> QED BY <1>1, <1>2, <1>3, <1>4, <1>5

LEMMA TypeMaybeRemove ==
    ASSUME TypeInv, NEW p \in Procs, NEW n \in scene.own[p], MaybeRemove(p, n)
    PROVE  TypeInv'
<1>1. PICK call \in {"unlink", "rmdir"}, pc \in {"remove", "real"} :
         /\ Ready(p, call) /\ (pc = "remove" => Follow(n) # NoFile)
         /\ Become(p, [Idle EXCEPT !.call = call, !.name = n, !.key = Follow(n), !.pc = pc])
         /\ UNCHANGED <<files, entry, truth>>
  BY DEF MaybeRemove
<1>2. n \in Names /\ call \in scene.kinds /\ Idle \in Proc
  BY <1>1, Started, IdleTyped DEF Ready, TypeInv
<1>3. PICK i \in Keys \cup {NoFile} : i = Follow(n)
  BY <1>2, FollowTyped
<1>4. PICK state : state = [Idle EXCEPT !.call = call, !.name = n, !.key = i, !.pc = pc]
  OBVIOUS
<1>5. state \in Proc /\ state.key = i /\ state.pc = pc
  BY <1>2, <1>4 DEF Proc
<1>6. Become(p, state)
  BY <1>1, <1>3, <1>4
<1>7. pc = "remove" => i # NoFile
  BY <1>1, <1>3
<1> QED BY <1>1, <1>5, <1>6, <1>7, TypeMoves DEF Knowing

LEMMA TypePrepareRename ==
    ASSUME TypeInv, NEW p \in Procs, NEW n \in scene.own[p], NEW to \in scene.own[p],
           PrepareRename(p, n, to)
    PROVE  TypeInv'
<1>1. PICK call \in Renames, pc \in {"statold", "real"} :
         /\ Ready(p, call) /\ (pc = "statold" => Follow(to) # NoFile)
         /\ Become(p, [Idle EXCEPT !.call = call, !.name = n, !.to = to,
                                   !.key = Follow(to), !.pc = pc])
         /\ UNCHANGED <<files, entry, truth>>
  BY DEF PrepareRename
<1>2. n \in Names /\ to \in Names /\ call \in scene.kinds /\ Idle \in Proc
  BY <1>1, Started, IdleTyped DEF Ready, TypeInv
<1>3. PICK i \in Keys \cup {NoFile} : i = Follow(to)
  BY <1>2, FollowTyped
<1>4. PICK state : state = [Idle EXCEPT !.call = call, !.name = n, !.to = to,
                                        !.key = i, !.pc = pc]
  OBVIOUS
<1>5. state \in Proc /\ state.key = i /\ state.pc = pc
  BY <1>2, <1>4 DEF Proc
<1>6. Become(p, state)
  BY <1>1, <1>3, <1>4
<1>7. pc = "statold" => i # NoFile
  BY <1>1, <1>3
<1> QED BY <1>1, <1>5, <1>6, <1>7, TypeMoves DEF Knowing

LEMMA TypeUpsertChown ==
    ASSUME TypeInv, NEW p \in Procs, UpsertChown(p)
    PROVE  TypeInv'
<1> DEFINE i == proc[p].key
           ids == proc[p].ids
           old == IF entry[i] = Absent THEN New(Current[1], Current[2]) ELSE entry[i]
           new == IF truth[i] = Absent THEN truth[i] ELSE MergeChown(truth[i], ids[1], ids[2])
<1>1. /\ proc[p].pc = "upsert" /\ Return(p) /\ UNCHANGED files
      /\ entry' = [entry EXCEPT ![i] = MergeChown(old, ids[1], ids[2])]
      /\ truth' = [truth EXCEPT ![i] = new]
  BY DEF UpsertChown, Chowned
<1>2. i \in Keys /\ ids \in Chowns \cup {Current}
  BY <1>1 DEF TypeInv, TypeOK, Proc, WorkTyped, Knowing
<1>3. old \in FakeInode
  BY <1>2, NewTyped DEF TypeInv, TypeOK
<1>4. MergeChown(old, ids[1], ids[2]) \in FakeInode
  BY <1>2, <1>3, MergeTyped
<1>5. entry' \in [Keys -> FakeInode \cup {Absent}]
  BY <1>1, <1>4 DEF TypeInv, TypeOK
<1>6. truth[i] # Absent => new \in FakeInode /\ new.mode = truth[i].mode
  BY <1>2, MergeTyped DEF TypeInv, TypeOK
<1> HIDE DEF i, new
<1>7. truth[i] = Absent => new = Absent
  BY DEF new
<1> QED BY <1>1, <1>2, <1>5, <1>6, <1>7, IdleTyped, TypeWork DEF Return, TypeInv, Knowing

\* What update_inode stores, and what root would have stored.
Stored(p, inode) ==
    IF proc[p].call \in {"chmod", "fchmod"}
    THEN [inode EXCEPT !.mode = (proc[p].mode \div ALLPERMS) * ALLPERMS + proc[p].perm]
    ELSE [inode EXCEPT !.xattrs = proc[p].xattrs]

StoredTrue(p, inode) ==
    IF inode = Absent THEN inode
    ELSE IF proc[p].call \in {"chmod", "fchmod"}
    THEN [inode EXCEPT !.mode = (inode.mode \div ALLPERMS) * ALLPERMS + proc[p].perm]
    ELSE [inode EXCEPT !.xattrs = proc[p].xattrs]

LEMMA SetInodeIs ==
    ASSUME TypeInv, NEW p \in Procs, SetInode(p)
    PROVE  /\ proc[p].pc = "set" /\ UNCHANGED files
           /\ entry' = [entry EXCEPT ![proc[p].key] = Stored(p, proc[p].inode)]
           /\ truth' = [truth EXCEPT ![proc[p].key] = StoredTrue(p, truth[proc[p].key])]
           /\ IF proc[p].call \in {"chmod", "fchmod"}
              THEN Become(p, [proc[p] EXCEPT !.pc = "chmod"]) ELSE Return(p)
<1>2. proc[p].pc = "set" /\ UNCHANGED files
      /\ IF proc[p].call \in {"chmod", "fchmod"}
         THEN Become(p, [proc[p] EXCEPT !.pc = "chmod"]) ELSE Return(p)
  BY DEF SetInode
<1>3. entry' = [entry EXCEPT ![proc[p].key] = Stored(p, proc[p].inode)]
  BY DEF SetInode, Stored, compose_mode
<1>4. truth' = [truth EXCEPT ![proc[p].key] = StoredTrue(p, truth[proc[p].key])]
  BY DEF SetInode, StoredTrue
<1> QED BY <1>2, <1>3, <1>4

LEMMA TypeSetInode ==
    ASSUME TypeInv, NEW p \in Procs, SetInode(p)
    PROVE  TypeInv'
<1> DEFINE i == proc[p].key
           new == StoredTrue(p, truth[i])
<1>1. /\ proc[p].pc = "set" /\ UNCHANGED files
      /\ entry' = [entry EXCEPT ![i] = Stored(p, proc[p].inode)]
      /\ truth' = [truth EXCEPT ![i] = new]
  BY SetInodeIs
<1>2. /\ i \in Keys /\ proc[p] \in Proc /\ WorkTyped(p) /\ proc[p].inode \in FakeInode
      /\ proc[p].perm \in Perms /\ proc[p].xattrs \in Xattrs
  BY <1>1 DEF TypeInv, TypeOK, Proc, WorkTyped, Knowing
<1>3. PICK state : /\ state \in {[proc[p] EXCEPT !.pc = "chmod"], Idle}
                   /\ Become(p, state)
  BY SetInodeIs DEF Return
<1>4. state \in Proc /\ state.pc \in {"chmod", "idle"}
  BY <1>2, <1>3, IdleTyped DEF Proc, TypeInv
<1>5. Stored(p, proc[p].inode) \in FakeInode
  <2>1. PICK t \in Types : ModeOf(t, proc[p].mode)
    BY <1>1, <1>2 DEF WorkTyped
  <2>2. (proc[p].mode \div ALLPERMS) * ALLPERMS + proc[p].perm \in Modes
    BY <1>2, <2>1, Composed, ModeTyped
  <2> QED BY <1>2, <2>2 DEF Stored, FakeInode
<1>6. entry' \in [Keys -> FakeInode \cup {Absent}]
  BY <1>1, <1>5 DEF TypeInv, TypeOK
<1>7. ASSUME truth[i] # Absent
      PROVE  /\ new \in FakeInode
             /\ \A t \in Types : ModeOf(t, truth[i].mode) => ModeOf(t, new.mode)
  <2>1. PICK t \in Types : ModeOf(t, truth[i].mode)
    BY <1>2, <1>7, NodesTyped DEF TypeInv, TypeOK, FilesTyped, NodeMode
  <2>2. truth[i] \in FakeInode
    BY <1>2, <1>7 DEF TypeInv, TypeOK
  <2>3. CASE proc[p].call \in {"chmod", "fchmod"}
    <3>1. new = [truth[i] EXCEPT !.mode = (truth[i].mode \div ALLPERMS) * ALLPERMS + proc[p].perm]
      BY <1>7, <2>3 DEF StoredTrue
    <3>2. \A u \in Types : ModeOf(u, truth[i].mode) =>
             ModeOf(u, (truth[i].mode \div ALLPERMS) * ALLPERMS + proc[p].perm)
      BY <1>2, Composed
    <3>3. (truth[i].mode \div ALLPERMS) * ALLPERMS + proc[p].perm \in Modes
      BY <2>1, <3>2, ModeTyped
    <3> QED BY <2>2, <3>1, <3>2, <3>3 DEF FakeInode
  <2>4. CASE proc[p].call \notin {"chmod", "fchmod"}
    <3>1. new = [truth[i] EXCEPT !.xattrs = proc[p].xattrs]
      BY <1>7, <2>4 DEF StoredTrue
    <3> QED BY <1>2, <2>2, <3>1 DEF FakeInode
  <2> QED BY <2>3, <2>4
<1>8. truth[i] = Absent => new = Absent
  BY DEF StoredTrue
<1> HIDE DEF i, new
<1> QED BY <1>1, <1>2, <1>3, <1>4, <1>6, <1>7, <1>8, TypeWork DEF Knowing

LEMMA TypeMknodSet ==
    ASSUME TypeInv, NEW p \in Procs, MknodSet(p)
    PROVE  TypeInv'
<1>1. /\ proc[p].pc = "mknod" /\ Return(p) /\ UNCHANGED <<files, truth>>
      /\ entry' = [entry EXCEPT ![proc[p].key] = Recorded(proc[p].node, proc[p].perm)]
  BY DEF MknodSet
<1>2. proc[p].key \in Keys /\ proc[p].perm \in Perms /\ proc[p].node \in Nodes
  BY <1>1 DEF TypeInv, TypeOK, Proc, WorkTyped, Knowing
<1>3. PICK i \in Keys : i = proc[p].key
  BY <1>2
<1>4. entry' \in [Keys -> FakeInode \cup {Absent}]
  BY <1>1, <1>2, RecordedTyped DEF TypeInv, TypeOK
<1>5. truth' = [truth EXCEPT ![i] = truth[i]]
  BY <1>1 DEF TypeInv, TypeOK
<1>6. truth[i] # Absent => truth[i] \in FakeInode
  BY DEF TypeInv, TypeOK
<1> QED BY <1>1, <1>4, <1>5, <1>6, IdleTyped, TypeWork DEF Return, TypeInv, Knowing

LEMMA TypeRemoveInode ==
    ASSUME TypeInv, NEW p \in Procs, RemoveInode(p)
    PROVE  TypeInv'
<1>1. /\ proc[p].pc = "remove" /\ Become(p, [proc[p] EXCEPT !.pc = "real"])
      /\ UNCHANGED <<files, truth>> /\ entry' = [entry EXCEPT ![proc[p].key] = Absent]
  BY DEF RemoveInode
<1>2. proc[p].key \in Keys /\ proc[p] \in Proc
  BY <1>1 DEF TypeInv, TypeOK, Proc, WorkTyped, Knowing
<1>3. PICK i \in Keys : i = proc[p].key
  BY <1>2
<1>4. entry' \in [Keys -> FakeInode \cup {Absent}]
  BY <1>1, <1>2 DEF TypeInv, TypeOK
<1>5. truth' = [truth EXCEPT ![i] = truth[i]]
  BY <1>1 DEF TypeInv, TypeOK
<1>6. truth[i] # Absent => truth[i] \in FakeInode
  BY DEF TypeInv, TypeOK
<1>7. PICK state : state = [proc[p] EXCEPT !.pc = "real"]
  OBVIOUS
<1>8. state \in Proc /\ state.pc = "real" /\ Become(p, state)
  BY <1>1, <1>2, <1>7 DEF Proc
<1> QED BY <1>1, <1>4, <1>5, <1>6, <1>8, TypeWork DEF Knowing

\* What there is of files, apart from their entries.
FilesOK ==
    /\ scene \in Scenes
    /\ dir \in [Names -> Keys \cup {NoFile}]
    /\ type \in [Keys -> Types \cup {"free"}]
    /\ perm \in [Keys -> Perms]
    /\ fd \in [Procs -> Keys \cup {NoFile}]
    /\ truth \in [Keys -> FakeInode \cup {Absent}]
    /\ FilesTyped

\* A step that changes the files.
LEMMA TypeFiles ==
    ASSUME TypeInv, FilesOK', UNCHANGED <<scene, entry>>, NEW p \in Procs,
           UNCHANGED proc \/ \E state \in Proc : /\ Become(p, state)
                                                 /\ state.pc \notin Knowing
    PROVE  TypeInv'
<1>1. entry' \in [Keys -> FakeInode \cup {Absent}]
  BY DEF TypeInv, TypeOK
<1>2. proc' \in [Procs -> Proc]
  BY DEF TypeInv, TypeOK, Become
<1>3. (proc \in [Procs -> Proc])'
  BY <1>2 DEF Proc
<1>4. TypeOK'
  BY <1>1, <1>3 DEF TypeOK, FilesOK
<1>5. \A q \in Procs : proc'[q] = proc[q] \/ proc'[q].pc \notin Knowing
  BY DEF TypeInv, TypeOK, Become
<1>6. \A q \in Procs : WorkTyped(q)'
  BY <1>5 DEF TypeInv, WorkTyped, ModeOf, Knowing
<1> QED BY <1>4, <1>6 DEF TypeInv, FilesOK

\* A new file: only the name and the inode number it takes change.
LEMMA NewFileIs ==
    ASSUME TypeInv, NEW n \in Names, NEW t \in Types, NEW m, NEW metadata,
           NewFile(n, t, m, metadata)
    PROVE  \E i \in scene.inodes :
              /\ i \in Keys /\ type[i] = "free" /\ truth[i] = Absent
              /\ dir' = [dir EXCEPT ![n] = i] /\ type' = [type EXCEPT ![i] = t]
              /\ perm' = [perm EXCEPT ![i] = m] /\ truth' = [truth EXCEPT ![i] = metadata]
              /\ dir'[n] = i /\ \A l \in Names \ {n} : dir'[l] = dir[l]
              /\ type'[i] = t /\ perm'[i] = m /\ truth'[i] = metadata
              /\ \A j \in Keys \ {i} : /\ type'[j] = type[j] /\ perm'[j] = perm[j]
                                       /\ truth'[j] = truth[j]
<1>1. PICK i \in scene.inodes :
         /\ type[i] = "free" /\ dir' = [dir EXCEPT ![n] = i]
         /\ type' = [type EXCEPT ![i] = t] /\ perm' = [perm EXCEPT ![i] = m]
         /\ truth' = [truth EXCEPT ![i] = metadata]
  BY DEF NewFile
<1>2. i \in Keys
  BY OwnershipAssumption DEF TypeInv, TypeOK, Scene
<1>3. truth[i] = Absent
  BY <1>1, <1>2 DEF TypeInv, FilesTyped
<1>4. dir'[n] = i /\ \A l \in Names \ {n} : dir'[l] = dir[l]
  BY <1>1 DEF TypeInv, TypeOK
<1>5. /\ type'[i] = t /\ perm'[i] = m /\ truth'[i] = metadata
      /\ \A j \in Keys \ {i} : /\ type'[j] = type[j] /\ perm'[j] = perm[j]
                               /\ truth'[j] = truth[j]
  BY <1>1, <1>2 DEF TypeInv, TypeOK
<1> QED BY <1>1, <1>2, <1>3, <1>4, <1>5

LEMMA TypeNewFile ==
    ASSUME TypeInv, NEW n \in Names, NEW t \in Types, NEW m \in Perms,
           NEW metadata \in FakeInode, metadata # Absent,
           NewFile(n, t, m, metadata), UNCHANGED <<scene, fd>>,
           ModeOf(t, metadata.mode) \/ NodeMode(t, metadata.mode)
    PROVE  FilesOK'
<1>1. PICK i \in Keys :
         /\ type[i] = "free" /\ truth[i] = Absent
         /\ dir' = [dir EXCEPT ![n] = i] /\ type' = [type EXCEPT ![i] = t]
         /\ perm' = [perm EXCEPT ![i] = m] /\ truth' = [truth EXCEPT ![i] = metadata]
         /\ dir'[n] = i /\ \A l \in Names \ {n} : dir'[l] = dir[l]
         /\ type'[i] = t /\ truth'[i] = metadata
         /\ \A j \in Keys \ {i} : type'[j] = type[j] /\ truth'[j] = truth[j]
  BY NewFileIs
<1>2. /\ dir' \in [Names -> Keys \cup {NoFile}] /\ type' \in [Keys -> Types \cup {"free"}]
      /\ perm' \in [Keys -> Perms] /\ truth' \in [Keys -> FakeInode \cup {Absent}]
      /\ scene' \in Scenes /\ fd' \in [Procs -> Keys \cup {NoFile}]
  BY <1>1 DEF TypeInv, TypeOK
<1>3. t # "free"
  BY DEF Types
<1>4. \A j \in Keys : type'[j] = "free" <=> truth'[j] = Absent
  BY <1>1, <1>3 DEF TypeInv, FilesTyped
<1>5. \A l \in Names : dir'[l] # NoFile => type'[dir'[l]] # "free"
  <2>1. \A l \in Names \ {n} : dir[l] # NoFile => dir[l] \in Keys /\ type[dir[l]] # "free"
    BY DEF TypeInv, TypeOK, FilesTyped
  <2> QED BY <1>1, <1>3, <2>1
<1>6. \A p \in Procs : fd'[p] # NoFile => type'[fd'[p]] # "free" /\ "open" \in scene'.kinds
  <2>1. \A p \in Procs : fd[p] # NoFile => fd[p] \in Keys /\ type[fd[p]] # "free"
                                           /\ "open" \in scene.kinds
    BY DEF TypeInv, TypeOK, FilesTyped
  <2> QED BY <1>1, <1>3, <2>1
<1>7. \A j \in Keys : type'[j] # "free" =>
          ModeOf(type'[j], truth'[j].mode) \/ NodeMode(type'[j], truth'[j].mode)
  BY <1>1 DEF TypeInv, FilesTyped
<1>8. FilesTyped'
  BY <1>4, <1>5, <1>6, <1>7 DEF FilesTyped, ModeOf, NodeMode
<1> QED BY <1>2, <1>8 DEF FilesOK

LEMMA TypeCreat ==
    ASSUME TypeInv, NEW p \in Procs, NEW n \in scene.own[p], Creat(p, n)
    PROVE  TypeInv'
<1>1. PICK t \in Types : NewFile(n, t, 0, Fresh(t)) /\ UNCHANGED <<scene, fd, entry, proc>>
  BY DEF Creat, Types
<1>2. n \in Names /\ 0 \in Perms
  BY Started, PermsAre
<1>3. FilesOK'
  BY <1>1, <1>2, FreshTyped, TypeNewFile
<1> QED BY <1>1, <1>3, TypeFiles

LEMMA TypeMknodOpen ==
    ASSUME TypeInv, NEW p \in Procs, NEW n \in scene.own[p], MknodOpen(p, n)
    PROVE  TypeInv'
<1>1. PICK k \in scene.nodes, m \in scene.perms, at \in {Target, n} :
         /\ Ready(p, "mknod")
         /\ \/ NewFile(at, "reg", 0, Made(k, m))
            \/ UNCHANGED <<dir, type, perm, truth>>
         /\ Become(p, [Idle EXCEPT !.pc = "stat", !.call = "mknod", !.name = n,
                                   !.node = k, !.perm = m])
         /\ UNCHANGED <<scene, fd, entry>>
  BY DEF MknodOpen
<1>2. /\ n \in Names /\ at \in Names /\ m \in Perms /\ k \in Nodes /\ 0 \in Perms
      /\ "mknod" \in scene.kinds /\ Idle \in Proc /\ scene \in Scenes
  BY <1>1, Started, OwnershipAssumption, IdleTyped DEF Ready, TypeInv, TypeOK
<1>3. PICK state : state = [Idle EXCEPT !.pc = "stat", !.call = "mknod", !.name = n,
                                        !.node = k, !.perm = m]
  OBVIOUS
<1>4. state \in Proc /\ state.pc \notin Knowing /\ Become(p, state)
  BY <1>1, <1>2, <1>3 DEF Proc, Knowing
<1>5. FilesOK'
  <2>1. CASE NewFile(at, "reg", 0, Made(k, m))
    <3>1. Made(k, m) \in FakeInode /\ Made(k, m) # Absent /\ NodeMode("reg", Made(k, m).mode)
      BY <1>2, MadeTyped DEF NodeMode
    <3> QED BY <1>1, <1>2, <2>1, <3>1, TypeNewFile DEF Types
  <2>2. CASE UNCHANGED <<dir, type, perm, truth>>
    BY <1>1, <2>2 DEF TypeInv, TypeOK, FilesOK, FilesTyped, ModeOf, NodeMode
  <2> QED BY <1>1, <2>1, <2>2
<1> QED BY <1>1, <1>4, <1>5, TypeFiles

LEMMA TypeMknodFalls ==
    ASSUME TypeInv, NEW p \in Procs, MknodFalls(p)
    PROVE  TypeInv'
<1>1. PICK n, k, m : n = proc[p].name /\ k = proc[p].node /\ m = proc[p].perm
  OBVIOUS
<1>2. /\ \/ NewFile(n, MadeType(k), scene.umask[m], Made(k, m))
         \/ UNCHANGED <<dir, type, perm, truth>>
      /\ Return(p) /\ UNCHANGED <<scene, fd, entry>>
  BY <1>1 DEF MknodFalls
<1>3. n \in Names /\ k \in Nodes /\ m \in Perms /\ scene \in Scenes
  BY <1>1 DEF TypeInv, TypeOK, Proc
<1>4. FilesOK'
  <2>1. CASE NewFile(n, MadeType(k), scene.umask[m], Made(k, m))
    <3>1. /\ MadeType(k) \in Types /\ Made(k, m) \in FakeInode
          /\ ModeOf(MadeType(k), Made(k, m).mode) /\ Made(k, m) # Absent
          /\ scene.umask[m] \in Perms
      BY <1>3, MadeTyped, UmaskTyped
    <3> QED BY <1>2, <1>3, <2>1, <3>1, TypeNewFile
  <2>2. CASE UNCHANGED <<dir, type, perm, truth>>
    BY <1>2, <2>2 DEF TypeInv, TypeOK, FilesOK, FilesTyped, ModeOf, NodeMode
  <2> QED BY <1>2, <2>1, <2>2
<1> QED BY <1>2, <1>4, IdleTyped, TypeFiles DEF Return, TypeInv, Knowing

LEMMA TypeLink ==
    ASSUME TypeInv, NEW p \in Procs, NEW n \in scene.own[p], NEW to \in scene.own[p],
           Link(p, n, to)
    PROVE  TypeInv'
<1>1. /\ dir[n] # NoFile /\ dir' = [dir EXCEPT ![to] = dir[n]]
      /\ UNCHANGED <<scene, type, perm, fd, entry, proc, truth>>
  BY DEF Link
<1>2. n \in Names /\ to \in Names
  BY Started
<1>3. FilesOK'
  BY <1>1, <1>2 DEF TypeInv, TypeOK, FilesOK, FilesTyped, ModeOf, NodeMode
<1> QED BY <1>1, <1>3, TypeFiles

LEMMA TypeOpen ==
    ASSUME TypeInv, NEW p \in Procs, NEW n \in scene.own[p], Open(p, n)
    PROVE  TypeInv'
<1>1. /\ "open" \in scene.kinds /\ Follow(n) # NoFile /\ fd' = [fd EXCEPT ![p] = Follow(n)]
      /\ UNCHANGED <<scene, dir, type, perm, entry, proc, truth>>
  BY DEF Open, Ready
<1>2. Follow(n) \in Keys /\ type[Follow(n)] # "free"
  BY <1>1, Started, FollowTyped
<1>3. FilesOK'
  BY <1>1, <1>2 DEF TypeInv, TypeOK, FilesOK, FilesTyped, ModeOf, NodeMode
<1> QED BY <1>1, <1>3, TypeFiles

\* Files without a name that nobody has open go.
LEMMA ReapIs ==
    ASSUME TypeInv, Reap
    PROVE  \A i \in Keys :
              /\ Kept(i) => type'[i] = type[i] /\ truth'[i] = truth[i]
              /\ ~ Kept(i) => type'[i] = "free" /\ truth'[i] = Absent
  BY DEF Reap

LEMMA TypeReap ==
    ASSUME TypeInv, Reap, UNCHANGED <<scene, perm>>,
           dir' \in [Names -> Keys \cup {NoFile}], fd' \in [Procs -> Keys \cup {NoFile}],
           \A n \in Names : dir'[n] # NoFile => \E m \in Names : dir[m] = dir'[n],
           \A p \in Procs : fd'[p] # NoFile => fd[p] = fd'[p]
    PROVE  FilesOK'
<1>1. \A i \in Keys :
         /\ Kept(i) => type'[i] = type[i] /\ truth'[i] = truth[i]
         /\ ~ Kept(i) => type'[i] = "free" /\ truth'[i] = Absent
  BY ReapIs
<1>2. /\ type' \in [Keys -> Types \cup {"free"}]
      /\ truth' \in [Keys -> FakeInode \cup {Absent}]
  BY DEF Reap, TypeInv, TypeOK
<1>3. \A j \in Keys : type'[j] = "free" <=> truth'[j] = Absent
  BY <1>1 DEF TypeInv, FilesTyped
<1>4. ASSUME NEW n \in Names, dir'[n] # NoFile PROVE type'[dir'[n]] # "free"
  <2>1. PICK i \in Keys : i = dir'[n]
    BY <1>4
  <2>2. Kept(i) /\ type[i] # "free"
    BY <1>4, <2>1 DEF Kept, TypeInv, FilesTyped
  <2> QED BY <1>1, <2>1, <2>2
<1>5. ASSUME NEW p \in Procs, fd'[p] # NoFile
      PROVE  type'[fd'[p]] # "free" /\ "open" \in scene'.kinds
  <2>1. PICK i \in Keys : i = fd'[p]
    BY <1>5
  <2>2. Kept(i) /\ type[i] # "free" /\ "open" \in scene.kinds
    BY <1>5, <2>1 DEF Kept, TypeInv, FilesTyped
  <2> QED BY <1>1, <2>1, <2>2
<1>6. \A j \in Keys : type'[j] # "free" =>
          ModeOf(type'[j], truth'[j].mode) \/ NodeMode(type'[j], truth'[j].mode)
  BY <1>1 DEF TypeInv, FilesTyped
<1>7. FilesTyped'
  BY <1>3, <1>4, <1>5, <1>6 DEF FilesTyped, ModeOf, NodeMode
<1> QED BY <1>2, <1>7 DEF FilesOK, TypeInv, TypeOK

LEMMA TypeClose ==
    ASSUME TypeInv, NEW p \in Procs, Close(p)
    PROVE  TypeInv'
<1>1. fd' = [fd EXCEPT ![p] = NoFile] /\ UNCHANGED <<scene, dir, perm, entry, proc>> /\ Reap
  BY DEF Close
<1>2. FilesOK'
  BY <1>1, TypeReap DEF TypeInv, TypeOK
<1> QED BY <1>1, <1>2, TypeFiles

LEMMA TypeRealUnlink ==
    ASSUME TypeInv, NEW p \in Procs, RealUnlink(p)
    PROVE  TypeInv'
<1>1. PICK n \in Names : /\ dir' = [dir EXCEPT ![n] = NoFile] /\ Return(p) /\ Reap
                         /\ UNCHANGED <<scene, perm, fd, entry>>
  BY DEF RealUnlink, TypeInv, TypeOK, Proc
<1>2. FilesOK'
  BY <1>1, TypeReap DEF TypeInv, TypeOK
<1> QED BY <1>1, <1>2, IdleTyped, TypeFiles DEF Return, TypeInv, Knowing

LEMMA TypeRealRename ==
    ASSUME TypeInv, NEW p \in Procs, RealRename(p)
    PROVE  TypeInv'
<1>1. PICK n \in Names, to \in Names :
         /\ \/ dir' = dir
            \/ \E i \in {NoFile, dir[to]} : dir' = [dir EXCEPT ![to] = dir[n], ![n] = i]
         /\ Return(p) /\ Reap /\ UNCHANGED <<scene, perm, fd, entry>>
  BY DEF RealRename, TypeInv, TypeOK, Proc
<1>2. dir' \in [Names -> Keys \cup {NoFile}]
      /\ \A m \in Names : dir'[m] \in {NoFile, dir[n], dir[to], dir[m]}
  BY <1>1 DEF TypeInv, TypeOK
<1>3. FilesOK'
  BY <1>1, <1>2, TypeReap DEF TypeInv, TypeOK
<1> QED BY <1>1, <1>3, IdleTyped, TypeFiles DEF Return, TypeInv, Knowing

LEMMA TypeRealChmod ==
    ASSUME TypeInv, NEW p \in Procs, RealChmod(p)
    PROVE  TypeInv'
<1>1. PICK i : /\ perm' = [perm EXCEPT ![i] = proc[p].perm] \/ UNCHANGED perm
               /\ Return(p) /\ UNCHANGED <<scene, dir, type, fd, entry, truth>>
  BY DEF RealChmod
<1>2. proc[p].perm \in Perms
  BY DEF TypeInv, TypeOK, Proc
<1>3. perm' \in [Keys -> Perms]
  BY <1>1, <1>2 DEF TypeInv, TypeOK
<1>4. FilesOK'
  BY <1>1, <1>3 DEF TypeInv, TypeOK, FilesOK, FilesTyped, ModeOf, NodeMode
<1> QED BY <1>1, <1>4, IdleTyped, TypeFiles DEF Return, TypeInv, Knowing

LEMMA TypeStep == TypeInv /\ [Next]_vars => TypeInv'
<1> SUFFICES ASSUME TypeInv, [Next]_vars PROVE TypeInv'
  OBVIOUS
<1>1. CASE UNCHANGED vars
  <2>1. TypeOK'
    BY <1>1 DEF TypeInv, TypeOK, Proc, vars, files
  <2>2. FilesTyped'
    BY <1>1 DEF TypeInv, FilesTyped, ModeOf, NodeMode, vars, files
  <2>3. \A p \in Procs : WorkTyped(p)'
    BY <1>1 DEF TypeInv, WorkTyped, ModeOf, vars, files
  <2> QED BY <2>1, <2>2, <2>3 DEF TypeInv
<1>2. CASE Next
  <2>1. PICK p \in Procs :
           \/ \E n \in scene.own[p] :
                 \/ Creat(p, n) \/ Open(p, n)
                 \/ RecordChown(p, n) \/ RecordChmod(p, n) \/ SetXattr(p, n)
                 \/ MknodOpen(p, n) \/ MaybeRemove(p, n)
                 \/ \E to \in scene.own[p] : Link(p, n, to) \/ PrepareRename(p, n, to)
           \/ \E n \in scene.own[p] \cup scene.reads[p] : RealStat(p, n)
           \/ Close(p) \/ UpsertChown(p) \/ GetInode(p) \/ SetInode(p) \/ RealChmod(p)
           \/ MknodStat(p) \/ MknodFalls(p) \/ MknodSet(p)
           \/ StatOld(p) \/ RemoveInode(p) \/ ModifyStat(p)
           \/ RealUnlink(p) \/ RealRename(p) \/ RealFails(p)
    BY <1>2 DEF Next
  <2>2. ASSUME NEW n \in scene.own[p],
               \/ Creat(p, n) \/ Open(p, n)
               \/ RecordChown(p, n) \/ RecordChmod(p, n) \/ SetXattr(p, n)
               \/ MknodOpen(p, n) \/ MaybeRemove(p, n)
        PROVE  TypeInv'
    BY <2>2, TypeCreat, TypeOpen, TypeRecordChown, TypeRecordChmod, TypeSetXattr,
       TypeMknodOpen, TypeMaybeRemove
  <2>3. ASSUME NEW n \in scene.own[p], NEW to \in scene.own[p],
               Link(p, n, to) \/ PrepareRename(p, n, to)
        PROVE  TypeInv'
    BY <2>3, TypeLink, TypePrepareRename
  <2>4. CASE GetInode(p) \/ MknodStat(p) \/ StatOld(p) \/ RealFails(p) \/ ModifyStat(p)
    BY <2>4, TypeLooks
  <2>5. CASE UpsertChown(p) \/ SetInode(p) \/ MknodSet(p) \/ RemoveInode(p)
    BY <2>5, TypeUpsertChown, TypeSetInode, TypeMknodSet, TypeRemoveInode
  <2>6. CASE MknodFalls(p) \/ Close(p) \/ RealChmod(p) \/ RealUnlink(p) \/ RealRename(p)
    BY <2>6, TypeMknodFalls, TypeClose, TypeRealChmod, TypeRealUnlink, TypeRealRename
  <2>7. CASE \E n \in scene.own[p] \cup scene.reads[p] : RealStat(p, n)
    BY <2>7, TypeRealStat
  <2> QED BY <2>1, <2>2, <2>3, <2>4, <2>5, <2>6, <2>7
<1> QED BY <1>1, <1>2

\* Names, open files, entries and the calls in progress keep their types in every scene,
\* whatever processes do to each other's names: a call that works on an entry has found a
\* file, and every file has metadata.
THEOREM TypeCorrect == Spec => []TypeOK
<1>1. TypeInv => TypeOK
  BY DEF TypeInv
<1> QED BY <1>1, TypeInit, TypeStep, PTL DEF Spec

-----------------------------------------------------------------------------
(***************************************************************************)
(* Metadata, in the scenes that leave out what would break NoGhost.        *)
(***************************************************************************)
Removing == {"unlink", "rmdir"} \cup Renames

\* Processes change files of different names.  A directory that is removed has
\* one link.  Symbolic links, which would be followed, are not removed and no
\* node is made through them, and the process that makes them is alone; an
\* open file does not lose its names.
Sober(s) ==
    /\ \A p, q \in Procs : p # q => s.own[p] \cap s.own[q] = {}
    /\ "mkdir" \in s.kinds /\ s.dirlinks = 2 => s.kinds \cap {"rmdir", "rename"} = {}
    /\ "symlink" \in s.kinds =>
          /\ s.kinds \cap (Removing \cup {"mknod"}) = {}
          /\ \A p, q \in Procs : p # q => s.own[p] = {} \/ s.own[q] = {}
    /\ "open" \in s.kinds => s.kinds \cap Removing = {}

\* mknod has a type and no bit of the umask, and nodes other than regular files
\* have no chmod; names are not exchanged.
Exact(s) ==
    /\ "exchange" \notin s.kinds
    /\ "mknod" \in s.kinds =>
          /\ \A m \in s.perms : s.umask[m] = m
          /\ "none" \notin s.nodes
          /\ s.kinds \cap {"chmod", "fchmod"} = {} \/ s.nodes \subseteq {"reg"}

\* The scenes in which files show what they should.
Showing(s) == ~ s.refused /\ Exact(s)

\* A file is a process's if it has names, all of them the process's.
Has(p, i) ==
    /\ \E n \in Names : dir[n] = i
    /\ \A n \in Names : dir[n] = i => n \in scene.own[p]

Only(i) == \A n, m \in Names : dir[n] = i /\ dir[m] = i => n = m

\* Every file, and every open one, is some process's.
Owned ==
    /\ \A i \in Keys : type[i] # "free" => \E p \in Procs : Has(p, i)
    /\ \A p \in Procs : fd[p] # NoFile => Has(p, fd[p])

\* Links and directories come from the calls that make them.
KindOK(i) ==
    /\ type[i] = "lnk" => "symlink" \in scene.kinds
    /\ type[i] = "dir" => "mkdir" \in scene.kinds /\ Only(i)

\* What a call in progress is about: the file it works on, the file whose name
\* is about to go, and whether that is its last name.
At(p) == Source(p, proc[p].call, proc[p].name)
Victim(p) == dir[IF proc[p].call \in Renames THEN proc[p].to ELSE proc[p].name]
Doomed(p) == /\ proc[p].key # NoFile /\ LastName(proc[p].key)
             /\ proc[p].call \in Renames => dir[proc[p].name] # proc[p].key

\* A call that changes an entry is about the file its name leads to, and what it
\* has read of the file and of its entry is still so.
ChangeOK(p) ==
    /\ proc[p].pc \in {"upsert", "get", "set", "chmod"} =>
          proc[p].key # NoFile /\ proc[p].key = At(p)
    /\ proc[p].pc \in {"get", "set"} =>
          /\ proc[p].call \in {"chmod", "fchmod", "setxattr", "removexattr"}
          /\ ModeOf(type[proc[p].key], proc[p].mode)
    /\ proc[p].pc = "get" => proc[p].inode = New(Current[1], Current[2])
    /\ proc[p].pc = "set" =>
          proc[p].inode = IF entry[proc[p].key] = Absent THEN New(Current[1], Current[2])
                          ELSE entry[proc[p].key]
    /\ proc[p].pc = "chmod" =>
          entry[proc[p].key] # Absent /\ entry[proc[p].key].mode # None

\* mknod is about the node that root would have made.
MknodOK(p) ==
    /\ proc[p].pc \in {"stat", "mknod"} =>
          /\ proc[p].call = "mknod" /\ dir[proc[p].name] # NoFile
          /\ proc[p].node \in scene.nodes /\ proc[p].perm \in scene.perms
          /\ scene.refused
             \/ truth[dir[proc[p].name]] = Made(proc[p].node, proc[p].perm)
    /\ proc[p].pc = "mknod" => proc[p].key = dir[proc[p].name]

\* A call that removes a name has dropped the entry of a file that goes with it.
RemoveOK(p) ==
    /\ proc[p].pc \in {"statold", "remove", "real"} =>
          /\ proc[p].call \in Removing /\ proc[p].key = Victim(p)
          /\ proc[p].call \in Renames => proc[p].to \in scene.own[p]
          /\ scene.refused \/ Can(p)
    /\ proc[p].pc = "statold" => proc[p].call \in Renames /\ LastName(proc[p].key)
    /\ proc[p].pc = "remove" => Doomed(p)
    /\ proc[p].pc = "real" /\ Doomed(p) => entry[proc[p].key] = Absent

ProcOK(p) ==
    /\ proc[p].pc \notin {"idle", "patch"} =>
          proc[p].name \in scene.own[p] /\ proc[p].call \in scene.kinds
    /\ ChangeOK(p) /\ MknodOK(p) /\ RemoveOK(p)

\* A file shows what root would have given it, but while a node is made and
\* after the entry of a file that goes is dropped.
Excused(p, i) ==
    \/ proc[p].pc \in {"stat", "mknod"} /\ dir[proc[p].name] = i
    \/ proc[p].pc = "real" /\ proc[p].key = i /\ Doomed(p)

\* What holds of an inode number that is free or a process's.
FileOK(p, i) ==
    /\ type[i] = "free" => entry[i] = Absent
    /\ type[i] # "free" =>
          /\ \E n \in Names : dir[n] = i
          /\ KindOK(i)
          /\ Showing(scene) => Shown(i) = truth[i] \/ Excused(p, i)

OwnInv ==
    /\ TypeInv /\ Sober(scene) /\ Owned /\ NoGhost
    /\ \A p \in Procs : ProcOK(p)
    /\ \A p \in Procs, i \in Keys : type[i] = "free" \/ Has(p, i) => FileOK(p, i)

\* One name is at most one link.
LEMMA LastIs ==
    ASSUME TypeInv, NEW i \in Keys, type[i] # "dir"
    PROVE  LastName(i) <=> Only(i)
<1> DEFINE links == {n \in Names : dir[n] = i}
<1>1. IsFiniteSet(links)
  BY OwnershipAssumption, FS_Subset
<1>2. LastName(i) <=> Cardinality(links) <= 1
  BY DEF LastName, StNlink
<1>3. Only(i) <=> \A n, m \in links : n = m
  BY DEF Only
<1>4. ASSUME Only(i) PROVE Cardinality(links) <= 1
  <2>1. CASE links = {}
    BY <2>1, FS_EmptySet
  <2>2. CASE links # {}
    <3>1. PICK n \in links : links = {n}
      BY <1>3, <1>4, <2>2
    <3>2. Cardinality(links) = 1
      BY <3>1, FS_Singleton
    <3> HIDE DEF links
    <3> QED BY <3>2
  <2> QED BY <2>1, <2>2
<1>5. ASSUME Cardinality(links) <= 1 PROVE Only(i)
  <2>1. Cardinality(links) \in Nat
    BY <1>1, FS_CardinalityType
  <2>2. Cardinality(links) = 0 \/ Cardinality(links) = 1
    BY <1>5, <2>1
  <2>3. links = {} \/ \E n : links = {n}
    BY <1>1, <2>2, FS_EmptySet, FS_Singleton
  <2> HIDE DEF links
  <2> QED BY <1>3, <2>3
<1> QED BY <1>2, <1>4, <1>5

\* A directory that can be removed has one link.
LEMMA LastDir ==
    ASSUME TypeInv, Sober(scene), NEW i \in Keys, type[i] = "dir", KindOK(i),
           "rmdir" \in scene.kinds \/ "rename" \in scene.kinds
    PROVE  LastName(i) /\ Only(i)
<1>1. scene.dirlinks \in {1, 2}
  BY OwnershipAssumption DEF TypeInv, TypeOK, Scene
<1>2. "mkdir" \in scene.kinds /\ Only(i)
  BY DEF KindOK
<1>3. scene.dirlinks # 2
  BY <1>2 DEF Sober
<1> QED BY <1>1, <1>2, <1>3 DEF LastName, StNlink

LEMMA OneOwner ==
    ASSUME OwnInv, NEW p \in Procs, NEW q \in Procs, NEW i, Has(p, i), Has(q, i)
    PROVE  p = q
  BY DEF Has, OwnInv, Sober

LEMMA HasFile ==
    ASSUME TypeInv, NEW p \in Procs, NEW i \in Keys, Has(p, i)
    PROVE  type[i] # "free" /\ truth[i] # Absent /\ scene.own[p] # {}
<1>1. PICK n \in Names : dir[n] = i /\ n \in scene.own[p]
  BY DEF Has
<1>2. i # NoFile
  BY OwnershipAssumption
<1> QED BY <1>1, <1>2 DEF TypeInv, FilesTyped

\* The file at a process's name is the process's.
LEMMA NameMine ==
    ASSUME OwnInv, NEW p \in Procs, NEW n \in scene.own[p], n \in Names, dir[n] # NoFile
    PROVE  dir[n] \in Keys /\ type[dir[n]] # "free" /\ Has(p, dir[n])
<1>1. dir[n] \in Keys /\ type[dir[n]] # "free"
  BY DEF OwnInv, TypeInv, TypeOK, FilesTyped
<1>2. PICK q \in Procs : Has(q, dir[n])
  BY <1>1 DEF OwnInv, Owned
<1>3. n \in scene.own[q]
  BY <1>2 DEF Has
<1>4. q = p
  BY <1>3 DEF OwnInv, Sober
<1> QED BY <1>1, <1>2, <1>4

LEMMA NoLinks ==
    ASSUME OwnInv, "symlink" \notin scene.kinds, NEW n \in Names
    PROVE  ~ IsLink(dir[n]) /\ Follow(n) = dir[n]
<1>1. ASSUME dir[n] # NoFile PROVE type[dir[n]] # "lnk"
  <2>1. PICK i \in Keys : i = dir[n] /\ type[i] # "free"
    BY <1>1 DEF OwnInv, TypeInv, TypeOK, FilesTyped
  <2>2. PICK q \in Procs : Has(q, i)
    BY <2>1 DEF OwnInv, Owned
  <2>3. FileOK(q, i)
    BY <2>2 DEF OwnInv
  <2> QED BY <2>1, <2>3 DEF FileOK, KindOK
<1> QED BY <1>1 DEF IsLink, Follow

\* So is the file it leads to: only one process makes links.
LEMMA SourceMine ==
    ASSUME OwnInv, NEW p \in Procs, NEW n \in scene.own[p], n \in Names, NEW call,
           Source(p, call, n) # NoFile
    PROVE  /\ Source(p, call, n) \in Keys /\ type[Source(p, call, n)] # "free"
           /\ Has(p, Source(p, call, n))
<1>1. CASE Source(p, call, n) = fd[p]
  <2>1. Source(p, call, n) \in Keys /\ type[Source(p, call, n)] # "free"
    BY SourceTyped DEF OwnInv
  <2> QED BY <1>1, <2>1 DEF OwnInv, Owned
<1>2. CASE Source(p, call, n) = dir[n]
  BY <1>2, NameMine
<1>3. CASE /\ Source(p, call, n) # dir[n] /\ Source(p, call, n) # fd[p]
           /\ Source(p, call, n) = dir[Target]
  <2>1. PICK i \in Keys : i = Source(p, call, n) /\ type[i] # "free"
    BY SourceTyped DEF OwnInv
  <2>2. PICK q \in Procs : Has(q, i)
    BY <2>1 DEF OwnInv, Owned
  <2>3. Target \in scene.own[q]
    BY <1>3, <2>1, <2>2, OwnershipAssumption DEF Has
  <2>4. "symlink" \in scene.kinds
    <3>1. Source(p, call, n) = Follow(n) \/ Source(p, call, n) = fd[p]
      BY <1>3 DEF Source
    <3> QED BY <1>3, <3>1, NoLinks
  <2>5. q = p
    BY <2>3, <2>4 DEF OwnInv, Sober
  <2> QED BY <2>1, <2>2, <2>5
<1> QED BY <1>1, <1>2, <1>3 DEF Source, Follow

(***************************************************************************)
(* What a step of one process leaves to the others.                        *)
(***************************************************************************)
Keeps(p) ==
    /\ scene' = scene
    /\ \A q \in Procs \ {p} : proc'[q] = proc[q] /\ fd'[q] = fd[q]
    /\ \A n \in Names \ scene.own[p] : dir'[n] = dir[n]
    /\ \A n \in scene.own[p] :
          dir'[n] = NoFile \/ type[dir'[n]] = "free" \/ Has(p, dir'[n])
    /\ \A i \in Keys : type[i] # "free" /\ ~ Has(p, i) =>
          type'[i] = type[i] /\ perm'[i] = perm[i] /\ entry'[i] = entry[i] /\ truth'[i] = truth[i]

LEMMA OthersFiles ==
    ASSUME OwnInv, NEW p \in Procs, Keeps(p), NEW q \in Procs \ {p}, NEW i \in Keys, Has(q, i)
    PROVE  /\ type[i] # "free" /\ type'[i] = type[i] /\ perm'[i] = perm[i]
           /\ entry'[i] = entry[i] /\ truth'[i] = truth[i]
           /\ \A n \in Names : dir'[n] = i <=> dir[n] = i
<1>1. type[i] # "free" /\ i # NoFile
  BY HasFile, OwnershipAssumption DEF OwnInv
<1>2. ~ Has(p, i)
  BY OneOwner
<1>3. \A n \in Names : dir[n] = i => n \notin scene.own[p]
  BY DEF Has, OwnInv, Sober
<1> QED BY <1>1, <1>2, <1>3 DEF Keeps

LEMMA OthersSame ==
    ASSUME OwnInv, NEW p \in Procs, Keeps(p), NEW q \in Procs \ {p}, NEW i \in Keys, Has(q, i)
    PROVE  /\ Has(q, i)' /\ (Only(i)' <=> Only(i)) /\ (LastName(i)' <=> LastName(i))
           /\ StMode(i)' = StMode(i) /\ Shown(i)' = Shown(i) /\ (IsLink(i)' <=> IsLink(i))
<1>1. /\ type'[i] = type[i] /\ perm'[i] = perm[i] /\ entry'[i] = entry[i]
      /\ \A n \in Names : dir'[n] = i <=> dir[n] = i
      /\ scene' = scene
  BY OthersFiles DEF Keeps
<1>2. Has(q, i)' /\ (Only(i)' <=> Only(i))
  BY <1>1 DEF Has, Only
<1>3. {n \in Names : dir'[n] = i} = {n \in Names : dir[n] = i}
  BY <1>1
<1>4. LastName(i)' <=> LastName(i)
  BY <1>1, <1>3 DEF LastName, StNlink
<1>5. StMode(i)' = StMode(i)
  BY <1>1 DEF StMode
<1>6. Shown(i)' = Shown(i)
  BY <1>1, <1>5 DEF Shown
<1> QED BY <1>1, <1>2, <1>4, <1>5, <1>6 DEF IsLink

LEMMA OthersHave ==
    ASSUME OwnInv, NEW p \in Procs, Keeps(p), NEW q \in Procs \ {p}, NEW i \in Keys, Has(q, i)'
    PROVE  Has(q, i)
<1>1. PICK n \in Names : dir'[n] = i /\ n \in scene.own[q]
  BY DEF Has, Keeps
<1>2. n \notin scene.own[p]
  BY <1>1 DEF OwnInv, Sober
<1>3. dir[n] = i /\ i # NoFile
  BY <1>1, <1>2, OwnershipAssumption DEF Keeps
<1> QED BY <1>1, <1>3, NameMine

\* The file at another process's name.
LEMMA OthersName ==
    ASSUME OwnInv, NEW p \in Procs, Keeps(p), scene.own[p] # {}, NEW q \in Procs \ {p},
           NEW n \in scene.own[q], n \in Names
    PROVE  /\ dir'[n] = dir[n] /\ Follow(n)' = Follow(n) /\ Follow(n) = dir[n]
           /\ dir[n] # NoFile => dir[n] \in Keys /\ Has(q, dir[n]) /\ (IsDir(n)' <=> IsDir(n))
<1>1. n \notin scene.own[p] /\ dir'[n] = dir[n]
  BY DEF OwnInv, Sober, Keeps
<1>2. "symlink" \notin scene.kinds
  BY DEF OwnInv, Sober
<1>3. Follow(n) = dir[n] /\ ~ IsLink(dir[n])
  BY <1>2, NoLinks
<1>4. CASE dir[n] = NoFile
  BY <1>1, <1>3, <1>4 DEF Follow, IsLink
<1>5. CASE dir[n] # NoFile
  <2>1. PICK i \in Keys : i = dir[n] /\ Has(q, i)
    BY <1>5, NameMine
  <2>2. type'[i] = type[i] /\ i # NoFile
    BY <2>1, OthersFiles, OwnershipAssumption
  <2> QED BY <1>1, <1>3, <2>1, <2>2 DEF Follow, IsLink, IsDir
<1> QED BY <1>4, <1>5

\* The calls of other processes.
LEMMA OthersChange ==
    ASSUME OwnInv, NEW p \in Procs, Keeps(p), scene.own[p] # {}, NEW q \in Procs \ {p},
           proc[q].pc \notin {"idle", "patch"}
    PROVE  ChangeOK(q)'
<1>1. proc'[q] = proc[q] /\ fd'[q] = fd[q] /\ scene' = scene
  BY DEF Keeps
<1>2. PICK n, call : n = proc[q].name /\ call = proc[q].call /\ n \in scene.own[q]
  BY DEF OwnInv, ProcOK
<1>3. n \in Names
  BY <1>2 DEF OwnInv, TypeInv, TypeOK, Proc
<1>4. dir'[n] = dir[n] /\ Follow(n)' = Follow(n)
  BY <1>2, <1>3, OthersName
<1>5. At(q)' = Source(q, call, n)' /\ At(q) = Source(q, call, n)
  BY <1>1, <1>2 DEF At
<1>6. At(q)' = At(q)
  BY <1>1, <1>4, <1>5 DEF Source
<1>7. CASE proc[q].pc \in {"upsert", "get", "set", "chmod"}
  <2>1. PICK k : k = proc[q].key /\ k = At(q) /\ k # NoFile
    BY <1>7 DEF OwnInv, ProcOK, ChangeOK
  <2>2. k \in Keys /\ Has(q, k)
    BY <1>2, <1>3, <1>5, <2>1, SourceMine
  <2>3. type'[k] = type[k] /\ entry'[k] = entry[k]
    BY <2>2, OthersFiles
  <2>4. ChangeOK(q)
    BY DEF OwnInv, ProcOK
  <2> QED BY <1>1, <1>6, <1>7, <2>1, <2>3, <2>4 DEF ChangeOK, ModeOf
<1>8. CASE proc[q].pc \notin {"upsert", "get", "set", "chmod"}
  BY <1>1, <1>8 DEF ChangeOK
<1> QED BY <1>7, <1>8

LEMMA OthersMknod ==
    ASSUME OwnInv, NEW p \in Procs, Keeps(p), scene.own[p] # {}, NEW q \in Procs \ {p},
           proc[q].pc \notin {"idle", "patch"}
    PROVE  MknodOK(q)'
<1>1. proc'[q] = proc[q] /\ scene' = scene
  BY DEF Keeps
<1>2. PICK n : n = proc[q].name /\ n \in scene.own[q]
  BY DEF OwnInv, ProcOK
<1>3. n \in Names
  BY <1>2 DEF OwnInv, TypeInv, TypeOK, Proc
<1>4. PICK i : i = dir[n] /\ dir'[n] = i /\ (i # NoFile => i \in Keys /\ Has(q, i))
  BY <1>2, <1>3, OthersName
<1>5. i # NoFile => truth'[i] = truth[i]
  BY <1>4, OthersFiles
<1>6. MknodOK(q)
  BY DEF OwnInv, ProcOK
<1> QED BY <1>1, <1>2, <1>4, <1>5, <1>6 DEF MknodOK, Made

LEMMA OthersRemove ==
    ASSUME OwnInv, NEW p \in Procs, Keeps(p), scene.own[p] # {}, NEW q \in Procs \ {p},
           proc[q].pc \in {"statold", "remove", "real"}
    PROVE  RemoveOK(q)' /\ (Doomed(q)' <=> Doomed(q))
<1>1. proc'[q] = proc[q] /\ scene' = scene
  BY DEF Keeps
<1>2. PICK n, to, call : /\ n = proc[q].name /\ to = proc[q].to /\ call = proc[q].call
                         /\ n \in scene.own[q] /\ (call \in Renames => to \in scene.own[q])
  BY DEF OwnInv, ProcOK, RemoveOK
<1>3. n \in Names /\ to \in Names
  BY <1>2 DEF OwnInv, TypeInv, TypeOK, Proc
<1>4. dir'[n] = dir[n] /\ (dir[n] # NoFile => IsDir(n)' = IsDir(n))
  BY <1>2, <1>3, OthersName DEF IsDir
<1>5. call \in Renames => dir'[to] = dir[to] /\ (dir[to] # NoFile => IsDir(to)' = IsDir(to))
  BY <1>2, <1>3, OthersName DEF IsDir
<1>6. Can(q)' = Can(q)
  <2>1. CanUnlink(call, n)' = CanUnlink(call, n)
    BY <1>4 DEF CanUnlink
  <2>2. CanRename(call, n, to)' = CanRename(call, n, to)
    BY <1>4, <1>5 DEF CanRename
  <2> QED BY <1>1, <1>2, <2>1, <2>2 DEF Can
<1>7. Victim(q)' = Victim(q)
  BY <1>1, <1>2, <1>4, <1>5 DEF Victim
<1>8. RemoveOK(q)
  BY DEF OwnInv, ProcOK
<1>9. PICK k : k = proc[q].key /\ (k # NoFile => k \in Keys /\ Has(q, k))
  <2>1. \E m \in {n, to} : m \in scene.own[q] /\ proc[q].key = dir[m]
    BY <1>2, <1>8 DEF RemoveOK, Victim
  <2> QED BY <1>3, <2>1, NameMine
<1>10. k # NoFile => entry'[k] = entry[k] /\ (LastName(k)' <=> LastName(k))
  BY <1>9, OthersFiles, OthersSame
<1>11. Doomed(q)' <=> Doomed(q)
  BY <1>1, <1>2, <1>4, <1>9, <1>10 DEF Doomed
<1>12. RemoveOK(q)'
  <2>1. proc[q].pc = "statold" => k # NoFile
    BY <1>9 DEF OwnInv, TypeInv, WorkTyped, Knowing
  <2>2. Doomed(q) => k # NoFile
    BY <1>9 DEF Doomed
  <2> QED BY <1>1, <1>6, <1>7, <1>8, <1>9, <1>10, <1>11, <2>1, <2>2 DEF RemoveOK
<1> QED BY <1>11, <1>12

LEMMA OthersOK ==
    ASSUME OwnInv, NEW p \in Procs, Keeps(p), scene.own[p] # {}, NEW q \in Procs \ {p}
    PROVE  ProcOK(q)' /\ \A i \in Keys : Has(q, i) => (Excused(q, i)' <=> Excused(q, i))
<1>1. proc'[q] = proc[q] /\ scene' = scene
  BY DEF Keeps
<1>2. CASE proc[q].pc \in {"idle", "patch"}
  BY <1>1, <1>2 DEF ProcOK, ChangeOK, MknodOK, RemoveOK, Excused
<1>3. CASE proc[q].pc \notin {"idle", "patch"}
  <2>1. PICK n : n = proc[q].name /\ n \in scene.own[q]
    BY <1>3 DEF OwnInv, ProcOK
  <2>2. dir'[n] = dir[n]
    BY <2>1, OthersName DEF OwnInv, TypeInv, TypeOK, Proc
  <2>3. proc[q].pc \in {"statold", "remove", "real"} =>
           RemoveOK(q)' /\ (Doomed(q)' <=> Doomed(q))
    BY OthersRemove
  <2>4. RemoveOK(q)'
    BY <1>1, <2>3 DEF RemoveOK
  <2>5. ProcOK(q)'
    BY <1>1, <1>3, <2>4, OthersChange, OthersMknod DEF ProcOK, OwnInv
  <2>6. \A i \in Keys : Excused(q, i)' <=> Excused(q, i)
    BY <1>1, <2>1, <2>2, <2>3 DEF Excused
  <2> QED BY <2>5, <2>6
<1> QED BY <1>2, <1>3

\* A step that keeps what is not its process's, and leaves that in order.
LEMMA Compose ==
    ASSUME OwnInv, TypeInv', NEW p \in Procs, scene.own[p] # {}, Keeps(p), ProcOK(p)',
           \A i \in Keys : fd'[p] = i => Has(p, i),
           \A i \in Keys : type[i] = "free" \/ Has(p, i) => FileOK(p, i)'
    PROVE  OwnInv'
<1>1. Sober(scene)' /\ scene' = scene
  BY DEF Keeps, OwnInv
<1>2. \A i \in Keys : type[i] = "free" \/ Has(p, i) \/ \E q \in Procs \ {p} : Has(q, i)
  BY DEF OwnInv, Owned
<1>3. ASSUME NEW i \in Keys, type'[i] # "free", type[i] = "free" \/ Has(p, i)
      PROVE  Has(p, i)'
  <2>1. \E n \in Names : dir'[n] = i
    BY <1>3 DEF FileOK
  <2>2. ASSUME NEW m \in Names, dir'[m] = i, m \notin scene.own[p] PROVE FALSE
    <3>1. dir[m] = i /\ i # NoFile
      BY <2>2, OwnershipAssumption DEF Keeps
    <3>2. type[i] # "free"
      BY <3>1 DEF OwnInv, TypeInv, FilesTyped
    <3> QED BY <1>3, <2>2, <3>1, <3>2 DEF Has
  <2> QED BY <1>1, <2>1, <2>2 DEF Has
<1>4. Owned'
  <2>1. \A i \in Keys : type'[i] # "free" => \E q \in Procs : Has(q, i)'
    BY <1>2, <1>3, OthersSame
  <2>2. ASSUME NEW q \in Procs, fd'[q] # NoFile PROVE Has(q, fd[q])'
    <3>1. PICK i \in Keys : i = fd'[q] /\ type'[i] # "free"
      BY <2>2 DEF TypeInv, TypeOK, FilesTyped
    <3>2. CASE q = p
      BY <1>3, <3>1, <3>2 DEF Has
    <3>3. CASE q # p
      <4>1. Has(q, i)
        BY <2>2, <3>1, <3>3 DEF OwnInv, Owned, Keeps
      <4>2. Has(q, i)'
        BY <3>3, <4>1, OthersSame
      <4> QED BY <3>1, <4>2 DEF Has
    <3> QED BY <3>2, <3>3
  <2> QED BY <2>1, <2>2 DEF Owned
<1>5. \A q \in Procs : ProcOK(q)'
  BY OthersOK
<1>6. ASSUME NEW r \in Procs, NEW i \in Keys, type'[i] = "free" \/ Has(r, i)'
      PROVE  FileOK(r, i)'
  <2>1. CASE type[i] = "free" \/ Has(p, i)
    <3>1. FileOK(p, i)'
      BY <2>1
    <3>2. CASE type'[i] = "free"
      BY <3>1, <3>2 DEF FileOK
    <3>3. CASE Has(r, i)' /\ r # p
      <4>1. Has(r, i)
        BY <3>3, OthersHave
      <4> QED BY <2>1, <3>3, <4>1, OneOwner, HasFile DEF OwnInv
    <3> QED BY <1>6, <3>1, <3>2, <3>3
  <2>2. CASE \E q \in Procs \ {p} : Has(q, i)
    <3>1. PICK q \in Procs \ {p} : Has(q, i)
      BY <2>2
    <3>2. /\ type[i] # "free" /\ type'[i] = type[i] /\ truth'[i] = truth[i]
          /\ \A n \in Names : dir'[n] = i <=> dir[n] = i
      BY <3>1, OthersFiles
    <3>3. Shown(i)' = Shown(i) /\ (Only(i)' <=> Only(i))
      BY <3>1, OthersSame
    <3>4. r = q
      <4>1. PICK n \in Names : dir'[n] = i /\ n \in scene.own[r]
        BY <1>1, <1>6, <3>2 DEF Has
      <4>2. n \in scene.own[q]
        BY <3>1, <3>2, <4>1 DEF Has
      <4> QED BY <4>1, <4>2 DEF OwnInv, Sober
    <3>5. FileOK(q, i) /\ (Excused(q, i)' <=> Excused(q, i))
      BY <3>1, OthersOK DEF OwnInv
    <3> QED BY <1>1, <3>2, <3>3, <3>4, <3>5 DEF FileOK, KindOK
  <2> QED BY <1>2, <2>1, <2>2
<1>7. NoGhost'
  BY <1>6 DEF NoGhost, FileOK
<1> QED BY <1>1, <1>4, <1>5, <1>6, <1>7 DEF OwnInv

\* A call goes on, and changes nothing that others see.
LEMMA Moves ==
    ASSUME OwnInv, TypeInv', NEW p \in Procs, scene.own[p] # {},
           NEW state, Become(p, state), UNCHANGED <<files, entry, truth>>, ProcOK(p)',
           Showing(scene) => \A i \in Keys : Has(p, i) /\ Excused(p, i) =>
                                 Excused(p, i)' \/ Shown(i) = truth[i]
    PROVE  OwnInv'
<1>1. /\ UNCHANGED <<scene, dir, type, perm, fd, entry, truth>>
      /\ \A q \in Procs \ {p} : proc'[q] = proc[q]
  BY DEF files, Become, OwnInv, TypeInv, TypeOK
<1>2. \A n \in scene.own[p] : n \in Names
  BY OwnershipAssumption DEF OwnInv, TypeInv, TypeOK, Scene
<1>3. Keeps(p)
  BY <1>1, <1>2, NameMine DEF Keeps
<1>4. \A i \in Keys : fd'[p] = i => Has(p, i)
  BY <1>1, OwnershipAssumption DEF OwnInv, Owned
<1>5. ASSUME NEW i \in Keys, type[i] = "free" \/ Has(p, i) PROVE FileOK(p, i)'
  <2>1. FileOK(p, i)
    BY <1>5 DEF OwnInv
  <2>2. Shown(i)' = Shown(i) /\ (KindOK(i)' <=> KindOK(i))
    BY <1>1 DEF Shown, StMode, KindOK, Only
  <2>3. CASE type[i] = "free"
    BY <1>1, <2>1, <2>3 DEF FileOK
  <2>4. CASE type[i] # "free"
    BY <1>1, <1>5, <2>1, <2>2, <2>4 DEF FileOK
  <2> QED BY <2>3, <2>4
<1> QED BY <1>3, <1>4, <1>5, Compose

(***************************************************************************)
(* The steps of a call that change only the call.                          *)
(***************************************************************************)
LEMMA Returns ==
    ASSUME OwnInv, TypeInv', NEW p \in Procs, scene.own[p] # {},
           Return(p), UNCHANGED <<files, entry, truth>>,
           Showing(scene) => \A i \in Keys : Has(p, i) /\ Excused(p, i) => Shown(i) = truth[i]
    PROVE  OwnInv'
<1>1. proc'[p].pc = "idle" /\ Become(p, Idle)
  BY DEF Return, Become, OwnInv, TypeInv, TypeOK, Idle
<1>2. ProcOK(p)'
  BY <1>1 DEF ProcOK, ChangeOK, MknodOK, RemoveOK
<1> QED BY <1>1, <1>2, Moves

\* A call that changes the entry of a file finds the file.
Found(p, n, state) ==
    /\ state.name = n /\ state.call \in scene.kinds
    /\ state.key = Source(p, state.call, n) /\ state.key # NoFile
    /\ state.mode = StMode(state.key)
    /\ \/ state.pc = "upsert"
       \/ /\ state.pc = "get" /\ state.inode = New(Current[1], Current[2])
          /\ state.call \in {"chmod", "fchmod", "setxattr", "removexattr"}

LEMMA Finds ==
    ASSUME OwnInv, TypeInv', NEW p \in Procs, NEW n \in scene.own[p], proc[p].pc = "idle",
           NEW state, Become(p, state), UNCHANGED <<files, entry, truth>>, Found(p, n, state)
    PROVE  OwnInv'
<1> DEFINE i == state.key
<1>1. proc'[p] = state /\ UNCHANGED <<scene, dir, type, perm, fd, entry, truth>>
  BY DEF Become, OwnInv, TypeInv, TypeOK, files
<1>2. i \in Keys /\ ModeOf(type[i], StMode(i))
  <2>1. i \in Keys /\ type[i] # "free" /\ state.call \in scene.kinds
    BY Started, SourceTyped DEF OwnInv, Found
  <2> QED BY <2>1, Started, StattedTyped DEF OwnInv
<1>3. At(p)' = i
  BY <1>1 DEF Found, At, Source, Follow, IsLink
<1>4. StMode(i)' = StMode(i)
  BY <1>1 DEF StMode
<1>5. ChangeOK(p)'
  BY <1>1, <1>2, <1>3, <1>4 DEF Found, ChangeOK, ModeOf
<1>6. ProcOK(p)'
  BY <1>1, <1>5 DEF Found, ProcOK, MknodOK, RemoveOK
<1> QED BY <1>6, Moves DEF Excused

LEMMA OwnRecordChown ==
    ASSUME OwnInv, TypeInv', NEW p \in Procs, NEW n \in scene.own[p], RecordChown(p, n)
    PROVE  OwnInv'
<1>1. PICK call \in {"chown", "lchown", "fchown"}, ids \in Chowns :
         /\ Ready(p, call) /\ Source(p, call, n) # NoFile
         /\ Become(p, [Statted(call, n, Source(p, call, n)) EXCEPT
                          !.pc = "upsert", !.ids = ids])
  BY DEF RecordChown
<1>2. PICK i, state : /\ i = Source(p, call, n)
                      /\ state = [Statted(call, n, i) EXCEPT !.pc = "upsert", !.ids = ids]
  OBVIOUS
<1>3. /\ state.name = n /\ state.call = call /\ state.key = i /\ state.mode = StMode(i)
      /\ state.pc = "upsert"
  BY <1>2 DEF Statted, Idle
<1>4. Become(p, state) /\ UNCHANGED <<files, entry, truth>>
  BY <1>1, <1>2 DEF RecordChown
<1>5. proc[p].pc = "idle" /\ Found(p, n, state)
  BY <1>1, <1>2, <1>3 DEF Ready, Found
<1> QED BY <1>4, <1>5, Finds

LEMMA OwnRecordChmod ==
    ASSUME OwnInv, TypeInv', NEW p \in Procs, NEW n \in scene.own[p], RecordChmod(p, n)
    PROVE  OwnInv'
<1>1. PICK call \in {"chmod", "fchmod"}, m \in scene.perms :
         /\ Ready(p, call) /\ Source(p, call, n) # NoFile
         /\ Become(p, [Statted(call, n, Source(p, call, n)) EXCEPT
                          !.pc = "get", !.perm = m])
  BY DEF RecordChmod
<1>2. PICK i, state : /\ i = Source(p, call, n)
                      /\ state = [Statted(call, n, i) EXCEPT !.pc = "get", !.perm = m]
  OBVIOUS
<1>3. /\ state.name = n /\ state.call = call /\ state.key = i /\ state.mode = StMode(i)
      /\ state.pc = "get" /\ state.inode = New(Current[1], Current[2])
  BY <1>2 DEF Statted, Idle
<1>4. Become(p, state) /\ UNCHANGED <<files, entry, truth>>
  BY <1>1, <1>2 DEF RecordChmod
<1>5. proc[p].pc = "idle" /\ Found(p, n, state)
  BY <1>1, <1>2, <1>3 DEF Ready, Found
<1> QED BY <1>4, <1>5, Finds

LEMMA OwnSetXattr ==
    ASSUME OwnInv, TypeInv', NEW p \in Procs, NEW n \in scene.own[p], SetXattr(p, n)
    PROVE  OwnInv'
<1>1. PICK call \in {"setxattr", "removexattr"}, x \in Xattrs :
         /\ Ready(p, call) /\ Source(p, call, n) # NoFile
         /\ Become(p, [Statted(call, n, Source(p, call, n)) EXCEPT
                          !.pc = "get", !.xattrs = x])
  BY DEF SetXattr
<1>2. PICK i, state : /\ i = Source(p, call, n)
                      /\ state = [Statted(call, n, i) EXCEPT !.pc = "get", !.xattrs = x]
  OBVIOUS
<1>3. /\ state.name = n /\ state.call = call /\ state.key = i /\ state.mode = StMode(i)
      /\ state.pc = "get" /\ state.inode = New(Current[1], Current[2])
  BY <1>2 DEF Statted, Idle
<1>4. Become(p, state) /\ UNCHANGED <<files, entry, truth>>
  BY <1>1, <1>2 DEF SetXattr
<1>5. proc[p].pc = "idle" /\ Found(p, n, state)
  BY <1>1, <1>2, <1>3 DEF Ready, Found
<1> QED BY <1>4, <1>5, Finds

LEMMA OwnGetInode ==
    ASSUME OwnInv, TypeInv', NEW p \in Procs, GetInode(p)
    PROVE  OwnInv'
<1>1. PICK k, state :
         /\ k = proc[p].key
         /\ state = [proc[p] EXCEPT !.pc = "set",
                        !.inode = IF entry[k] = Absent THEN @ ELSE entry[k]]
  OBVIOUS
<1>2. /\ proc[p].pc = "get" /\ Become(p, state) /\ UNCHANGED <<files, entry, truth>>
  BY <1>1 DEF GetInode
<1>3. proc[p] \in Proc
  BY DEF OwnInv, TypeInv, TypeOK
<1>4. /\ state.pc = "set" /\ state.name = proc[p].name /\ state.call = proc[p].call
      /\ state.key = k /\ state.mode = proc[p].mode
      /\ state.inode = IF entry[k] = Absent THEN proc[p].inode ELSE entry[k]
  BY <1>1, <1>3 DEF Proc
<1>5. proc'[p] = state /\ UNCHANGED <<scene, dir, type, perm, fd, entry, truth>>
  BY <1>2 DEF Become, OwnInv, TypeInv, TypeOK, files
<1>6. At(p)' = At(p)
  BY <1>4, <1>5 DEF At, Source, Follow, IsLink
<1>7. ProcOK(p)
  BY DEF OwnInv
<1>8. ChangeOK(p)'
  BY <1>1, <1>2, <1>4, <1>5, <1>6, <1>7 DEF ProcOK, ChangeOK, ModeOf
<1>9. ProcOK(p)' /\ scene.own[p] # {}
  BY <1>2, <1>4, <1>5, <1>7, <1>8 DEF ProcOK, MknodOK, RemoveOK
<1> QED BY <1>2, <1>9, Moves DEF Excused

LEMMA OwnRealFails ==
    ASSUME OwnInv, TypeInv', NEW p \in Procs, RealFails(p)
    PROVE  OwnInv'
<1>1. proc[p].pc = "real" /\ (scene.refused \/ ~ Can(p)) /\ Return(p)
      /\ UNCHANGED <<files, entry, truth>>
  BY DEF RealFails
<1>2. scene.own[p] # {} /\ ~ Showing(scene)
  BY <1>1 DEF OwnInv, ProcOK, RemoveOK, Showing
<1> QED BY <1>1, <1>2, Returns

\* The file mknod has opened is there to be stat'ed.
LEMMA Opened ==
    ASSUME OwnInv, NEW p \in Procs, proc[p].pc \in {"stat", "mknod"}
    PROVE  /\ proc[p].name \in scene.own[p] /\ proc[p].name \in Names /\ ProcOK(p)
           /\ Follow(proc[p].name) = dir[proc[p].name] /\ dir[proc[p].name] # NoFile
<1>1. ProcOK(p) /\ proc[p].name \in scene.own[p] /\ proc[p].call \in scene.kinds
  BY DEF OwnInv, ProcOK
<1>2. proc[p].name \in Names
  BY <1>1, Started DEF OwnInv
<1>3. proc[p].call = "mknod" /\ dir[proc[p].name] # NoFile
  BY <1>1 DEF ProcOK, MknodOK
<1>4. "symlink" \notin scene.kinds
  BY <1>1, <1>3 DEF OwnInv, Sober
<1> QED BY <1>1, <1>2, <1>3, <1>4, NoLinks

LEMMA OwnMknodStat ==
    ASSUME OwnInv, TypeInv', NEW p \in Procs, MknodStat(p)
    PROVE  OwnInv'
<1>1. PICK n : n = proc[p].name
  OBVIOUS
<1>2. proc[p].pc = "stat" /\ UNCHANGED <<files, entry, truth>>
  BY DEF MknodStat
<1>3. /\ n \in scene.own[p] /\ n \in Names /\ ProcOK(p)
      /\ Follow(n) = dir[n] /\ dir[n] # NoFile
  BY <1>1, <1>2, Opened
<1>4. PICK state : state = [proc[p] EXCEPT !.pc = "mknod", !.key = dir[n]]
  OBVIOUS
<1>5. Become(p, state) /\ proc[p] \in Proc
  BY <1>1, <1>3, <1>4 DEF MknodStat, OwnInv, TypeInv, TypeOK
<1>6. /\ state.pc = "mknod" /\ state.name = n /\ state.call = proc[p].call
      /\ state.key = dir[n] /\ state.perm = proc[p].perm /\ state.node = proc[p].node
  BY <1>1, <1>4, <1>5 DEF Proc
<1>7. proc'[p] = state /\ UNCHANGED <<scene, dir, type, perm, fd, entry, truth>>
  BY <1>2, <1>5 DEF Become, OwnInv, TypeInv, TypeOK, files
<1>8. MknodOK(p)'
  <2>1. PICK k, m : k = proc[p].node /\ m = proc[p].perm
    OBVIOUS
  <2>2. /\ proc[p].call = "mknod" /\ k \in scene.nodes /\ m \in scene.perms
        /\ scene.refused \/ truth[dir[n]] = Made(k, m)
    BY <1>1, <1>2, <1>3, <2>1 DEF ProcOK, MknodOK
  <2>3. Made(k, m)' = Made(k, m)
    BY <1>7 DEF Made
  <2> QED BY <1>3, <1>6, <1>7, <2>1, <2>2, <2>3 DEF MknodOK
<1>9. ProcOK(p)'
  <2>1. ChangeOK(p)' /\ RemoveOK(p)'
    BY <1>6, <1>7 DEF ChangeOK, RemoveOK
  <2>2. n \in scene.own[p] /\ proc[p].call \in scene.kinds
    BY <1>1, <1>2, <1>3 DEF ProcOK
  <2> QED BY <1>6, <1>7, <1>8, <2>1, <2>2 DEF ProcOK
<1>10. \A i \in Keys : Excused(p, i) => Excused(p, i)'
  BY <1>1, <1>2, <1>6, <1>7 DEF Excused
<1> QED BY <1>2, <1>3, <1>5, <1>9, <1>10, Moves

\* The real mknod is not called: nobody else removes the file.
LEMMA OwnMknodFalls ==
    ASSUME OwnInv, NEW p \in Procs, MknodFalls(p)
    PROVE  OwnInv'
<1>1. proc[p].pc = "stat" /\ Follow(proc[p].name) = NoFile
  BY DEF MknodFalls
<1> QED BY <1>1, Opened

\* A call that removes a name, once it has looked.
Looked(p, state) ==
    /\ state.name \in scene.own[p] /\ state.call \in scene.kinds /\ state.call \in Removing
    /\ state.call \in Renames => state.to \in scene.own[p]
    /\ state.key = dir[IF state.call \in Renames THEN state.to ELSE state.name]
    /\ \/ scene.refused
       \/ CanUnlink(state.call, state.name) \/ CanRename(state.call, state.name, state.to)
    /\ \/ /\ state.pc = "statold" /\ state.call \in Renames
          /\ state.key # NoFile /\ LastName(state.key)
       \/ /\ state.pc = "remove" /\ state.key # NoFile /\ LastName(state.key)
          /\ state.call \in Renames => dir[state.name] # state.key
       \/ /\ state.pc = "real"
          /\ \/ state.key = NoFile \/ ~ LastName(state.key)
             \/ state.call \in Renames /\ dir[state.name] = state.key

LEMMA Looks ==
    ASSUME OwnInv, TypeInv', NEW p \in Procs, proc[p].pc \in {"idle", "statold"},
           NEW state, Become(p, state), UNCHANGED <<files, entry, truth>>, Looked(p, state)
    PROVE  OwnInv'
<1>1. proc'[p] = state /\ UNCHANGED <<scene, dir, type, perm, fd, entry, truth>>
  BY DEF Become, OwnInv, TypeInv, TypeOK, files
<1>2. Victim(p)' = state.key
  BY <1>1 DEF Victim, Looked
<1>3. LastName(state.key)' <=> LastName(state.key)
  BY <1>1 DEF LastName, StNlink
<1>4. scene.refused' \/ Can(p)'
  BY <1>1 DEF Looked, Can, CanRename, CanUnlink, IsDir
<1>5. Doomed(p)' <=> /\ state.key # NoFile /\ LastName(state.key)
                     /\ state.call \in Renames => dir[state.name] # state.key
  <2>1. LastName(proc[p].key)' <=> LastName(state.key)
    BY <1>1 DEF LastName, StNlink
  <2> QED BY <1>1, <2>1 DEF Doomed
<1>6. RemoveOK(p)'
  <2>1. state.pc = "statold" => LastName(proc[p].key)'
    BY <1>1 DEF Looked, LastName, StNlink
  <2> QED BY <1>1, <1>2, <1>4, <1>5, <2>1 DEF Looked, RemoveOK
<1>7. ProcOK(p)' /\ scene.own[p] # {}
  BY <1>1, <1>6 DEF Looked, ProcOK, ChangeOK, MknodOK
<1> QED BY <1>7, Moves DEF Excused

LEMMA OwnMaybeRemove ==
    ASSUME OwnInv, TypeInv', NEW p \in Procs, NEW n \in scene.own[p], MaybeRemove(p, n)
    PROVE  OwnInv'
<1>1. PICK call \in {"unlink", "rmdir"} :
         /\ Ready(p, call) /\ (scene.refused \/ CanUnlink(call, n))
         /\ LET i == Follow(n) IN
            Become(p, [Idle EXCEPT !.call = call, !.name = n, !.key = i,
                          !.pc = IF i # NoFile /\ LastName(i) THEN "remove" ELSE "real"])
  BY DEF MaybeRemove
<1>2. n \in Names /\ Follow(n) = dir[n]
  <2>1. "symlink" \notin scene.kinds
    BY <1>1 DEF Ready, OwnInv, Sober, Removing
  <2> QED BY <2>1, Started, NoLinks DEF OwnInv
<1>3. PICK i, state :
         /\ i = dir[n]
         /\ state = [Idle EXCEPT !.call = call, !.name = n, !.key = i,
                        !.pc = IF i # NoFile /\ LastName(i) THEN "remove" ELSE "real"]
  OBVIOUS
<1>4. /\ state.call = call /\ state.name = n /\ state.key = i
      /\ state.pc = IF i # NoFile /\ LastName(i) THEN "remove" ELSE "real"
  BY <1>3 DEF Idle
<1>5. Become(p, state) /\ UNCHANGED <<files, entry, truth>>
  BY <1>1, <1>2, <1>3 DEF MaybeRemove
<1>6. Looked(p, state) /\ proc[p].pc = "idle"
  BY <1>1, <1>3, <1>4 DEF Ready, Looked, Removing, Renames
<1> QED BY <1>5, <1>6, Looks

LEMMA OwnPrepareRename ==
    ASSUME OwnInv, TypeInv', NEW p \in Procs, NEW n \in scene.own[p], NEW to \in scene.own[p],
           PrepareRename(p, n, to)
    PROVE  OwnInv'
<1>1. PICK call \in Renames :
         /\ Ready(p, call) /\ (scene.refused \/ CanRename(call, n, to))
         /\ LET i == Follow(to) IN
            Become(p, [Idle EXCEPT !.call = call, !.name = n, !.to = to, !.key = i,
                          !.pc = IF i # NoFile /\ LastName(i) THEN "statold" ELSE "real"])
  BY DEF PrepareRename
<1>2. to \in Names /\ Follow(to) = dir[to]
  <2>1. "symlink" \notin scene.kinds
    BY <1>1 DEF Ready, OwnInv, Sober, Removing
  <2> QED BY <2>1, Started, NoLinks DEF OwnInv
<1>3. PICK i, state :
         /\ i = dir[to]
         /\ state = [Idle EXCEPT !.call = call, !.name = n, !.to = to, !.key = i,
                        !.pc = IF i # NoFile /\ LastName(i) THEN "statold" ELSE "real"]
  OBVIOUS
<1>4. /\ state.call = call /\ state.name = n /\ state.to = to /\ state.key = i
      /\ state.pc = IF i # NoFile /\ LastName(i) THEN "statold" ELSE "real"
  BY <1>3 DEF Idle
<1>5. Become(p, state) /\ UNCHANGED <<files, entry, truth>>
  BY <1>1, <1>2, <1>3 DEF PrepareRename
<1>6. Looked(p, state) /\ proc[p].pc = "idle"
  BY <1>1, <1>3, <1>4 DEF Ready, Looked, Removing
<1> QED BY <1>5, <1>6, Looks

LEMMA OwnStatOld ==
    ASSUME OwnInv, TypeInv', NEW p \in Procs, StatOld(p)
    PROVE  OwnInv'
<1>1. PICK n, to : n = proc[p].name /\ n \in scene.own[p] /\ n \in Names /\ to = proc[p].to
  BY Started DEF StatOld, OwnInv, ProcOK
<1>2. proc[p].pc = "statold" /\ UNCHANGED <<files, entry, truth>> /\ ProcOK(p)
  BY DEF StatOld, OwnInv
<1>3. /\ proc[p].call \in Renames /\ proc[p].call \in scene.kinds /\ LastName(proc[p].key)
      /\ proc[p].key # NoFile /\ proc[p].key = dir[to] /\ to \in scene.own[p]
      /\ \/ scene.refused
         \/ CanUnlink(proc[p].call, n) \/ CanRename(proc[p].call, n, to)
  BY <1>1, <1>2 DEF ProcOK, RemoveOK, Victim, Can, OwnInv, TypeInv, WorkTyped, Knowing
<1>4. Follow(n) = dir[n]
  BY <1>1, <1>3, NoLinks DEF OwnInv, Sober, Removing
<1>5. PICK state : state = [proc[p] EXCEPT !.pc = IF dir[n] = proc[p].key THEN "real"
                                                  ELSE "remove"]
  OBVIOUS
<1>6. Become(p, state) /\ proc[p] \in Proc
  BY <1>1, <1>4, <1>5 DEF StatOld, OwnInv, TypeInv, TypeOK
<1>7. /\ state.call = proc[p].call /\ state.name = n /\ state.to = to
      /\ state.key = proc[p].key
      /\ state.pc = IF dir[n] = proc[p].key THEN "real" ELSE "remove"
  BY <1>1, <1>3, <1>5, <1>6 DEF Proc
<1>8. Looked(p, state)
  BY <1>1, <1>3, <1>7 DEF Looked, Removing
<1> QED BY <1>2, <1>6, <1>8, Looks

(***************************************************************************)
(* The steps that change an entry.                                         *)
(***************************************************************************)
\* A call that works on an entry works on a file of its process.
LEMMA Working ==
    ASSUME OwnInv, NEW p \in Procs, proc[p].pc \in {"upsert", "get", "set", "chmod"}
    PROVE  /\ proc[p].key \in Keys /\ proc[p].key = At(p) /\ proc[p].key # NoFile
           /\ type[proc[p].key] # "free" /\ Has(p, proc[p].key) /\ scene.own[p] # {}
<1>1. PICK n, call : n = proc[p].name /\ call = proc[p].call
  OBVIOUS
<1>2. /\ n \in scene.own[p] /\ n \in Names
      /\ proc[p].key # NoFile /\ proc[p].key = Source(p, call, n)
  BY <1>1, Started DEF OwnInv, ProcOK, ChangeOK, At
<1> QED BY <1>1, <1>2, SourceMine DEF At

\* The entry update_inode and upsert_chown begin with.
Old(i) == IF entry[i] = Absent THEN New(Current[1], Current[2]) ELSE entry[i]

LEMMA PatchedIs ==
    ASSUME NEW inode \in FakeInode, NEW mode
    PROVE  Patched(mode, inode) =
              [inode EXCEPT !.mode = IF inode.mode = None THEN mode ELSE inode.mode]
<1>1. inode # Absent
  BY ReplyAssumption
<1> QED BY <1>1 DEF Patched

LEMMA ShownIs ==
    ASSUME TypeInv, NEW i \in Keys
    PROVE  Old(i) \in FakeInode /\ Shown(i) = Patched(StMode(i), Old(i))
<1>1. Old(i) \in FakeInode
  BY NewTyped DEF Old, TypeInv, TypeOK
<1>2. CASE entry[i] = Absent
  <2>1. Old(i) = New(Current[1], Current[2]) /\ Old(i).mode = None
    BY <1>2 DEF Old, New
  <2>2. Patched(StMode(i), Old(i)) = [New(Current[1], Current[2]) EXCEPT !.mode = StMode(i)]
    BY <1>1, <2>1, PatchedIs
  <2> QED BY <1>1, <1>2, <2>2 DEF Shown, Patched
<1>3. CASE entry[i] # Absent
  BY <1>1, <1>3 DEF Shown, Old
<1> QED BY <1>1, <1>2, <1>3

LEMMA MergeMode ==
    ASSUME NEW inode \in FakeInode, NEW mode, NEW u, NEW g
    PROVE  MergeChown([inode EXCEPT !.mode = mode], u, g)
           = [MergeChown(inode, u, g) EXCEPT !.mode = mode]
  BY DEF MergeChown, FakeInode

\* A process changes the entry of a file of its own as root would have changed the file.
LEMMA Writes ==
    ASSUME OwnInv, TypeInv', NEW p \in Procs, NEW state, Become(p, state), UNCHANGED files,
           NEW k \in Keys, Has(p, k), NEW e, NEW t,
           entry' = [entry EXCEPT ![k] = e], truth' = [truth EXCEPT ![k] = t], ProcOK(p)',
           Showing(scene) => Patched(StMode(k), e) = t \/ Excused(p, k)',
           \A i \in Keys \ {k} : ~ Excused(p, i)
    PROVE  OwnInv'
<1>1. /\ UNCHANGED <<scene, dir, type, perm, fd>>
      /\ \A q \in Procs \ {p} : proc'[q] = proc[q]
  BY DEF files, Become, OwnInv, TypeInv, TypeOK
<1>2. /\ entry'[k] = e /\ truth'[k] = t
      /\ \A i \in Keys \ {k} : entry'[i] = entry[i] /\ truth'[i] = truth[i]
  BY DEF OwnInv, TypeInv, TypeOK
<1>3. scene.own[p] # {} /\ type[k] # "free" /\ \A n \in scene.own[p] : n \in Names
  BY HasFile, OwnershipAssumption DEF OwnInv, TypeInv, TypeOK, Scene
<1>4. Keeps(p)
  BY <1>1, <1>2, <1>3, NameMine DEF Keeps
<1>5. \A i \in Keys : fd'[p] = i => Has(p, i)
  BY <1>1, OwnershipAssumption DEF OwnInv, Owned
<1>6. ASSUME NEW i \in Keys, type[i] = "free" \/ Has(p, i) PROVE FileOK(p, i)'
  <2>1. FileOK(p, i)
    BY <1>6 DEF OwnInv
  <2>2. StMode(i)' = StMode(i) /\ (KindOK(i)' <=> KindOK(i))
    BY <1>1 DEF StMode, KindOK, Only
  <2>3. CASE i = k
    <3>1. Shown(i)' = Patched(StMode(i), e)
      BY <1>2, <2>2, <2>3 DEF Shown
    <3> QED BY <1>1, <1>2, <1>3, <2>1, <2>2, <2>3, <3>1 DEF FileOK
  <2>4. CASE i # k
    <3>1. Shown(i)' = Shown(i) /\ truth'[i] = truth[i] /\ entry'[i] = entry[i]
      BY <1>2, <2>2, <2>4 DEF Shown
    <3> QED BY <1>1, <2>1, <2>2, <2>4, <3>1 DEF FileOK
  <2> QED BY <2>3, <2>4
<1> QED BY <1>3, <1>4, <1>5, <1>6, Compose

\* A file whose process does neither shows what root would have given it.
LEMMA Told ==
    ASSUME OwnInv, NEW p \in Procs, NEW i \in Keys, Has(p, i), ~ Excused(p, i), Showing(scene)
    PROVE  Shown(i) = truth[i]
  BY HasFile DEF OwnInv, FileOK

LEMMA ReturnsOK ==
    ASSUME OwnInv, NEW p \in Procs, Return(p)
    PROVE  ProcOK(p)' /\ Become(p, Idle)
<1>1. proc'[p].pc = "idle" /\ Become(p, Idle)
  BY DEF Return, Become, OwnInv, TypeInv, TypeOK, Idle
<1> QED BY <1>1 DEF ProcOK, ChangeOK, MknodOK, RemoveOK

LEMMA OwnUpsertChown ==
    ASSUME OwnInv, TypeInv', NEW p \in Procs, UpsertChown(p)
    PROVE  OwnInv'
<1>1. PICK k, ids : k = proc[p].key /\ ids = proc[p].ids
  OBVIOUS
<1>2. /\ proc[p].pc = "upsert" /\ Return(p) /\ UNCHANGED files
      /\ entry' = [entry EXCEPT ![k] = MergeChown(Old(k), ids[1], ids[2])]
      /\ truth' = [truth EXCEPT ![k] =
             IF truth[k] = Absent THEN truth[k] ELSE MergeChown(truth[k], ids[1], ids[2])]
  BY <1>1 DEF UpsertChown, Chowned, Old
<1>3. k \in Keys /\ Has(p, k) /\ ids \in Chowns \cup {Current}
  BY <1>1, <1>2, Working DEF OwnInv, TypeInv, TypeOK, Proc
<1>4. truth[k] # Absent /\ ~ Excused(p, k)
  BY <1>2, <1>3, HasFile DEF OwnInv, Excused
<1>5. PICK e, t : e = MergeChown(Old(k), ids[1], ids[2]) /\ t = MergeChown(truth[k], ids[1], ids[2])
  OBVIOUS
<1>6. Showing(scene) => Patched(StMode(k), e) = t
  <2>1. PICK old \in FakeInode : old = Old(k)
    BY <1>3, ShownIs DEF OwnInv
  <2>2. e \in FakeInode /\ e.mode = old.mode
    BY <1>3, <1>5, <2>1, MergeTyped
  <2>3. ASSUME Showing(scene) PROVE truth[k] = Patched(StMode(k), old)
    BY <1>3, <1>4, <2>1, <2>3, Told, ShownIs DEF OwnInv
  <2>4. PICK mode : mode = IF old.mode = None THEN StMode(k) ELSE old.mode
    OBVIOUS
  <2>5. Patched(StMode(k), e) = [e EXCEPT !.mode = mode]
    BY <2>2, <2>4, PatchedIs
  <2>6. Patched(StMode(k), old) = [old EXCEPT !.mode = mode]
    BY <2>4, PatchedIs
  <2>7. MergeChown([old EXCEPT !.mode = mode], ids[1], ids[2]) = [e EXCEPT !.mode = mode]
    BY <1>5, <2>1, MergeMode
  <2> QED BY <1>5, <2>3, <2>5, <2>6, <2>7
<1>7. truth' = [truth EXCEPT ![k] = t] /\ entry' = [entry EXCEPT ![k] = e]
  BY <1>2, <1>4, <1>5
<1>8. \A i \in Keys : ~ Excused(p, i)
  BY <1>2 DEF Excused
<1> QED BY <1>2, <1>3, <1>6, <1>7, <1>8, ReturnsOK, Writes

LEMMA OwnSetInode ==
    ASSUME OwnInv, TypeInv', NEW p \in Procs, SetInode(p)
    PROVE  OwnInv'
<1>1. PICK k, old, e, t : /\ k = proc[p].key /\ old = Old(k) /\ e = Stored(p, old)
                          /\ t = StoredTrue(p, truth[k])
  OBVIOUS
<1>2. /\ proc[p].pc = "set" /\ UNCHANGED files
      /\ entry' = [entry EXCEPT ![k] = Stored(p, proc[p].inode)]
      /\ truth' = [truth EXCEPT ![k] = t]
      /\ IF proc[p].call \in {"chmod", "fchmod"}
         THEN Become(p, [proc[p] EXCEPT !.pc = "chmod"]) ELSE Return(p)
  BY <1>1, SetInodeIs DEF OwnInv
<1>3. /\ k \in Keys /\ Has(p, k) /\ k = At(p) /\ k # NoFile /\ type[k] # "free"
      /\ proc[p] \in Proc /\ proc[p].perm \in Perms /\ proc[p].xattrs \in Xattrs
  BY <1>1, <1>2, Working DEF OwnInv, TypeInv, TypeOK, Proc
<1>4. proc[p].inode = old /\ ModeOf(type[k], proc[p].mode) /\ ProcOK(p)
  BY <1>1, <1>2 DEF OwnInv, ProcOK, ChangeOK, Old
<1>5. truth[k] # Absent /\ old \in FakeInode /\ Shown(k) = Patched(StMode(k), old)
  BY <1>1, <1>3, HasFile, ShownIs DEF OwnInv
<1>6. \A i \in Keys : ~ Excused(p, i)
  BY <1>2 DEF Excused
<1>7. PICK mode : mode = IF old.mode = None THEN StMode(k) ELSE old.mode
  OBVIOUS
<1>8. Showing(scene) => truth[k] = [old EXCEPT !.mode = mode]
  BY <1>3, <1>5, <1>6, <1>7, PatchedIs, Told
<1>9. CASE proc[p].call \in {"chmod", "fchmod"}
  <2>1. PICK new, state : /\ new = (proc[p].mode \div ALLPERMS) * ALLPERMS + proc[p].perm
                          /\ state = [proc[p] EXCEPT !.pc = "chmod"]
    OBVIOUS
  <2>2. type[k] \in Types /\ (Showing(scene) => ModeOf(type[k], truth[k].mode))
    <3>1. proc[p].call \in scene.kinds
      BY <1>2, <1>4 DEF ProcOK
    <3>2. ModeOf(type[k], truth[k].mode) \/ NodeMode(type[k], truth[k].mode)
      BY <1>3 DEF OwnInv, TypeInv, FilesTyped
    <3>3. Showing(scene) /\ "mknod" \in scene.kinds => scene.nodes \subseteq {"reg"}
      BY <1>9, <3>1 DEF Showing, Exact
    <3>4. Showing(scene) /\ NodeMode(type[k], truth[k].mode) => ModeOf(type[k], truth[k].mode)
      BY <3>3 DEF NodeMode, MadeType
    <3> QED BY <1>3, <3>2, <3>4 DEF OwnInv, TypeInv, TypeOK
  <2>3. /\ new = TypeBits[type[k]] + proc[p].perm
        /\ Showing(scene) => (truth[k].mode \div ALLPERMS) * ALLPERMS + proc[p].perm = new
    BY <1>3, <1>4, <2>1, <2>2, Composed
  <2>4. new \in Modes /\ new # None
    BY <1>3, <1>4, <2>1, <2>2, Composed, ModeTyped
  <2>5. /\ e = [old EXCEPT !.mode = new]
        /\ Showing(scene) => t = [truth[k] EXCEPT !.mode = new]
    <3>1. e = [old EXCEPT !.mode = new]
      BY <1>1, <1>9, <2>1 DEF Stored
    <3>2. t = [truth[k] EXCEPT !.mode = (truth[k].mode \div ALLPERMS) * ALLPERMS + proc[p].perm]
      BY <1>1, <1>5, <1>9 DEF StoredTrue
    <3> QED BY <2>3, <3>1, <3>2
  <2>6. e \in FakeInode /\ e.mode = new /\ e # Absent
    BY <1>5, <2>4, <2>5, ReplyAssumption DEF FakeInode
  <2>7. Patched(StMode(k), e) = e
    BY <2>4, <2>6 DEF Patched, FakeInode
  <2>8. Showing(scene) => Patched(StMode(k), e) = t
    BY <1>5, <1>8, <2>5, <2>7 DEF FakeInode
  <2>9. Become(p, state)
    BY <1>2, <1>9, <2>1
  <2>10. ProcOK(p)'
    <3>1. /\ state.pc = "chmod" /\ state.name = proc[p].name /\ state.call = proc[p].call
          /\ state.key = k
      BY <1>1, <1>3, <2>1 DEF Proc
    <3>2. proc'[p] = state /\ UNCHANGED <<scene, dir, type, perm, fd>> /\ entry'[k] = e
      BY <1>1, <1>2, <1>3, <1>4, <2>9 DEF Become, OwnInv, TypeInv, TypeOK, files
    <3>3. At(p)' = At(p)
      BY <3>1, <3>2 DEF At, Source, Follow, IsLink
    <3>4. ChangeOK(p)'
      BY <1>3, <2>4, <2>6, <3>1, <3>2, <3>3 DEF ChangeOK
    <3> QED BY <1>2, <1>4, <3>1, <3>2, <3>4 DEF ProcOK, MknodOK, RemoveOK
  <2> QED BY <1>1, <1>2, <1>3, <1>4, <1>6, <2>8, <2>9, <2>10, Writes
<1>10. CASE proc[p].call \notin {"chmod", "fchmod"}
  <2>1. PICK x : x = proc[p].xattrs
    OBVIOUS
  <2>2. e = [old EXCEPT !.xattrs = x] /\ t = [truth[k] EXCEPT !.xattrs = x]
    BY <1>1, <1>5, <1>10, <2>1 DEF Stored, StoredTrue
  <2>3. e \in FakeInode /\ e.mode = old.mode
    BY <1>3, <1>5, <2>1, <2>2 DEF FakeInode
  <2>4. Patched(StMode(k), e) = [e EXCEPT !.mode = mode]
    BY <1>7, <2>3, PatchedIs
  <2>5. Showing(scene) => Patched(StMode(k), e) = t
    BY <1>5, <1>8, <2>2, <2>4 DEF FakeInode
  <2> QED BY <1>1, <1>2, <1>3, <1>4, <1>6, <1>10, <2>5, ReturnsOK, Writes
<1> QED BY <1>9, <1>10

LEMMA OwnMknodSet ==
    ASSUME OwnInv, TypeInv', NEW p \in Procs, MknodSet(p)
    PROVE  OwnInv'
<1>1. PICK k, n, t, m, e : /\ k = proc[p].key /\ n = proc[p].name /\ t = proc[p].node
                           /\ m = proc[p].perm /\ e = Recorded(t, m)
  OBVIOUS
<1>2. /\ proc[p].pc = "mknod" /\ Return(p) /\ UNCHANGED <<files, truth>>
      /\ entry' = [entry EXCEPT ![k] = e]
  BY <1>1 DEF MknodSet
<1>3. n \in scene.own[p] /\ n \in Names /\ k = dir[n] /\ k # NoFile
  BY <1>1, <1>2, Opened DEF ProcOK, MknodOK
<1>4. /\ "mknod" \in scene.kinds /\ t \in scene.nodes /\ m \in scene.perms
      /\ scene.refused \/ truth[k] = Made(t, m)
  BY <1>1, <1>2, <1>3, Opened DEF ProcOK, MknodOK
<1>5. k \in Keys /\ Has(p, k)
  BY <1>3, NameMine
<1>6. \A i \in Keys \ {k} : ~ Excused(p, i)
  BY <1>1, <1>2, <1>3 DEF Excused
<1>7. e \in FakeInode /\ e.mode # None /\ e # Absent
  <2>1. t \in Nodes /\ m \in Perms
    BY <1>3, <1>4, Started DEF OwnInv
  <2> QED BY <1>1, <2>1, RecordedTyped
<1>8. Patched(StMode(k), e) = e
  BY <1>7 DEF Patched, FakeInode
<1>9. truth' = [truth EXCEPT ![k] = truth[k]]
  BY <1>2 DEF OwnInv, TypeInv, TypeOK
<1>10. Showing(scene) => Patched(StMode(k), e) = truth[k]
  <2>1. Showing(scene) => t # "none" /\ scene.umask[m] = m
    BY <1>4 DEF Showing, Exact
  <2>2. Showing(scene) => Made(t, m) = e
    BY <1>1, <2>1 DEF Made, Recorded, MadeType
  <2> QED BY <1>4, <1>8, <2>2 DEF Showing
<1> QED BY <1>2, <1>5, <1>6, <1>9, <1>10, ReturnsOK, Writes

LEMMA OwnRemoveInode ==
    ASSUME OwnInv, TypeInv', NEW p \in Procs, RemoveInode(p)
    PROVE  OwnInv'
<1>1. PICK k, state : k = proc[p].key /\ state = [proc[p] EXCEPT !.pc = "real"]
  OBVIOUS
<1>2. /\ proc[p].pc = "remove" /\ Become(p, state) /\ UNCHANGED <<files, truth>>
      /\ entry' = [entry EXCEPT ![k] = Absent]
  BY <1>1 DEF RemoveInode
<1>3. ProcOK(p) /\ Doomed(p) /\ RemoveOK(p) /\ k # NoFile
  BY <1>1, <1>2 DEF OwnInv, ProcOK, RemoveOK, Doomed
<1>4. k \in Keys /\ Has(p, k)
  <2>1. \E m \in scene.own[p] : k = dir[m]
    BY <1>1, <1>2, <1>3 DEF ProcOK, RemoveOK, Victim
  <2> QED BY <1>3, <2>1, Started, NameMine DEF OwnInv
<1>5. \A i \in Keys : ~ Excused(p, i)
  BY <1>2 DEF Excused
<1>6. proc[p] \in Proc
  BY DEF OwnInv, TypeInv, TypeOK
<1>7. /\ state.pc = "real" /\ state.name = proc[p].name /\ state.to = proc[p].to
      /\ state.call = proc[p].call /\ state.key = k
  BY <1>1, <1>6 DEF Proc
<1>8. /\ proc'[p] = state /\ UNCHANGED <<scene, dir, type, perm, fd>> /\ entry'[k] = Absent
  BY <1>2, <1>4 DEF Become, OwnInv, TypeInv, TypeOK, files
<1>9. Victim(p)' = Victim(p) /\ Can(p)' = Can(p)
  BY <1>7, <1>8 DEF Victim, Can, CanRename, CanUnlink, IsDir
<1>10. Doomed(p)'
  <2>1. LastName(k)' <=> LastName(k)
    BY <1>8 DEF LastName, StNlink
  <2> QED BY <1>1, <1>3, <1>7, <1>8, <2>1 DEF Doomed
<1>11. RemoveOK(p)'
  BY <1>1, <1>2, <1>3, <1>7, <1>8, <1>9 DEF RemoveOK
<1>12. ProcOK(p)'
  BY <1>2, <1>3, <1>7, <1>8, <1>11 DEF ProcOK, ChangeOK, MknodOK
<1>13. Excused(p, k)'
  BY <1>7, <1>8, <1>10 DEF Excused
<1>14. truth' = [truth EXCEPT ![k] = truth[k]]
  BY <1>2 DEF OwnInv, TypeInv, TypeOK
<1> QED BY <1>2, <1>4, <1>5, <1>12, <1>13, <1>14, Writes

(***************************************************************************)
(* The steps that change the files.                                        *)
(***************************************************************************)
LEMMA OwnRealChmod ==
    ASSUME OwnInv, TypeInv', NEW p \in Procs, RealChmod(p)
    PROVE  OwnInv'
<1>1. PICK k : k = Source(p, proc[p].call, proc[p].name)
  OBVIOUS
<1>2. /\ proc[p].pc = "chmod" /\ Return(p) /\ UNCHANGED <<scene, dir, type, fd, entry, truth>>
      /\ perm' = [perm EXCEPT ![k] = proc[p].perm] \/ UNCHANGED perm
  BY <1>1 DEF RealChmod
<1>3. /\ k \in Keys /\ k = proc[p].key /\ Has(p, k) /\ type[k] # "free" /\ scene.own[p] # {}
  BY <1>1, <1>2, Working DEF At
<1>4. entry[k] # Absent /\ entry[k].mode # None
  BY <1>2, <1>3 DEF OwnInv, ProcOK, ChangeOK
<1>5. \A i \in Keys \ {k} : perm'[i] = perm[i]
  BY <1>2 DEF OwnInv, TypeInv, TypeOK
<1>6. \A q \in Procs \ {p} : proc'[q] = proc[q]
  BY <1>2, ReturnsOK DEF Become, OwnInv, TypeInv, TypeOK
<1>7. \A n \in scene.own[p] : n \in Names
  BY Started DEF OwnInv
<1>8. Keeps(p)
  BY <1>2, <1>3, <1>5, <1>6, <1>7, NameMine DEF Keeps
<1>9. \A i \in Keys : Shown(i)' = Shown(i)
  <2>1. Patched(StMode(k)', entry[k]) = Patched(StMode(k), entry[k])
    <3>1. entry[k] \in FakeInode
      BY <1>3, <1>4 DEF OwnInv, TypeInv, TypeOK
    <3> QED BY <1>4, <3>1, PatchedIs
  <2>2. Shown(k)' = Shown(k)
    BY <1>2, <2>1 DEF Shown
  <2>3. \A i \in Keys \ {k} : Shown(i)' = Shown(i)
    BY <1>2, <1>5 DEF Shown, StMode
  <2> QED BY <2>2, <2>3
<1>10. ASSUME NEW i \in Keys, type[i] = "free" \/ Has(p, i) PROVE FileOK(p, i)'
  <2>1. FileOK(p, i) /\ ~ Excused(p, i)
    BY <1>2, <1>10 DEF OwnInv, Excused
  <2>2. KindOK(i)' <=> KindOK(i)
    BY <1>2 DEF KindOK, Only
  <2> QED BY <1>2, <1>9, <2>1, <2>2 DEF FileOK
<1>11. \A i \in Keys : fd'[p] = i => Has(p, i)
  BY <1>2, OwnershipAssumption DEF OwnInv, Owned
<1> QED BY <1>2, <1>3, <1>8, <1>10, <1>11, ReturnsOK, Compose

LEMMA OwnOpen ==
    ASSUME OwnInv, TypeInv', NEW p \in Procs, NEW n \in scene.own[p], Open(p, n)
    PROVE  OwnInv'
<1>1. PICK k : k = Follow(n)
  OBVIOUS
<1>2. /\ proc[p].pc = "idle" /\ k # NoFile /\ fd' = [fd EXCEPT ![p] = k]
      /\ UNCHANGED <<scene, dir, type, perm, entry, proc, truth>>
  BY <1>1 DEF Open, Ready
<1>3. k \in Keys /\ Has(p, k)
  <2>1. k = Source(p, "stat", n)
    BY <1>1 DEF Source
  <2> QED BY <1>2, <2>1, Started, SourceMine DEF OwnInv
<1>4. fd'[p] = k /\ \A q \in Procs \ {p} : fd'[q] = fd[q]
  BY <1>2 DEF OwnInv, TypeInv, TypeOK
<1>5. \A m \in scene.own[p] : m \in Names
  BY Started DEF OwnInv
<1>6. Keeps(p)
  BY <1>2, <1>4, <1>5, NameMine DEF Keeps
<1>7. ASSUME NEW i \in Keys, type[i] = "free" \/ Has(p, i) PROVE FileOK(p, i)'
  <2>1. FileOK(p, i) /\ ~ Excused(p, i)
    BY <1>2, <1>7 DEF OwnInv, Excused
  <2>2. (KindOK(i)' <=> KindOK(i)) /\ Shown(i)' = Shown(i)
    BY <1>2 DEF KindOK, Only, Shown, StMode
  <2> QED BY <1>2, <2>1, <2>2 DEF FileOK
<1>8. ProcOK(p)'
  BY <1>2 DEF ProcOK, ChangeOK, MknodOK, RemoveOK
<1> QED BY <1>3, <1>4, <1>6, <1>7, <1>8, Compose

LEMMA OwnClose ==
    ASSUME OwnInv, TypeInv', NEW p \in Procs, Close(p)
    PROVE  OwnInv'
<1>1. /\ proc[p].pc = "idle" /\ fd[p] # NoFile /\ fd' = [fd EXCEPT ![p] = NoFile]
      /\ UNCHANGED <<scene, dir, perm, entry, proc>> /\ Reap
  BY DEF Close, Ready
<1>2. fd'[p] = NoFile /\ \A q \in Procs \ {p} : fd'[q] = fd[q]
  BY <1>1 DEF OwnInv, TypeInv, TypeOK
<1>3. \A i \in Keys : type'[i] = type[i] /\ truth'[i] = truth[i]
  <2>1. ASSUME NEW i \in Keys, type[i] # "free" PROVE Kept(i)
    <3>1. PICK q \in Procs : Has(q, i)
      BY <2>1 DEF OwnInv, Owned
    <3> QED BY <1>1, <3>1 DEF Has, Kept
  <2>2. \A i \in Keys : type[i] = "free" => truth[i] = Absent
    BY DEF OwnInv, TypeInv, FilesTyped
  <2> QED BY <1>1, <2>1, <2>2, ReapIs DEF OwnInv
<1>4. scene.own[p] # {} /\ \A m \in scene.own[p] : m \in Names
  <2>1. Has(p, fd[p])
    BY <1>1 DEF OwnInv, Owned
  <2> QED BY <2>1, Started DEF OwnInv, Has
<1>5. Keeps(p)
  BY <1>1, <1>2, <1>3, <1>4, NameMine DEF Keeps
<1>6. ASSUME NEW i \in Keys, type[i] = "free" \/ Has(p, i) PROVE FileOK(p, i)'
  <2>1. FileOK(p, i) /\ ~ Excused(p, i)
    BY <1>1, <1>6 DEF OwnInv, Excused
  <2>2. (KindOK(i)' <=> KindOK(i)) /\ Shown(i)' = Shown(i)
    BY <1>1, <1>3 DEF KindOK, Only, Shown, StMode
  <2> QED BY <1>1, <1>3, <2>1, <2>2 DEF FileOK
<1>7. ProcOK(p)'
  BY <1>1 DEF ProcOK, ChangeOK, MknodOK, RemoveOK
<1>8. \A i \in Keys : fd'[p] # i
  BY <1>2, OwnershipAssumption
<1> QED BY <1>4, <1>5, <1>6, <1>7, <1>8, Compose

\* A process makes a file, of which it holds what root would have given it, or will.
LEMMA Makes ==
    ASSUME OwnInv, TypeInv', NEW p \in Procs, NEW n \in scene.own[p], dir[n] = NoFile,
           NEW t \in Types, NEW metadata, NewFile(n, t, 0, metadata),
           UNCHANGED <<scene, fd, entry>>,
           \A q \in Procs \ {p} : proc'[q] = proc[q],
           t = "lnk" => "symlink" \in scene.kinds, t = "dir" => "mkdir" \in scene.kinds,
           ProcOK(p)', \A i \in Keys : ~ Excused(p, i),
           Patched(TypeBits[t], Absent) = metadata
           \/ (proc'[p].pc = "stat" /\ proc'[p].name = n)
    PROVE  OwnInv'
<1>1. n \in Names /\ \A m \in scene.own[p] : m \in Names
  BY Started DEF OwnInv
<1>2. PICK k \in Keys :
         /\ type[k] = "free" /\ dir'[n] = k /\ \A m \in Names \ {n} : dir'[m] = dir[m]
         /\ type'[k] = t /\ perm'[k] = 0 /\ truth'[k] = metadata
         /\ \A j \in Keys \ {k} : /\ type'[j] = type[j] /\ perm'[j] = perm[j]
                                  /\ truth'[j] = truth[j]
  BY <1>1, NewFileIs DEF OwnInv
<1>3. k # NoFile /\ \A m \in Names : dir[m] # k
  BY <1>2, OwnershipAssumption DEF OwnInv, TypeInv, FilesTyped
<1>4. Keeps(p)
  BY <1>1, <1>2, NameMine DEF Keeps
<1>5. \A j \in Keys \ {k} : \A m \in Names : dir'[m] = j <=> dir[m] = j
  BY <1>1, <1>2, <1>3, OwnershipAssumption
<1>6. FileOK(p, k)'
  <2>1. KindOK(k)'
    BY <1>2, <1>3 DEF KindOK, Only
  <2>2. t # "free" /\ TypeBits[t] + 0 = TypeBits[t]
    BY BitsAre DEF Types
  <2>3. entry[k] = Absent
    BY <1>2 DEF OwnInv, FileOK
  <2>4. Shown(k)' = Patched(TypeBits[t], Absent)
    BY <1>2, <2>2, <2>3 DEF Shown, StMode
  <2>5. Shown(k)' = truth'[k] \/ Excused(p, k)'
    BY <1>2, <2>4 DEF Excused
  <2> QED BY <1>1, <1>2, <2>1, <2>2, <2>5 DEF FileOK
<1>7. ASSUME NEW i \in Keys \ {k}, type[i] = "free" \/ Has(p, i) PROVE FileOK(p, i)'
  <2>1. FileOK(p, i) /\ ~ Excused(p, i)
    BY <1>7 DEF OwnInv
  <2>2. Shown(i)' = Shown(i)
    BY <1>2 DEF Shown, StMode
  <2>3. KindOK(i)' <=> KindOK(i)
    BY <1>2, <1>5 DEF KindOK, Only
  <2> QED BY <1>2, <1>5, <2>1, <2>2, <2>3 DEF FileOK
<1>8. \A i \in Keys : fd'[p] = i => Has(p, i)
  BY OwnershipAssumption DEF OwnInv, Owned
<1> QED BY <1>4, <1>6, <1>7, <1>8, Compose

LEMMA OwnCreat ==
    ASSUME OwnInv, TypeInv', NEW p \in Procs, NEW n \in scene.own[p], Creat(p, n)
    PROVE  OwnInv'
<1>1. PICK t \in {"reg", "dir", "lnk"} :
         /\ NewFile(n, t, 0, Fresh(t)) /\ proc[p].pc = "idle"
         /\ t = "lnk" => "symlink" \in scene.kinds
         /\ t = "dir" => "mkdir" \in scene.kinds
  BY DEF Creat, Ready
<1>2. dir[n] = NoFile /\ UNCHANGED <<scene, fd, entry, proc>>
  BY DEF Creat
<1>3. ProcOK(p)' /\ \A i \in Keys : ~ Excused(p, i)
  BY <1>1, <1>2 DEF ProcOK, ChangeOK, MknodOK, RemoveOK, Excused
<1>4. Patched(TypeBits[t], Absent) = Fresh(t) /\ t \in Types
  BY DEF Patched, Fresh, Types
<1> QED BY <1>1, <1>2, <1>3, <1>4, Makes

LEMMA OwnMknodOpen ==
    ASSUME OwnInv, TypeInv', NEW p \in Procs, NEW n \in scene.own[p], MknodOpen(p, n)
    PROVE  OwnInv'
<1>1. "mknod" \in scene.kinds /\ proc[p].pc = "idle" /\ UNCHANGED <<scene, fd, entry>>
  BY DEF MknodOpen, Ready
<1>2. n \in Names /\ ~ IsLink(dir[n])
  <2>1. "symlink" \notin scene.kinds
    BY <1>1 DEF OwnInv, Sober
  <2> QED BY <2>1, Started, NoLinks DEF OwnInv
<1>3. PICK k \in scene.nodes, m \in scene.perms :
         /\ scene.refused \/ dir[n] = NoFile
         /\ \/ dir[n] = NoFile /\ NewFile(n, "reg", 0, Made(k, m))
            \/ dir[n] # NoFile /\ UNCHANGED <<dir, type, perm, truth>>
         /\ Become(p, [Idle EXCEPT !.pc = "stat", !.call = "mknod", !.name = n,
                                   !.node = k, !.perm = m])
  BY <1>2 DEF MknodOpen
<1>4. PICK state : state = [Idle EXCEPT !.pc = "stat", !.call = "mknod", !.name = n,
                                        !.node = k, !.perm = m]
  OBVIOUS
<1>5. /\ state.pc = "stat" /\ state.call = "mknod" /\ state.name = n
      /\ state.node = k /\ state.perm = m
  BY <1>4 DEF Idle
<1>6. /\ Become(p, state) /\ proc'[p] = state /\ \A q \in Procs \ {p} : proc'[q] = proc[q]
  BY <1>3, <1>4 DEF Become, OwnInv, TypeInv, TypeOK
<1>7. \A i \in Keys : ~ Excused(p, i)
  BY <1>1 DEF Excused
<1>8. PICK d : d = Made(k, m)
  OBVIOUS
<1>9. CASE dir[n] = NoFile
  <2>1. NewFile(n, "reg", 0, d)
    BY <1>3, <1>8, <1>9
  <2>2. dir'[n] # NoFile /\ truth'[dir'[n]] = d
    <3>1. PICK i \in Keys : dir'[n] = i /\ truth'[i] = d
      BY <1>2, <2>1, NewFileIs DEF OwnInv, Types
    <3> QED BY <3>1, OwnershipAssumption
  <2>3. MknodOK(p)'
    <3>1. d = Made(k, m)'
      BY <1>1, <1>8 DEF Made
    <3> QED BY <1>1, <1>5, <1>6, <2>2, <3>1 DEF MknodOK
  <2>4. ProcOK(p)'
    BY <1>1, <1>5, <1>6, <2>3 DEF ProcOK, ChangeOK, RemoveOK
  <2> QED BY <1>1, <1>5, <1>6, <1>7, <1>9, <2>1, <2>4, Makes DEF Types
<1>10. CASE dir[n] # NoFile
  <2>1. scene.refused /\ UNCHANGED <<files, entry, truth>>
    BY <1>1, <1>3, <1>10 DEF files
  <2>2. UNCHANGED <<scene, dir, type, perm, fd, entry, truth>>
    BY <2>1 DEF files
  <2>3. MknodOK(p)'
    BY <1>5, <1>6, <1>10, <2>1, <2>2 DEF MknodOK
  <2>4. ProcOK(p)' /\ ~ Showing(scene)
    BY <1>1, <1>5, <1>6, <2>1, <2>3 DEF ProcOK, ChangeOK, RemoveOK, Showing
  <2> QED BY <1>6, <2>1, <2>4, Moves
<1> QED BY <1>9, <1>10

LEMMA OwnLink ==
    ASSUME OwnInv, TypeInv', NEW p \in Procs, NEW n \in scene.own[p], NEW to \in scene.own[p],
           Link(p, n, to)
    PROVE  OwnInv'
<1>1. PICK k : k = dir[n]
  OBVIOUS
<1>2. /\ proc[p].pc = "idle" /\ k # NoFile /\ type[k] # "dir" /\ dir[to] = NoFile
      /\ dir' = [dir EXCEPT ![to] = k] /\ UNCHANGED <<scene, type, perm, fd, entry, proc, truth>>
  BY <1>1 DEF Link, Ready
<1>3. n \in Names /\ to \in Names /\ \A m \in scene.own[p] : m \in Names
  BY Started DEF OwnInv
<1>4. k \in Keys /\ Has(p, k)
  BY <1>1, <1>2, <1>3, NameMine
<1>5. dir'[to] = k /\ \A m \in Names \ {to} : dir'[m] = dir[m]
  BY <1>2, <1>3 DEF OwnInv, TypeInv, TypeOK
<1>6. Keeps(p)
  BY <1>2, <1>3, <1>4, <1>5, NameMine DEF Keeps
<1>7. ASSUME NEW i \in Keys, type[i] = "free" \/ Has(p, i) PROVE FileOK(p, i)'
  <2>1. FileOK(p, i) /\ ~ Excused(p, i)
    BY <1>2, <1>7 DEF OwnInv, Excused
  <2>2. Shown(i)' = Shown(i)
    BY <1>2 DEF Shown, StMode
  <2>3. type[i] # "free" => \E m \in Names : dir'[m] = i
    BY <1>2, <1>5, <2>1, OwnershipAssumption DEF FileOK
  <2>4. KindOK(i) => KindOK(i)'
    BY <1>2, <1>5 DEF KindOK, Only
  <2> QED BY <1>2, <2>1, <2>2, <2>3, <2>4 DEF FileOK
<1>8. ProcOK(p)'
  BY <1>2 DEF ProcOK, ChangeOK, MknodOK, RemoveOK
<1>9. \A i \in Keys : fd'[p] = i => Has(p, i)
  BY <1>2, OwnershipAssumption DEF OwnInv, Owned
<1> QED BY <1>3, <1>6, <1>7, <1>8, <1>9, Compose

\* A process drops or moves a name.  The entry of a file without a name has gone before.
LEMMA Drops ==
    ASSUME OwnInv, TypeInv', NEW p \in Procs, proc[p].pc = "real", Return(p),
           UNCHANGED <<scene, perm, fd, entry>>, Reap,
           \A n \in Names \ scene.own[p] : dir'[n] = dir[n],
           \A n \in scene.own[p] : dir'[n] = NoFile \/ \E m \in scene.own[p] : dir'[n] = dir[m],
           \A i \in Keys : Only(i) => Only(i)',
           \A i \in Keys : \/ i # proc[p].key
                              /\ ((\E n \in Names : dir[n] = i) => \E n \in Names : dir'[n] = i)
                           \/ i = proc[p].key
                              /\ IF \E n \in Names : dir'[n] = i
                                 THEN Showing(scene) => ~ Doomed(p)
                                 ELSE entry[i] = Absent
    PROVE  OwnInv'
<1>1. scene.own[p] # {} /\ \A n \in scene.own[p] : n \in Names
  BY Started DEF OwnInv, ProcOK
<1>2. \A q \in Procs : fd'[q] = NoFile
  <2>1. "open" \notin scene.kinds
    BY DEF OwnInv, ProcOK, RemoveOK, Sober
  <2> QED BY <2>1 DEF OwnInv, TypeInv, FilesTyped
<1>3. \A i \in Keys :
         IF \E n \in Names : dir'[n] = i THEN type'[i] = type[i] /\ truth'[i] = truth[i]
         ELSE type'[i] = "free" /\ truth'[i] = Absent
  <2>1. \A i \in Keys : Kept(i) <=> \E n \in Names : dir'[n] = i
    BY <1>2, OwnershipAssumption DEF Kept
  <2> QED BY <2>1, ReapIs DEF OwnInv
<1>4. \A q \in Procs \ {p} : proc'[q] = proc[q]
  BY ReturnsOK DEF Become, OwnInv, TypeInv, TypeOK
<1>5. ASSUME NEW i \in Keys, type[i] # "free", ~ Has(p, i)
      PROVE  type'[i] = type[i] /\ truth'[i] = truth[i]
  <2>1. PICK q \in Procs : Has(q, i)
    BY <1>5 DEF OwnInv, Owned
  <2>2. PICK m \in Names : dir[m] = i /\ m \in scene.own[q]
    BY <2>1 DEF Has
  <2>3. m \notin scene.own[p]
    BY <1>5, <2>1, <2>2 DEF OwnInv, Sober
  <2> QED BY <1>3, <2>2, <2>3
<1>6. Keeps(p)
  BY <1>1, <1>2, <1>4, <1>5, NameMine DEF Keeps, OwnInv, TypeInv, FilesTyped
<1>7. ASSUME NEW i \in Keys, type[i] = "free" \/ Has(p, i) PROVE FileOK(p, i)'
  <2>1. FileOK(p, i)
    BY <1>7 DEF OwnInv
  <2>2. CASE type[i] = "free"
    BY <1>3, <2>1, <2>2 DEF FileOK
  <2>3. CASE type[i] # "free" /\ ~ \E n \in Names : dir'[n] = i
    BY <1>3, <2>1, <2>3 DEF FileOK
  <2>4. CASE type[i] # "free" /\ \E n \in Names : dir'[n] = i
    <3>1. type'[i] = type[i] /\ truth'[i] = truth[i]
      BY <1>3, <2>4
    <3>2. Shown(i)' = Shown(i)
      BY <3>1 DEF Shown, StMode
    <3>3. KindOK(i) => KindOK(i)'
      BY <3>1 DEF KindOK
    <3>4. Showing(scene) => ~ Excused(p, i)
      BY <2>4 DEF Excused
    <3> QED BY <2>1, <2>4, <3>1, <3>2, <3>3, <3>4 DEF FileOK
  <2> QED BY <2>2, <2>3, <2>4
<1>8. \A i \in Keys : fd'[p] # i
  BY <1>2, OwnershipAssumption
<1> QED BY <1>1, <1>6, <1>7, <1>8, ReturnsOK, Compose

\* What is known of the file that is about to lose a name.
LEMMA Losing ==
    ASSUME OwnInv, NEW p \in Procs, proc[p].pc = "real",
           NEW k \in Keys, k = proc[p].key,
           type[k] = "dir" => "rmdir" \in scene.kinds \/ "rename" \in scene.kinds,
           proc[p].call \in Renames => dir[proc[p].name] # k
    PROVE  /\ Doomed(p) <=> Only(k)
           /\ Only(k) => entry[k] = Absent
<1>1. k # NoFile
  BY OwnershipAssumption
<1>2. LastName(k) <=> Only(k)
  <2>1. CASE type[k] = "dir"
    <3>1. PICK q \in Procs : Has(q, k)
      BY <2>1 DEF OwnInv, Owned
    <3>2. KindOK(k)
      BY <2>1, <3>1 DEF OwnInv, FileOK
    <3> QED BY <2>1, <3>2, LastDir DEF OwnInv
  <2>2. CASE type[k] # "dir"
    BY <2>2, LastIs DEF OwnInv
  <2> QED BY <2>1, <2>2
<1>3. Doomed(p) <=> Only(k)
  BY <1>1, <1>2 DEF Doomed
<1> QED BY <1>3 DEF OwnInv, ProcOK, RemoveOK

LEMMA OwnRealUnlink ==
    ASSUME OwnInv, TypeInv', NEW p \in Procs, RealUnlink(p)
    PROVE  OwnInv'
<1>1. PICK n, k : n = proc[p].name /\ k = dir[n]
  OBVIOUS
<1>2. /\ proc[p].pc = "real" /\ dir' = [dir EXCEPT ![n] = NoFile] /\ Return(p)
      /\ UNCHANGED <<scene, perm, fd, entry>> /\ Reap /\ CanUnlink(proc[p].call, n)
  BY <1>1 DEF RealUnlink
<1>3. /\ n \in scene.own[p] /\ n \in Names /\ proc[p].key = k /\ proc[p].call \in scene.kinds
      /\ proc[p].call \notin Renames /\ k # NoFile /\ k \in Keys
      /\ \A m \in scene.own[p] : m \in Names
  BY <1>1, <1>2, Started DEF OwnInv, ProcOK, RemoveOK, Victim, CanUnlink, TypeInv, TypeOK,
     Renames
<1>4. dir'[n] = NoFile /\ \A m \in Names \ {n} : dir'[m] = dir[m]
  BY <1>2, <1>3 DEF OwnInv, TypeInv, TypeOK
<1>5. \A i \in Keys, m \in Names : dir'[m] = i <=> m # n /\ dir[m] = i
  BY <1>4, OwnershipAssumption
<1>6. \A i \in Keys : Only(i) => Only(i)'
  BY <1>5 DEF Only
<1>7. (Doomed(p) <=> Only(k)) /\ (Only(k) => entry[k] = Absent)
  BY <1>1, <1>2, <1>3, Losing DEF CanUnlink, IsDir
<1>8. IF \E m \in Names : dir'[m] = k THEN ~ Doomed(p) ELSE entry[k] = Absent
  <2>1. (\E m \in Names : dir'[m] = k) <=> ~ Only(k)
    BY <1>1, <1>3, <1>5 DEF Only
  <2> QED BY <1>7, <2>1
<1>9. \A i \in Keys \ {k}, m \in Names : dir[m] = i => dir'[m] = i
  BY <1>1, <1>5
<1> QED BY <1>2, <1>3, <1>4, <1>6, <1>8, <1>9, Drops

LEMMA OwnRealRename ==
    ASSUME OwnInv, TypeInv', NEW p \in Procs, RealRename(p)
    PROVE  OwnInv'
<1>1. PICK n, to, f, k, call : /\ n = proc[p].name /\ to = proc[p].to /\ call = proc[p].call
                               /\ f = dir[n] /\ k = dir[to]
  OBVIOUS
<1>2. /\ proc[p].pc = "real" /\ CanRename(call, n, to) /\ f # NoFile
      /\ dir' = IF f = k THEN dir
                ELSE [dir EXCEPT ![to] = f, ![n] = IF call = "exchange" THEN k ELSE NoFile]
      /\ Return(p) /\ UNCHANGED <<scene, perm, fd, entry>> /\ Reap
  BY <1>1 DEF RealRename, CanRename
<1>3. /\ n \in scene.own[p] /\ to \in scene.own[p] /\ n \in Names /\ to \in Names
      /\ proc[p].key = k /\ call \in Renames /\ call \in scene.kinds
      /\ \A m \in scene.own[p] : m \in Names
  BY <1>1, <1>2, Started DEF OwnInv, ProcOK, RemoveOK, Victim, CanRename
<1>4. CASE f = k
  <2>1. dir' = dir /\ ~ Doomed(p) /\ \E m \in Names : dir'[m] = k
    BY <1>1, <1>2, <1>3, <1>4 DEF Doomed
  <2>2. \A i \in Keys : Only(i)' <=> Only(i)
    BY <2>1 DEF Only
  <2> QED BY <1>2, <1>3, <2>1, <2>2, Drops
<1>5. CASE f # k /\ call = "exchange"
  <2>1. /\ n # to /\ dir'[to] = f /\ dir'[n] = k /\ k # NoFile
        /\ \A m \in Names \ {n, to} : dir'[m] = dir[m]
    BY <1>1, <1>2, <1>3, <1>5 DEF OwnInv, TypeInv, TypeOK, CanRename
  <2>2. \A i \in Keys, m \in Names :
           dir'[m] = i <=> IF m = to THEN i = f ELSE IF m = n THEN i = k ELSE dir[m] = i
    BY <1>1, <2>1
  <2>3. ASSUME NEW i \in Keys, Only(i) PROVE Only(i)'
    <3>1. \A m \in Names : dir[m] = i /\ i = f => m = n
      BY <1>1, <1>3, <2>3 DEF Only
    <3>2. \A m \in Names : dir[m] = i /\ i = k => m = to
      BY <1>1, <1>3, <2>3 DEF Only
    <3> QED BY <1>1, <1>3, <2>1, <2>2, <2>3, <3>1, <3>2 DEF Only
  <2>4. \A i \in Keys : (\E m \in Names : dir[m] = i) => \E m \in Names : dir'[m] = i
    BY <1>1, <1>3, <2>1, <2>2
  <2>5. ~ Showing(scene)
    BY <1>3, <1>5 DEF Showing, Exact
  <2>6. /\ \A m \in Names \ scene.own[p] : dir'[m] = dir[m]
        /\ \A m \in scene.own[p] : dir'[m] = NoFile \/ \E l \in scene.own[p] : dir'[m] = dir[l]
    BY <1>1, <1>3, <2>1
  <2>7. \E m \in Names : dir'[m] = k
    BY <1>3, <2>1
  <2>8. \A i \in Keys :
           \/ i # proc[p].key
              /\ ((\E m \in Names : dir[m] = i) => \E m \in Names : dir'[m] = i)
           \/ i = proc[p].key
              /\ IF \E m \in Names : dir'[m] = i THEN Showing(scene) => ~ Doomed(p)
                 ELSE entry[i] = Absent
    BY <1>3, <2>4, <2>5, <2>7
  <2> QED BY <1>2, <2>3, <2>6, <2>8, Drops
<1>6. CASE f # k /\ call # "exchange"
  <2>1. /\ n # to /\ dir'[to] = f /\ dir'[n] = NoFile
        /\ \A m \in Names \ {n, to} : dir'[m] = dir[m]
    BY <1>1, <1>2, <1>3, <1>6 DEF OwnInv, TypeInv, TypeOK
  <2>2. \A i \in Keys, m \in Names :
           dir'[m] = i <=> IF m = to THEN i = f ELSE m # n /\ dir[m] = i
    BY <1>1, <2>1, OwnershipAssumption
  <2>3. \A i \in Keys : Only(i) => Only(i)'
    BY <1>1, <1>3, <2>1, <2>2 DEF Only
  <2>4. \A i \in Keys \ {k} :
           (\E m \in Names : dir[m] = i) => \E m \in Names : dir'[m] = i
    BY <1>1, <1>3, <2>1, <2>2
  <2>5. ASSUME k \in Keys
        PROVE  IF \E m \in Names : dir'[m] = k THEN ~ Doomed(p) ELSE entry[k] = Absent
    <3>1. call = "rename"
      BY <1>1, <1>2, <1>3, <1>6, <2>5, OwnershipAssumption DEF CanRename, Renames
    <3>2. (Doomed(p) <=> Only(k)) /\ (Only(k) => entry[k] = Absent)
      BY <1>1, <1>2, <1>3, <1>6, <2>5, <3>1, Losing
    <3>3. (\E m \in Names : dir'[m] = k) <=> ~ Only(k)
      BY <1>1, <1>3, <1>6, <2>1, <2>2, <2>5 DEF Only
    <3> QED BY <3>2, <3>3
  <2>6. /\ \A m \in Names \ scene.own[p] : dir'[m] = dir[m]
        /\ \A m \in scene.own[p] : dir'[m] = NoFile \/ \E l \in scene.own[p] : dir'[m] = dir[l]
    BY <1>1, <1>3, <2>1
  <2>7. \A i \in Keys :
           \/ i # proc[p].key
              /\ ((\E m \in Names : dir[m] = i) => \E m \in Names : dir'[m] = i)
           \/ i = proc[p].key
              /\ IF \E m \in Names : dir'[m] = i THEN Showing(scene) => ~ Doomed(p)
                 ELSE entry[i] = Absent
    BY <1>3, <2>4, <2>5
  <2> QED BY <1>2, <2>3, <2>6, <2>7, Drops
<1> QED BY <1>4, <1>5, <1>6

-----------------------------------------------------------------------------
(***************************************************************************)
(* The invariant, and what follows from it.                                *)
(***************************************************************************)
LEMMA OwnInit ==
    ASSUME \A s \in Scenes : Sober(s), Init
    PROVE  OwnInv
<1>1. TypeInv
  BY TypeInit
<1>2. Sober(scene)
  BY DEF Init
<1>3. Owned
  BY DEF Init, Owned
<1>4. \A p \in Procs : ProcOK(p)
  BY DEF Init, ProcOK, ChangeOK, MknodOK, RemoveOK, Idle
<1>5. \A p \in Procs, i \in Keys : FileOK(p, i)
  BY DEF Init, FileOK
<1>6. NoGhost
  BY DEF Init, NoGhost
<1> QED BY <1>1, <1>2, <1>3, <1>4, <1>5, <1>6 DEF OwnInv

\* A stat looks, at files of its process or of others, and changes nothing.
Looking == {"idle", "patch"}

LEMMA Watches ==
    ASSUME OwnInv, TypeInv', UNCHANGED <<files, entry, truth>>,
           \A p \in Procs : \/ proc'[p] = proc[p]
                            \/ proc[p].pc \in Looking /\ proc'[p].pc \in Looking
    PROVE  OwnInv'
<1>1. UNCHANGED <<scene, dir, type, perm, fd, entry, truth>>
  BY DEF files
<1>2. Sober(scene)' /\ Owned' /\ NoGhost'
  BY <1>1 DEF OwnInv, Owned, Has, NoGhost
<1>3. ASSUME NEW p \in Procs
      PROVE  ProcOK(p)' /\ \A i \in Keys : Excused(p, i)' <=> Excused(p, i)
  <2>1. CASE proc'[p] = proc[p]
    <3>1. PICK k : k = proc[p].key
      OBVIOUS
    <3>2. (LastName(k)' <=> LastName(k)) /\ (Doomed(p)' <=> Doomed(p))
      BY <1>1, <2>1, <3>1 DEF LastName, StNlink, Doomed
    <3>3. /\ Can(p)' = Can(p) /\ Victim(p)' = Victim(p) /\ At(p)' = At(p)
      BY <1>1, <2>1 DEF Can, CanRename, CanUnlink, IsDir, Victim, At, Source, Follow, IsLink
    <3>4. MknodOK(p)'
      BY <1>1, <2>1 DEF OwnInv, ProcOK, MknodOK, Made
    <3>5. ChangeOK(p)' /\ RemoveOK(p)'
      BY <1>1, <2>1, <3>1, <3>2, <3>3 DEF OwnInv, ProcOK, ChangeOK, RemoveOK, ModeOf
    <3>6. ProcOK(p)'
      BY <1>1, <2>1, <3>4, <3>5 DEF OwnInv, ProcOK
    <3> QED BY <1>1, <2>1, <3>2, <3>6 DEF Excused
  <2>2. CASE proc[p].pc \in Looking /\ proc'[p].pc \in Looking
    BY <2>2 DEF Looking, ProcOK, ChangeOK, MknodOK, RemoveOK, Excused
  <2> QED BY <2>1, <2>2
<1>4. ASSUME NEW p \in Procs, NEW i \in Keys, (type[i] = "free" \/ Has(p, i))'
      PROVE  FileOK(p, i)'
  <2>1. type[i] = "free" \/ Has(p, i)
    BY <1>1, <1>4 DEF Has
  <2>2. FileOK(p, i)
    BY <2>1 DEF OwnInv
  <2>3. (KindOK(i)' <=> KindOK(i)) /\ Shown(i)' = Shown(i)
    BY <1>1 DEF KindOK, Only, Shown, StMode
  <2> QED BY <1>1, <1>3, <2>2, <2>3 DEF FileOK
<1> QED BY <1>2, <1>3, <1>4 DEF OwnInv

\* RealStat and ModifyStat.
LEMMA StatLooks ==
    ASSUME TypeInv, NEW p \in Procs, NEW n, RealStat(p, n)
    PROVE  /\ UNCHANGED <<files, entry, truth>> /\ proc[p].pc = "idle"
           /\ proc'[p].pc = "patch" /\ \A q \in Procs \ {p} : proc'[q] = proc[q]
           /\ proc'[p].key = At(p)' /\ proc'[p].key # NoFile
           /\ proc'[p].mode = StMode(proc'[p].key) /\ proc'[p].name = n
<1>1. PICK call \in {"stat", "lstat", "fstat"} : Stat(p, n, call, Source(p, call, n))
  BY DEF RealStat
<1>2. PICK i, state : /\ i = Source(p, call, n)
                      /\ state = [Statted(call, n, i) EXCEPT !.pc = "patch", !.inode = truth[i]]
  OBVIOUS
<1>3. /\ state.name = n /\ state.call = call /\ state.key = i /\ state.mode = StMode(i)
      /\ state.pc = "patch"
  BY <1>2 DEF Statted, Idle
<1>4. /\ Become(p, state) /\ UNCHANGED <<files, entry, truth>>
      /\ proc[p].pc = "idle" /\ i # NoFile
  BY <1>1, <1>2 DEF Stat, Ready
<1>5. proc'[p] = state /\ \A q \in Procs \ {p} : proc'[q] = proc[q]
  BY <1>4 DEF Become, TypeInv, TypeOK
<1>6. At(p)' = i
  BY <1>2, <1>3, <1>4, <1>5 DEF At, Source, Follow, IsLink, files
<1> QED BY <1>3, <1>4, <1>5, <1>6

LEMMA StatReturns ==
    ASSUME TypeInv, NEW p \in Procs, ModifyStat(p)
    PROVE  /\ UNCHANGED <<files, entry, truth>> /\ proc[p].pc = "patch"
           /\ proc'[p].pc = "idle" /\ \A q \in Procs \ {p} : proc'[q] = proc[q]
  BY IdleTyped DEF ModifyStat, Return, Become, TypeInv, TypeOK

LEMMA OwnStep == OwnInv /\ [Next]_vars => OwnInv'
<1> SUFFICES ASSUME OwnInv, [Next]_vars PROVE OwnInv'
  OBVIOUS
<1>1. TypeInv'
  BY TypeStep DEF OwnInv
<1>2. CASE UNCHANGED vars
  BY <1>1, <1>2, Watches DEF vars
<1>3. CASE Next
  <2>1. PICK p \in Procs :
           \/ \E n \in scene.own[p] :
                 \/ Creat(p, n) \/ Open(p, n)
                 \/ RecordChown(p, n) \/ RecordChmod(p, n) \/ SetXattr(p, n)
                 \/ MknodOpen(p, n) \/ MaybeRemove(p, n)
                 \/ \E to \in scene.own[p] : Link(p, n, to) \/ PrepareRename(p, n, to)
           \/ \E n \in scene.own[p] \cup scene.reads[p] : RealStat(p, n)
           \/ Close(p) \/ UpsertChown(p) \/ GetInode(p) \/ SetInode(p) \/ RealChmod(p)
           \/ MknodStat(p) \/ MknodFalls(p) \/ MknodSet(p)
           \/ StatOld(p) \/ RemoveInode(p) \/ ModifyStat(p)
           \/ RealUnlink(p) \/ RealRename(p) \/ RealFails(p)
    BY <1>3 DEF Next
  <2>2. ASSUME NEW n \in scene.own[p],
               \/ Creat(p, n) \/ Open(p, n)
               \/ RecordChown(p, n) \/ RecordChmod(p, n) \/ SetXattr(p, n)
               \/ MknodOpen(p, n) \/ MaybeRemove(p, n)
        PROVE  OwnInv'
    BY <1>1, <2>2, OwnCreat, OwnOpen, OwnRecordChown, OwnRecordChmod, OwnSetXattr,
       OwnMknodOpen, OwnMaybeRemove
  <2>3. ASSUME NEW n \in scene.own[p], NEW to \in scene.own[p],
               Link(p, n, to) \/ PrepareRename(p, n, to)
        PROVE  OwnInv'
    BY <1>1, <2>3, OwnLink, OwnPrepareRename
  <2>4. ASSUME NEW n, RealStat(p, n) PROVE OwnInv'
    BY <1>1, <2>4, StatLooks, Watches DEF OwnInv, Looking
  <2>5. CASE ModifyStat(p)
    BY <1>1, <2>5, StatReturns, Watches DEF OwnInv, Looking
  <2>6. CASE \/ GetInode(p) \/ MknodStat(p) \/ MknodFalls(p) \/ StatOld(p) \/ RealFails(p)
    BY <1>1, <2>6, OwnGetInode, OwnMknodStat, OwnMknodFalls, OwnStatOld, OwnRealFails
  <2>7. CASE UpsertChown(p) \/ SetInode(p) \/ MknodSet(p) \/ RemoveInode(p)
    BY <1>1, <2>7, OwnUpsertChown, OwnSetInode, OwnMknodSet, OwnRemoveInode
  <2>8. CASE Close(p) \/ RealChmod(p) \/ RealUnlink(p) \/ RealRename(p)
    BY <1>1, <2>8, OwnClose, OwnRealChmod, OwnRealUnlink, OwnRealRename
  <2> QED BY <2>1, <2>2, <2>3, <2>4, <2>5, <2>6, <2>7, <2>8
<1> QED BY <1>2, <1>3

LEMMA OwnAlways ==
    ASSUME \A s \in Scenes : Sober(s)
    PROVE  Spec => []OwnInv
<1>1. Init => OwnInv
  BY OwnInit
<1> QED BY <1>1, OwnStep, PTL DEF Spec

\* maybe_remove_inode_path and prepare_rename_overwrite drop the entry of every file
\* that is about to go, by unlink, rmdir or rename, so the next file with its inode
\* number does not inherit one, be it made by another process at any moment.
THEOREM NoGhostAlways ==
    ASSUME \A s \in Scenes : Sober(s)
    PROVE  Spec => []NoGhost
<1>1. OwnInv => NoGhost
  BY DEF OwnInv
<1> QED BY <1>1, OwnAlways, PTL

\* When the calls on a file's names have returned, stat and getxattr report of it what
\* was done to it under any of its names, and nothing that was done to another file:
\* chown, chmod, mknod, setxattr, unlink and rename record in several steps, between
\* which other processes make, change and remove files with the same inode numbers.
THEOREM FaithfulAlways ==
    ASSUME \A s \in Scenes : Sober(s) /\ Exact(s)
    PROVE  Spec => []Faithful
<1>1. OwnInv /\ Exact(scene) => Faithful
  <2> SUFFICES ASSUME OwnInv, Showing(scene), NEW n \in Names, dir[n] # NoFile,
                      \A p \in Procs : n \in scene.own[p] => proc[p].pc = "idle"
               PROVE  Shown(dir[n]) = truth[dir[n]]
    BY DEF Faithful, Showing
  <2>1. PICK i \in Keys : i = dir[n] /\ type[i] # "free"
    BY DEF OwnInv, TypeInv, TypeOK, FilesTyped
  <2>2. PICK p \in Procs : Has(p, i)
    BY <2>1 DEF OwnInv, Owned
  <2>3. ~ Excused(p, i)
    BY <2>1, <2>2 DEF Has, Excused
  <2> QED BY <2>1, <2>2, <2>3, Told
<1>2. TypeOK => Exact(scene)
  BY DEF TypeOK
<1>3. Spec => []OwnInv
  BY OwnAlways
<1> QED BY <1>1, <1>2, <1>3, TypeCorrect, PTL

-----------------------------------------------------------------------------
(***************************************************************************)
(* stat, of files that any process changes.                                *)
(***************************************************************************)
\* Files stay: no name is removed, and no regular file becomes a node.
Lasting(s) == s.kinds \cap (Removing \cup {"mknod"}) = {}

\* stat reports the real mode of the file.
Unset(i) == entry[i] = Absent \/ entry[i].mode = None

\* A stat in progress is about the file its name still leads to; if that has no mode
\* of its own yet, its real mode is still as read.
PatchOK(p) ==
    proc[p].pc = "patch" =>
        /\ proc[p].key = At(p)
        /\ type[proc[p].key] # "free"
        /\ Unset(proc[p].key) => proc[p].mode = StMode(proc[p].key)

StatInv == \A p \in Procs : PatchOK(p)

\* What a step leaves to a stat in progress: a file at a name stays there, its real
\* mode may change only once it has a recorded one, and keeps that.
Steady ==
    /\ scene' = scene
    /\ \A n \in Names : dir[n] # NoFile => dir'[n] = dir[n]
    /\ \A i \in Keys : type[i] # "free" =>
          type'[i] = type[i] /\ (Unset(i)' => Unset(i) /\ StMode(i)' = StMode(i))
    /\ \A p \in Procs : proc'[p].pc = "patch" => proc'[p] = proc[p] /\ fd'[p] = fd[p]

LEMMA OwnSteady ==
    ASSUME OwnInv, Lasting(scene), Next
    PROVE  Steady \/ \E p \in Procs : \E n : RealStat(p, n)
<1>1. PICK p \in Procs :
           \/ \E n \in scene.own[p] :
                 \/ Creat(p, n) \/ Open(p, n)
                 \/ RecordChown(p, n) \/ RecordChmod(p, n) \/ SetXattr(p, n)
                 \/ MknodOpen(p, n) \/ MaybeRemove(p, n)
                 \/ \E to \in scene.own[p] : Link(p, n, to) \/ PrepareRename(p, n, to)
           \/ \E n \in scene.own[p] \cup scene.reads[p] : RealStat(p, n)
           \/ Close(p) \/ UpsertChown(p) \/ GetInode(p) \/ SetInode(p) \/ RealChmod(p)
           \/ MknodStat(p) \/ MknodFalls(p) \/ MknodSet(p)
           \/ StatOld(p) \/ RemoveInode(p) \/ ModifyStat(p)
           \/ RealUnlink(p) \/ RealRename(p) \/ RealFails(p)
  BY DEF Next
<1>2. /\ proc \in [Procs -> Proc] /\ fd \in [Procs -> Keys \cup {NoFile}]
      /\ Idle.pc = "idle"
  BY IdleTyped DEF OwnInv, TypeInv, TypeOK
<1>3. ASSUME UNCHANGED <<scene, dir, type, perm, entry>>
      PROVE  \A i \in Keys : (Unset(i)' <=> Unset(i)) /\ StMode(i)' = StMode(i)
  BY <1>3 DEF Unset, StMode
\* The calls of a scene in which files stay.
<1>4. proc[p].pc \notin {"stat", "mknod", "statold", "remove", "real"}
  <2>1. ProcOK(p)
    BY DEF OwnInv
  <2> QED BY <2>1 DEF ProcOK, MknodOK, RemoveOK, Lasting
<1>5. ASSUME NEW n \in scene.own[p], MknodOpen(p, n) \/ MaybeRemove(p, n)
      PROVE  FALSE
  BY <1>5 DEF MknodOpen, MaybeRemove, Ready, Lasting, Removing
<1>6. ASSUME NEW n \in scene.own[p], NEW to \in scene.own[p], PrepareRename(p, n, to)
      PROVE  FALSE
  BY <1>6 DEF PrepareRename, Ready, Lasting, Removing
<1>7. ASSUME NEW state, Become(p, state), state.pc # "patch"
      PROVE  \A q \in Procs : proc'[q].pc = "patch" => proc'[q] = proc[q]
  BY <1>2, <1>7 DEF Become
<1>8. ASSUME NEW state, Become(p, state), state.pc # "patch", UNCHANGED <<files, entry>>
      PROVE  Steady
  BY <1>3, <1>7, <1>8 DEF Steady, files
<1>9. CASE \E n \in scene.own[p] :
              RecordChown(p, n) \/ RecordChmod(p, n) \/ SetXattr(p, n)
  <2>1. UNCHANGED <<files, entry>>
    BY <1>9 DEF RecordChown, RecordChmod, SetXattr
  <2>2. ASSUME NEW n \in scene.own[p], RecordChown(p, n) PROVE Steady
    <3>1. PICK call, ids : Become(p, [Statted(call, n, Source(p, call, n)) EXCEPT
                                         !.pc = "upsert", !.ids = ids])
      BY <2>2 DEF RecordChown
    <3>2. PICK state : state = [Statted(call, n, Source(p, call, n)) EXCEPT
                                   !.pc = "upsert", !.ids = ids]
      OBVIOUS
    <3>3. state.pc = "upsert"
      BY <3>2 DEF Statted, Idle
    <3> QED BY <1>8, <2>1, <3>1, <3>2, <3>3
  <2>3. ASSUME NEW n \in scene.own[p], RecordChmod(p, n) PROVE Steady
    <3>1. PICK call, m : Become(p, [Statted(call, n, Source(p, call, n)) EXCEPT
                                       !.pc = "get", !.perm = m])
      BY <2>3 DEF RecordChmod
    <3>2. PICK state : state = [Statted(call, n, Source(p, call, n)) EXCEPT
                                   !.pc = "get", !.perm = m]
      OBVIOUS
    <3>3. state.pc = "get"
      BY <3>2 DEF Statted, Idle
    <3> QED BY <1>8, <2>1, <3>1, <3>2, <3>3
  <2>4. ASSUME NEW n \in scene.own[p], SetXattr(p, n) PROVE Steady
    <3>1. PICK call, x : Become(p, [Statted(call, n, Source(p, call, n)) EXCEPT
                                       !.pc = "get", !.xattrs = x])
      BY <2>4 DEF SetXattr
    <3>2. PICK state : state = [Statted(call, n, Source(p, call, n)) EXCEPT
                                   !.pc = "get", !.xattrs = x]
      OBVIOUS
    <3>3. state.pc = "get"
      BY <3>2 DEF Statted, Idle
    <3> QED BY <1>8, <2>1, <3>1, <3>2, <3>3
  <2> QED BY <1>9, <2>2, <2>3, <2>4
<1>10. CASE GetInode(p) \/ ModifyStat(p)
  <2>1. UNCHANGED <<files, entry>>
    BY <1>10 DEF GetInode, ModifyStat
  <2>2. CASE ModifyStat(p)
    BY <1>2, <1>8, <2>1, <2>2 DEF ModifyStat, Return
  <2>3. CASE GetInode(p)
    <3>1. PICK inode, state : /\ state = [proc[p] EXCEPT !.pc = "set", !.inode = inode]
                              /\ Become(p, state)
      BY <2>3 DEF GetInode
    <3>2. proc[p] \in Proc
      BY <1>2
    <3>3. state.pc = "set"
      BY <3>1, <3>2 DEF Proc
    <3> QED BY <1>8, <2>1, <3>1, <3>3
  <2> QED BY <1>10, <2>2, <2>3
<1>11. CASE \E n \in scene.own[p] : Creat(p, n)
  <2>1. PICK n \in scene.own[p], t \in {"reg", "dir", "lnk"} :
           NewFile(n, t, 0, Fresh(t)) /\ dir[n] = NoFile /\ UNCHANGED <<scene, fd, entry, proc>>
    BY <1>11 DEF Creat
  <2>2. n \in Names /\ t \in Types
    BY Started DEF OwnInv, Types
  <2>3. PICK k \in Keys :
           /\ type[k] = "free" /\ \A m \in Names \ {n} : dir'[m] = dir[m]
           /\ \A j \in Keys \ {k} : type'[j] = type[j] /\ perm'[j] = perm[j]
    BY <2>1, <2>2, NewFileIs DEF OwnInv
  <2>4. \A i \in Keys : type[i] # "free" =>
           type'[i] = type[i] /\ (Unset(i)' <=> Unset(i)) /\ StMode(i)' = StMode(i)
    BY <2>1, <2>3 DEF Unset, StMode
  <2> QED BY <2>1, <2>3, <2>4 DEF Steady
<1>12. CASE \E n \in scene.own[p] : Open(p, n)
  <2>1. /\ proc[p].pc = "idle" /\ UNCHANGED <<scene, dir, type, perm, entry, proc>>
        /\ \E k : fd' = [fd EXCEPT ![p] = k]
    BY <1>12 DEF Open, Ready
  <2>2. \A q \in Procs : proc'[q].pc = "patch" => fd'[q] = fd[q]
    BY <1>2, <2>1
  <2> QED BY <1>3, <2>1, <2>2 DEF Steady
<1>13. CASE \E n, to \in scene.own[p] : Link(p, n, to)
  <2>1. PICK n \in scene.own[p], to \in scene.own[p] :
           /\ dir[to] = NoFile /\ dir' = [dir EXCEPT ![to] = dir[n]]
           /\ UNCHANGED <<scene, type, perm, fd, entry, proc>>
    BY <1>13 DEF Link
  <2>2. \A m \in Names : dir[m] # NoFile => dir'[m] = dir[m]
    BY <2>1 DEF OwnInv, TypeInv, TypeOK
  <2>3. \A i \in Keys : (Unset(i)' <=> Unset(i)) /\ StMode(i)' = StMode(i)
    BY <2>1 DEF Unset, StMode
  <2> QED BY <2>1, <2>2, <2>3 DEF Steady
<1>14. CASE Close(p)
  <2>1. /\ proc[p].pc = "idle" /\ UNCHANGED <<scene, dir, perm, entry, proc>> /\ Reap
        /\ fd' = [fd EXCEPT ![p] = NoFile]
    BY <1>14 DEF Close, Ready
  <2>2. \A i \in Keys : type[i] # "free" => type'[i] = type[i]
    <3>1. ASSUME NEW i \in Keys, type[i] # "free" PROVE Kept(i)
      BY <2>1, <3>1 DEF OwnInv, Owned, Has, Kept
    <3> QED BY <2>1, <3>1, ReapIs DEF OwnInv
  <2>3. \A i \in Keys : type[i] # "free" => (Unset(i)' <=> Unset(i)) /\ StMode(i)' = StMode(i)
    BY <2>1, <2>2 DEF Unset, StMode
  <2>4. \A q \in Procs : proc'[q].pc = "patch" => fd'[q] = fd[q]
    BY <1>2, <2>1
  <2> QED BY <2>1, <2>2, <2>3, <2>4 DEF Steady
<1>15. ASSUME NEW k \in Keys, NEW e, entry' = [entry EXCEPT ![k] = e], UNCHANGED files,
              e # Absent /\ (e.mode # None \/ Unset(k)),
              NEW state, Become(p, state), state.pc # "patch"
       PROVE  Steady
  <2>1. entry'[k] = e /\ \A i \in Keys \ {k} : entry'[i] = entry[i]
    BY <1>15 DEF OwnInv, TypeInv, TypeOK
  <2>2. UNCHANGED <<scene, dir, type, perm, fd>>
    BY <1>15 DEF files
  <2>3. \A i \in Keys : (Unset(i)' => Unset(i)) /\ StMode(i)' = StMode(i)
    BY <1>15, <2>1, <2>2 DEF Unset, StMode
  <2> QED BY <1>7, <1>15, <2>2, <2>3 DEF Steady
<1>16. CASE UpsertChown(p)
  <2>1. PICK k, ids : k = proc[p].key /\ ids = proc[p].ids
    OBVIOUS
  <2>2. /\ proc[p].pc = "upsert" /\ Become(p, Idle) /\ UNCHANGED files
        /\ entry' = [entry EXCEPT ![k] = MergeChown(Old(k), ids[1], ids[2])]
    BY <1>16, <2>1 DEF UpsertChown, Chowned, Old, Return
  <2>3. k \in Keys /\ ids \in Chowns \cup {Current}
    BY <1>2, <2>1, <2>2, Working DEF Proc
  <2>4. PICK e : e = MergeChown(Old(k), ids[1], ids[2])
    OBVIOUS
  <2>5. Old(k) \in FakeInode /\ e \in FakeInode /\ e.mode = Old(k).mode
    BY <2>3, <2>4, ShownIs, MergeTyped DEF OwnInv
  <2>6. e # Absent /\ (e.mode # None \/ Unset(k))
    BY <2>5, ReplyAssumption DEF Old, Unset
  <2> QED BY <1>2, <1>15, <2>2, <2>3, <2>4, <2>6
<1>17. CASE SetInode(p)
  <2>1. PICK k, old, e : k = proc[p].key /\ old = Old(k) /\ e = Stored(p, old)
    OBVIOUS
  <2>2. /\ proc[p].pc = "set" /\ UNCHANGED files
        /\ entry' = [entry EXCEPT ![k] = Stored(p, proc[p].inode)]
        /\ \/ Become(p, [proc[p] EXCEPT !.pc = "chmod"])
           \/ Become(p, Idle)
    BY <1>17, <2>1, SetInodeIs DEF OwnInv, Return
  <2>3. /\ k \in Keys /\ proc[p].perm \in Perms /\ proc[p].xattrs \in Xattrs
        /\ type[k] \in Types
    BY <1>2, <2>1, <2>2, Working DEF Proc, OwnInv, TypeInv, TypeOK
  <2>4. proc[p].inode = old /\ ModeOf(type[k], proc[p].mode)
    BY <2>1, <2>2 DEF OwnInv, ProcOK, ChangeOK, Old
  <2>5. old \in FakeInode
    BY <2>1, <2>3, ShownIs DEF OwnInv
  <2>6. PICK state : Become(p, state) /\ state.pc # "patch"
    <3>1. proc[p] \in Proc
      BY <1>2
    <3>2. PICK state : state = [proc[p] EXCEPT !.pc = "chmod"]
      OBVIOUS
    <3>3. state.pc = "chmod"
      BY <3>1, <3>2 DEF Proc
    <3> QED BY <1>2, <2>2, <3>2, <3>3
  <2>7. CASE proc[p].call \in {"chmod", "fchmod"}
    <3>1. PICK new : new = (proc[p].mode \div ALLPERMS) * ALLPERMS + proc[p].perm
      OBVIOUS
    <3>2. new \in Modes /\ new # None
      BY <2>3, <2>4, <3>1, Composed, ModeTyped
    <3>3. e = [old EXCEPT !.mode = new]
      BY <2>1, <2>7, <3>1 DEF Stored
    <3>4. e \in FakeInode /\ e.mode = new
      BY <2>5, <3>2, <3>3 DEF FakeInode
    <3> QED BY <1>15, <2>1, <2>2, <2>3, <2>4, <2>6, <3>2, <3>4, ReplyAssumption
  <2>8. CASE proc[p].call \notin {"chmod", "fchmod"}
    <3>1. e \in FakeInode /\ e.mode = old.mode
      BY <2>1, <2>3, <2>5, <2>8 DEF Stored, FakeInode
    <3>2. e # Absent /\ (e.mode # None \/ Unset(k))
      BY <2>1, <3>1, ReplyAssumption DEF Old, Unset
    <3> QED BY <1>15, <2>1, <2>2, <2>3, <2>4, <2>6, <3>2
  <2> QED BY <2>7, <2>8
<1>18. CASE RealChmod(p)
  <2>1. PICK k : k = Source(p, proc[p].call, proc[p].name)
    OBVIOUS
  <2>2. /\ proc[p].pc = "chmod" /\ Become(p, Idle) /\ UNCHANGED <<scene, dir, type, fd, entry>>
        /\ perm' = [perm EXCEPT ![k] = proc[p].perm] \/ UNCHANGED perm
    BY <1>18, <2>1 DEF RealChmod, Return
  <2>3. k = proc[p].key /\ ~ Unset(k)
    BY <2>1, <2>2, Working DEF At, OwnInv, ProcOK, ChangeOK, Unset
  <2>4. \A i \in Keys : (Unset(i)' <=> Unset(i)) /\ (i # k => StMode(i)' = StMode(i))
    BY <2>2 DEF Unset, StMode, OwnInv, TypeInv, TypeOK
  <2> QED BY <1>2, <1>7, <2>2, <2>3, <2>4 DEF Steady
<1> QED BY <1>1, <1>4, <1>5, <1>6, <1>9, <1>10, <1>11, <1>12, <1>13, <1>14, <1>16, <1>17,
        <1>18 DEF MknodStat, MknodFalls, MknodSet, StatOld, RemoveInode, RealUnlink,
        RealRename, RealFails

\* What a name leads to is the same after a steady step.
LEMMA SteadySource ==
    ASSUME TypeInv, Steady, NEW p \in Procs, proc'[p].pc = "patch", At(p) # NoFile
    PROVE  At(p)' = At(p)
<1>1. PICK n, call : n = proc[p].name /\ call = proc[p].call
  OBVIOUS
<1>2. n \in Names /\ Target \in Names
  BY <1>1, OwnershipAssumption DEF TypeInv, TypeOK, Proc
<1>3. \A m \in Names : dir[m] # NoFile =>
         dir'[m] = dir[m] /\ (IsLink(dir[m])' <=> IsLink(dir[m]))
  <2> SUFFICES ASSUME NEW m \in Names, dir[m] # NoFile
               PROVE  dir'[m] = dir[m] /\ (IsLink(dir[m])' <=> IsLink(dir[m]))
    OBVIOUS
  <2>1. PICK i \in Keys : i = dir[m] /\ type[i] # "free"
    BY DEF TypeInv, TypeOK, FilesTyped
  <2>2. dir'[m] = i /\ type'[i] = type[i]
    BY <2>1 DEF Steady
  <2> QED BY <2>1, <2>2 DEF IsLink
<1>4. Follow(n) # NoFile => Follow(n)' = Follow(n)
  BY <1>2, <1>3 DEF Follow, IsLink
<1>5. dir[n] # NoFile => dir'[n] = dir[n]
  BY <1>2, <1>3
<1>6. fd'[p] = fd[p] /\ proc'[p] = proc[p]
  BY DEF Steady
<1> QED BY <1>1, <1>4, <1>5, <1>6 DEF At, Source

LEMMA StatStep ==
    ASSUME OwnInv, Lasting(scene), StatInv, [Next]_vars
    PROVE  StatInv'
<1>1. CASE \E p \in Procs : \E n : RealStat(p, n)
  <2>1. PICK p \in Procs : \E n : RealStat(p, n)
    BY <1>1
  <2>2. UNCHANGED <<scene, dir, type, perm, fd, entry, truth>>
    BY <2>1, StatLooks DEF OwnInv, files
  <2>3. PatchOK(p)'
    <3>1. TypeInv' /\ p \in Procs
      BY TypeStep DEF OwnInv
    <3>2. PICK k, n1, call : /\ k = proc'[p].key /\ n1 = proc'[p].name /\ call = proc'[p].call
      OBVIOUS
    <3>3. k = At(p)' /\ k # NoFile /\ proc'[p].mode = StMode(k)
      BY <2>1, <3>2, StatLooks DEF OwnInv
    <3>4. k = Source(p, call, n1) /\ n1 \in Names
      BY <2>2, <3>1, <3>2, <3>3 DEF At, Source, Follow, IsLink, TypeInv, TypeOK, Proc
    <3>5. type[k] # "free"
      BY <3>3, <3>4, SourceTyped DEF OwnInv
    <3>6. StMode(k)' = StMode(k)
      BY <2>2 DEF StMode
    <3> QED BY <2>2, <3>2, <3>3, <3>5, <3>6 DEF PatchOK
  <2>4. ASSUME NEW q \in Procs \ {p} PROVE PatchOK(q)'
    <3>1. proc'[q] = proc[q] /\ PatchOK(q)
      BY <2>1, StatLooks DEF OwnInv, StatInv
    <3>2. At(q)' = At(q) /\ (Unset(proc[q].key)' <=> Unset(proc[q].key))
          /\ StMode(proc[q].key)' = StMode(proc[q].key)
      BY <2>2, <3>1 DEF At, Source, Follow, IsLink, Unset, StMode
    <3> QED BY <2>2, <3>1, <3>2 DEF PatchOK, Unset, StMode
  <2> QED BY <2>3, <2>4 DEF StatInv
<1>2. CASE Steady
  <2>1. ASSUME NEW p \in Procs, proc'[p].pc = "patch" PROVE PatchOK(p)'
    <3>1. proc'[p] = proc[p] /\ PatchOK(p)
      BY <1>2, <2>1 DEF Steady, StatInv
    <3>2. PICK k : k = proc[p].key /\ k = At(p) /\ k # NoFile /\ k \in Keys
      BY <2>1, <3>1 DEF PatchOK, OwnInv, TypeInv, TypeOK, WorkTyped, Knowing, Proc
    <3>3. At(p)' = k
      BY <1>2, <2>1, <3>1, <3>2, SteadySource DEF OwnInv
    <3>4. type'[k] = type[k] /\ (Unset(k)' => Unset(k) /\ StMode(k)' = StMode(k))
      BY <1>2, <2>1, <3>1, <3>2 DEF Steady, PatchOK
    <3>5. k = proc'[p].key /\ (Unset(k) => proc[p].mode = StMode(k)) /\ type[k] # "free"
      BY <2>1, <3>1, <3>2 DEF PatchOK
    <3> QED BY <3>1, <3>3, <3>4, <3>5 DEF PatchOK, Unset, StMode
  <2>2. \A p \in Procs : PatchOK(p)'
    BY <2>1 DEF PatchOK
  <2> QED BY <2>2 DEF StatInv
<1>3. UNCHANGED vars => Steady
  BY DEF vars, files, Steady, Unset, StMode
<1> QED BY <1>1, <1>2, <1>3, OwnSteady

\* stat reports what root would be told of the file at that moment, although other
\* processes change its permissions, its entry and its extended attributes between
\* the real call and modify_stat_buf's lookup: the real mode of a file changes only
\* after record_chmod has put another in the entry, which no call takes away again.
THEOREM StatFaithfulAlways ==
    ASSUME \A s \in Scenes : Sober(s) /\ Lasting(s)
    PROVE  Spec => []StatFaithful
<1>1. OwnInv /\ StatInv /\ Lasting(scene) => StatFaithful
  <2> SUFFICES ASSUME OwnInv, StatInv, Lasting(scene), ~ scene.refused,
                      NEW p \in Procs, proc[p].pc = "patch"
               PROVE  At(p) # NoFile /\ Seen(p) = truth[At(p)]
    BY DEF StatFaithful, At
  <2>1. Showing(scene)
    BY DEF Showing, Exact, Lasting, Removing, Renames
  <2>2. PICK k : k = proc[p].key /\ k \in Keys /\ k # NoFile
    BY DEF OwnInv, TypeInv, TypeOK, WorkTyped, Knowing, Proc
  <2>3. /\ k = At(p) /\ type[k] # "free"
        /\ Unset(k) => proc[p].mode = StMode(k)
    BY <2>2 DEF StatInv, PatchOK
  <2>4. PICK q \in Procs : Has(q, k)
    BY <2>2, <2>3 DEF OwnInv, Owned
  <2>5. ~ Excused(q, k)
    <3>1. ProcOK(q)
      BY DEF OwnInv
    <3> QED BY <3>1 DEF Excused, ProcOK, MknodOK, RemoveOK, Lasting
  <2>6. Shown(k) = truth[k]
    BY <2>2, <2>4, <2>5, <2>1, Told
  <2>7. Seen(p) = Shown(k)
    BY <2>2, <2>3 DEF Seen, Shown, Patched, Unset
  <2> QED BY <2>2, <2>3, <2>6, <2>7
<1>2. TypeOK => Lasting(scene)
  BY DEF TypeOK
<1>3. Spec => []OwnInv
  BY OwnAlways
<1>4. Init => StatInv
  <2>1. Idle.pc # "patch"
    BY DEF Idle
  <2> QED BY <2>1 DEF Init, StatInv, PatchOK
<1>5. OwnInv /\ Lasting(scene) /\ StatInv /\ [Next]_vars => StatInv'
  BY StatStep
<1> QED BY <1>1, <1>2, <1>3, <1>4, <1>5, TypeCorrect, PTL DEF Spec
=============================================================================
