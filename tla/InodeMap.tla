------------------------------ MODULE InodeMap ------------------------------
(***************************************************************************)
(* What a store of fake metadata promises: a map from inode keys (dev,     *)
(* ino) to FakeInode on which every operation is one atomic step.          *)
(*                                                                         *)
(* With Bounded = FALSE this is FakeRootState (pseudoroot-core/src/        *)
(* state.rs), whose DashMap applies each operation under the lock of the   *)
(* key's shard and grows without limit.  With Bounded = TRUE it is what    *)
(* the fixed-size table in shared memory can promise: an insert of a key   *)
(* that has no entry may be dropped, and a stored entry keeps only what a  *)
(* slot can express (Storable).  ShmTable implements the latter.           *)
(***************************************************************************)
EXTENDS FakeInodes

CONSTANTS Chowns,    \* the ids callers pass to a chown: a subset of ChownIds
          Defaults,  \* the default owners they pass: a subset of Owners
          Inodes,    \* the entries they set: a subset of FakeInode
          Bounded    \* is the store the fixed-size table?

VARIABLES map,    \* the entry of every key
          reply   \* what the last operation returned

vars == <<map, reply>>

TypeOK ==
    /\ map \in [Keys -> FakeInode \cup {Absent}]
    /\ reply \in FakeInode \cup {Absent, Done}

\* A slot stores mode and rdev 0 for "not set", and no xattrs that do not fit.
NonZero(n) == IF n = 0 THEN None ELSE n
Storable(inode) ==
    IF Bounded
    THEN [inode EXCEPT !.mode = NonZero(@), !.rdev = NonZero(@),
                       !.xattrs = IF @ \in Fits THEN @ ELSE NoXattrs]
    ELSE inode

Init == map = [k \in Keys |-> Absent] /\ reply = Done

\* A new entry may find no room in a bounded store.
Put(k, inode) ==
    /\ \/ map' = [map EXCEPT ![k] = Storable(inode)]
       \/ Bounded /\ map[k] = Absent /\ UNCHANGED map
    /\ reply' = Done

UpsertChown(k, u, g, du, dg) ==
    Put(k, IF map[k] = Absent THEN FreshChown(u, g, du, dg)
                              ELSE MergeChown(map[k], u, g))

SetInode(k, inode) == Put(k, inode)

\* Tells whether there was an entry.
RemoveInode(k) ==
    /\ map' = [map EXCEPT ![k] = Absent]
    /\ reply' = IF map[k] = Absent THEN Absent ELSE Done

GetInode(k) == reply' = map[k] /\ UNCHANGED map

Next ==
    \E k \in Keys :
       \/ \E c \in Chowns, o \in Defaults : UpsertChown(k, c[1], c[2], o[1], o[2])
       \/ \E i \in Inodes : SetInode(k, i)
       \/ RemoveInode(k)
       \/ GetInode(k)

Spec == Init /\ [][Next]_vars
=============================================================================
