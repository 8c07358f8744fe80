----------------------------- MODULE FakeInodes -----------------------------
(***************************************************************************)
(* The fake metadata pseudoroot keeps for an inode (FakeInode of           *)
(* pseudoroot-core/src/state.rs) and the way a chown is merged into it.    *)
(*                                                                         *)
(* A uid or gid is a member of Ids.  Modes and device numbers are naturals *)
(* because the shared table stores them as integers and reads 0 back as    *)
(* "not set".  An xattr map is one value of Xattrs; Fits are the maps      *)
(* whose serialization fits in a 4096-byte page.                           *)
(***************************************************************************)
EXTENDS Naturals

CONSTANTS Ids,        \* the fake user and group ids
          Unchanged,  \* ID_UNCHANGED, chown's -1
          None,       \* Option::None
          Modes,      \* values mode can be set to
          Rdevs,      \* values rdev can be set to
          Xattrs,     \* xattr maps
          NoXattrs,   \* the empty xattr map
          Fits,       \* xattr maps that fit in a page of the shared table
          Keys,       \* inode keys (dev, ino)
          Absent,     \* no entry; remove_inode's reply when there was none
          Done        \* the reply of an operation that changed the map

ASSUME FakeInodesAssumption ==
    /\ Unchanged \notin Ids
    /\ Modes \subseteq Nat
    /\ Rdevs \subseteq Nat
    /\ None \notin Nat
    /\ NoXattrs \in Fits
    /\ Fits \subseteq Xattrs

\* One entry of the map.
FakeInode == [uid: Ids, gid: Ids, mode: Modes \cup {None},
              rdev: Rdevs \cup {None}, xattrs: Xattrs]

\* What a chown passes, and the owners it gives to an inode it finds new.
ChownIds == (Ids \cup {Unchanged}) \X (Ids \cup {Unchanged})
Owners == Ids \X Ids

ASSUME ReplyAssumption ==
    Absent \notin FakeInode /\ Done \notin FakeInode /\ Absent # Done

\* An entry that fakes the owner only.
New(u, g) == [uid |-> u, gid |-> g, mode |-> None, rdev |-> None,
              xattrs |-> NoXattrs]

\* Faulty variant: chown's -1 is stored like any id.
IdOr_Literal(id, old) == id

\* The id a chown leaves in a field: its argument, or the old value for -1.
IdOr(id, old) == IF id = Unchanged THEN old ELSE id

\* A chown of an inode that has an entry: only the owner changes.
MergeChown(inode, u, g) ==
    [inode EXCEPT !.uid = IdOr(u, @), !.gid = IdOr(g, @)]

\* A chown of an inode without one: the defaults stand in for the old owner.
FreshChown(u, g, du, dg) == MergeChown(New(du, dg), u, g)
=============================================================================
