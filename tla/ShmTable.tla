------------------------------ MODULE ShmTable ------------------------------
(***************************************************************************)
(* The shared-memory inode table of pseudoroot-core/src/shm_map.rs, one    *)
(* operation at a time: open addressing over N slots, linear probing from  *)
(* the hash of the key, tombstones for removed entries.  Module ShmMap     *)
(* splits the operations into their memory accesses.                       *)
(*                                                                         *)
(* The fields of a slot that is not LIVE keep whatever its last occupant   *)
(* left there, as in the code: what protects a new occupant is that an     *)
(* insert writes every one of them.                                        *)
(***************************************************************************)
EXTENDS FakeInodes

CONSTANTS N,         \* slot_count
          Hash,      \* the home bucket of every key
          NoKey,     \* the dev and ino of a slot never used
          Chowns, Defaults, Inodes  \* what callers pass, as in InodeMap

ASSUME ShmTableAssumption ==
    /\ N \in Nat \ {0}
    /\ Hash \in [Keys -> 0 .. N-1]
    /\ NoKey \notin Keys
    /\ Chowns \subseteq ChownIds
    /\ Defaults \subseteq Owners
    /\ Inodes \subseteq FakeInode

VARIABLES slot,   \* the table: Slot and its xattr page, for each index
          reply   \* what the last operation returned

vars == <<slot, reply>>

Slots == 0 .. N-1
Slot == [occupied: {"EMPTY", "LIVE", "TOMBSTONE"}, key: Keys \cup {NoKey},
         uid: Ids, gid: Ids, mode: Modes \cup {0}, rdev: Rdevs \cup {0},
         page: Fits]

TypeOK ==
    /\ slot \in [Slots -> Slot]
    /\ reply \in FakeInode \cup {Absent, Done}

\* A zero-filled mapping with its header initialized; the owner fields are 0,
\* which is a member of Ids in the program and any member of it here.
Init ==
    /\ \E zero \in Ids :
          slot = [s \in Slots |->
                    [occupied |-> "EMPTY", key |-> NoKey, uid |-> zero,
                     gid |-> zero, mode |-> 0, rdev |-> 0, page |-> NoXattrs]]
    /\ reply = Done
-----------------------------------------------------------------------------
(***************************************************************************)
(* Probing.  At(k, d) is the slot d steps after the home bucket of k.      *)
(***************************************************************************)
At(k, d) == IF Hash[k] + d < N THEN Hash[k] + d ELSE Hash[k] + d - N

Is(s, what) == slot[s].occupied = what
Holds(s, k) == Is(s, "LIVE") /\ slot[s].key = k

\* The walk for k has passed d slots and none of them ended it.
Passed(k, d) ==
    \A e \in 0 .. d-1 : ~ Is(At(k, e), "EMPTY") /\ ~ Holds(At(k, e), k)

\* Probe::Found(s): the first slot that ends the walk holds the key.
Found(k, s) == \E d \in Slots : s = At(k, d) /\ Passed(k, d) /\ Holds(s, k)

\* reuse.unwrap_or(idx): the earliest tombstone of the walk, else its end.
Reuse(k, d, s) ==
    \/ /\ \E e \in 0 .. d-1 :
             /\ s = At(k, e)
             /\ \A c \in 0 .. e-1 : ~ Is(At(k, c), "TOMBSTONE")
       /\ Is(s, "TOMBSTONE")
    \/ /\ \A e \in 0 .. d-1 : ~ Is(At(k, e), "TOMBSTONE")
       /\ s = At(k, d)

\* Faulty variant: the first tombstone ends the walk.
Vacant_AtTombstone(k, s) ==
    \E d \in Slots : /\ Passed(k, d)
                     /\ Is(At(k, d), "EMPTY") \/ Is(At(k, d), "TOMBSTONE")
                     /\ Reuse(k, d, s)

\* Probe::Vacant(s): the walk ended at an empty slot.
Vacant(k, s) ==
    \E d \in Slots : Passed(k, d) /\ Is(At(k, d), "EMPTY") /\ Reuse(k, d, s)

\* Probe::Full: slot_count steps ended nowhere.
Full(k) == Passed(k, N)
-----------------------------------------------------------------------------
(***************************************************************************)
(* What a slot can express of a FakeInode, and how it is read back.        *)
(***************************************************************************)
OrZero(opt) == IF opt = None THEN 0 ELSE opt
NonZero(n) == IF n = 0 THEN None ELSE n
PageOf_Unchecked(xattrs) == xattrs  \* faulty variant: the page overflows
PageOf(xattrs) == IF xattrs \in Fits THEN xattrs ELSE NoXattrs

Encode(k, inode) ==
    [occupied |-> "LIVE", key |-> k, uid |-> inode.uid, gid |-> inode.gid,
     mode |-> OrZero(inode.mode), rdev |-> OrZero(inode.rdev),
     page |-> PageOf(inode.xattrs)]

Decode(entry) ==
    [uid |-> entry.uid, gid |-> entry.gid, mode |-> NonZero(entry.mode),
     rdev |-> NonZero(entry.rdev), xattrs |-> entry.page]
-----------------------------------------------------------------------------
(***************************************************************************)
(* Operations.  Each returns early when its probe has another outcome.     *)
(***************************************************************************)
\* Faulty variant: an insert leaves the mode and device of the last occupant.
UpsertChown_KeepsMode(k, u, g, du, dg) ==
    /\ \/ \E s \in Slots :
             /\ Found(k, s)
             /\ slot' = [slot EXCEPT ![s].uid = IdOr(u, @), ![s].gid = IdOr(g, @)]
       \/ \E s \in Slots :
             /\ Vacant(k, s)
             /\ slot' = [slot EXCEPT ![s] =
                   [Encode(k, FreshChown(u, g, du, dg)) EXCEPT
                       !.mode = slot[s].mode, !.rdev = slot[s].rdev]]
       \/ Full(k) /\ UNCHANGED slot
    /\ reply' = Done

UpsertChown(k, u, g, du, dg) ==
    /\ \/ \E s \in Slots :
             /\ Found(k, s)
             /\ slot' = [slot EXCEPT ![s].uid = IdOr(u, @), ![s].gid = IdOr(g, @)]
       \/ \E s \in Slots :
             /\ Vacant(k, s)
             /\ slot' = [slot EXCEPT ![s] = Encode(k, FreshChown(u, g, du, dg))]
       \/ Full(k) /\ UNCHANGED slot
    /\ reply' = Done

UpsertInode(k, inode) ==
    /\ \/ \E s \in Slots :
             /\ Found(k, s) \/ Vacant(k, s)
             /\ slot' = [slot EXCEPT ![s] = Encode(k, inode)]
       \/ Full(k) /\ UNCHANGED slot
    /\ reply' = Done

\* Faulty variant: a removed slot goes back to empty.
RemoveInode_ToEmpty(k) ==
    \/ \E s \in Slots :
          /\ Found(k, s)
          /\ slot' = [slot EXCEPT ![s].page = NoXattrs, ![s].occupied = "EMPTY"]
          /\ reply' = Done
    \/ /\ (\E s \in Slots : Vacant(k, s)) \/ Full(k)
       /\ reply' = Absent
       /\ UNCHANGED slot

RemoveInode(k) ==
    \/ \E s \in Slots :
          /\ Found(k, s)
          /\ slot' = [slot EXCEPT ![s].page = NoXattrs, ![s].occupied = "TOMBSTONE"]
          /\ reply' = Done
    \/ /\ (\E s \in Slots : Vacant(k, s)) \/ Full(k)
       /\ reply' = Absent
       /\ UNCHANGED slot

GetInode(k) ==
    /\ \/ \E s \in Slots : Found(k, s) /\ reply' = Decode(slot[s])
       \/ (\E s \in Slots : Vacant(k, s)) /\ reply' = Absent
       \/ Full(k) /\ reply' = Absent
    /\ UNCHANGED slot

Next ==
    \E k \in Keys :
       \/ \E c \in Chowns, o \in Defaults : UpsertChown(k, c[1], c[2], o[1], o[2])
       \/ \E i \in Inodes : UpsertInode(k, i)
       \/ RemoveInode(k)
       \/ GetInode(k)

Spec == Init /\ [][Next]_vars
-----------------------------------------------------------------------------
(***************************************************************************)
(* Properties.                                                             *)
(***************************************************************************)
\* An entry is reachable: no empty slot lies between the home bucket of its
\* key and the slot it is in.  This is what remove_inode keeps by leaving a
\* tombstone: an empty slot would end the walk of every later entry.
Reachable ==
    \A k \in Keys, d \in Slots :
        Holds(At(k, d), k) => \A e \in 0 .. d-1 : ~ Is(At(k, e), "EMPTY")

\* A key has at most one live slot, although an insert may take a tombstone
\* that lies before the end of the walk: remove_inode drops the first match
\* only, a second one would bring the removed metadata back.
OneSlotPerKey ==
    \A k \in Keys : \A s, t \in Slots : Holds(s, k) /\ Holds(t, k) => s = t

\* The table seen as a map: what the live slot of a key decodes to.
View ==
    [k \in Keys |->
        IF \E s \in Slots : Holds(s, k)
        THEN Decode(slot[CHOOSE s \in Slots : Holds(s, k)])
        ELSE Absent]

\* The table implements the map of module InodeMap: whatever the history of
\* collisions, removals and reused tombstones, a lookup returns what the last
\* operations on that key alone left there, and an insert either stores
\* exactly its entry or, when the table has no room, nothing.
Promise == INSTANCE InodeMap WITH map <- View, Bounded <- TRUE
ImplementsMap == Promise!Spec

\* What the comments on Probe::Full and remove_inode say: an insert finds no
\* slot only when the table has neither an empty nor a reusable one.
FullOnlyWhenAllLive ==
    \A k \in Keys : Full(k) => \A s \in Slots : Is(s, "LIVE")
=============================================================================
