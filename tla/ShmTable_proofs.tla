--------------------------- MODULE ShmTable_proofs ---------------------------
(***************************************************************************)
(* Proofs about ShmTable for every number of slots and keys, every hash    *)
(* function and every set of entries: the table is well typed, keeps its   *)
(* entries reachable and unique, and implements the map of InodeMap.       *)
(***************************************************************************)
EXTENDS ShmTable, TLAPS

-----------------------------------------------------------------------------
(***************************************************************************)
(* The walk of a key visits every slot once.                               *)
(***************************************************************************)
\* A step of probe stays inside the table.
LEMMA AtInSlots ==
    ASSUME NEW k \in Keys, NEW d \in Slots
    PROVE  At(k, d) \in Slots
  BY ShmTableAssumption DEF At, Slots

\* Different steps of probe look at different slots.
LEMMA AtInjective ==
    ASSUME NEW k \in Keys, NEW d \in Slots, NEW e \in Slots, At(k, d) = At(k, e)
    PROVE  d = e
  BY ShmTableAssumption DEF At, Slots

\* The slot_count steps of probe leave no slot out.
LEMMA AtOnto ==
    ASSUME NEW k \in Keys, NEW s \in Slots
    PROVE  \E d \in Slots : At(k, d) = s
<1>1. CASE s >= Hash[k]
  <2>1. s - Hash[k] \in Slots /\ At(k, s - Hash[k]) = s
    BY <1>1, ShmTableAssumption DEF At, Slots
  <2> QED BY <2>1
<1>2. CASE s < Hash[k]
  <2>1. s - Hash[k] + N \in Slots /\ At(k, s - Hash[k] + N) = s
    BY <1>2, ShmTableAssumption DEF At, Slots
  <2> QED BY <2>1
<1> QED BY <1>1, <1>2, ShmTableAssumption DEF Slots

\* The steps before step d are steps of probe.
LEMMA Before ==
    ASSUME NEW d \in Slots, NEW e \in 0 .. d-1
    PROVE  e \in Slots /\ e < d
  BY ShmTableAssumption DEF Slots
-----------------------------------------------------------------------------
(***************************************************************************)
(* What a slot makes of an entry.                                          *)
(***************************************************************************)
\* write_slot stores a slot.
LEMMA EncodeTyped ==
    ASSUME NEW k \in Keys, NEW inode \in FakeInode
    PROVE  /\ Encode(k, inode) \in Slot
           /\ Encode(k, inode).occupied = "LIVE" /\ Encode(k, inode).key = k
<1>1. /\ inode.uid \in Ids /\ inode.gid \in Ids /\ inode.mode \in Modes \cup {None}
      /\ inode.rdev \in Rdevs \cup {None} /\ inode.xattrs \in Xattrs
  BY DEF FakeInode
<1>2. OrZero(inode.mode) \in Modes \cup {0} /\ OrZero(inode.rdev) \in Rdevs \cup {0}
  BY <1>1 DEF OrZero
<1>3. PageOf(inode.xattrs) \in Fits
  BY <1>1, FakeInodesAssumption DEF PageOf
<1> QED BY <1>1, <1>2, <1>3 DEF Encode, Slot

\* get_inode reads an entry.
LEMMA DecodeTyped ==
    ASSUME NEW entry \in Slot
    PROVE  Decode(entry) \in FakeInode
<1>1. /\ entry.uid \in Ids /\ entry.gid \in Ids /\ entry.mode \in Modes \cup {0}
      /\ entry.rdev \in Rdevs \cup {0} /\ entry.page \in Fits
  BY DEF Slot
<1>2. NonZero(entry.mode) \in Modes \cup {None} /\ NonZero(entry.rdev) \in Rdevs \cup {None}
  BY <1>1 DEF NonZero
<1> QED BY <1>1, <1>2, FakeInodesAssumption DEF Decode, FakeInode

\* The owner a chown leaves is an owner.
LEMMA IdOrTyped ==
    ASSUME NEW id \in Ids \cup {Unchanged}, NEW old \in Ids
    PROVE  IdOr(id, old) \in Ids
  BY DEF IdOr

\* A chown of a file without entry makes one.
LEMMA FreshTyped ==
    ASSUME NEW u \in Ids \cup {Unchanged}, NEW g \in Ids \cup {Unchanged},
           NEW du \in Ids, NEW dg \in Ids
    PROVE  FreshChown(u, g, du, dg) \in FakeInode
<1>1. IdOr(u, du) \in Ids /\ IdOr(g, dg) \in Ids
  BY IdOrTyped
<1>2. NoXattrs \in Xattrs
  BY FakeInodesAssumption
<1> QED BY <1>1, <1>2 DEF FreshChown, MergeChown, New, FakeInode
-----------------------------------------------------------------------------
(***************************************************************************)
(* Where probe ends.                                                       *)
(***************************************************************************)
Inv == TypeOK /\ Reachable /\ OneSlotPerKey

\* Probe::Found: the slot holds the key.
LEMMA FoundHolds ==
    ASSUME NEW k \in Keys, NEW s, Found(k, s)
    PROVE  s \in Slots /\ Holds(s, k)
  BY AtInSlots DEF Found

\* Probe::Vacant: nothing holds the key, and the slot is one its walk comes to.
LEMMA VacantFree ==
    ASSUME Inv, NEW k \in Keys, NEW s, Vacant(k, s)
    PROVE  /\ \A t \in Slots : ~ Holds(t, k)
           /\ s \in Slots /\ ~ Is(s, "LIVE")
           /\ \E e \in Slots : s = At(k, e) /\ \A c \in 0 .. e-1 : ~ Is(At(k, c), "EMPTY")
<1>1. PICK d \in Slots : Passed(k, d) /\ Is(At(k, d), "EMPTY") /\ Reuse(k, d, s)
  BY DEF Vacant
<1>2. ASSUME NEW t \in Slots, Holds(t, k) PROVE FALSE
  <2>1. PICK f \in Slots : At(k, f) = t
    BY AtOnto
  <2>2. CASE f < d
    <3>1. f \in 0 .. d-1
      BY <2>2 DEF Slots
    <3> QED BY <1>1, <1>2, <2>1, <3>1 DEF Passed
  <2>3. CASE f = d
    BY <1>1, <1>2, <2>1, <2>3 DEF Holds, Is
  <2>4. CASE d < f
    <3>1. d \in 0 .. f-1
      BY <2>4 DEF Slots
    <3> QED BY <1>1, <1>2, <2>1, <3>1 DEF Inv, Reachable
  <2> QED BY <2>2, <2>3, <2>4, ShmTableAssumption DEF Slots
<1>3. CASE \E e \in 0 .. d-1 : s = At(k, e) /\ Is(s, "TOMBSTONE")
  <2>1. PICK e \in 0 .. d-1 : s = At(k, e) /\ Is(s, "TOMBSTONE")
    BY <1>3
  <2>2. e \in Slots /\ e < d
    BY Before
  <2>3. \A c \in 0 .. e-1 : c \in 0 .. d-1
    BY <2>2 DEF Slots
  <2> QED BY <1>1, <1>2, <2>1, <2>2, <2>3, AtInSlots DEF Passed, Is
<1>4. CASE s = At(k, d)
  BY <1>1, <1>2, <1>4, AtInSlots DEF Passed, Is
<1> QED BY <1>1, <1>3, <1>4 DEF Reuse

\* Probe::Full: nothing holds the key.
LEMMA FullFree ==
    ASSUME NEW k \in Keys, Full(k)
    PROVE  \A t \in Slots : ~ Holds(t, k)
<1>1. ASSUME NEW t \in Slots, Holds(t, k) PROVE FALSE
  <2>1. PICK f \in Slots : At(k, f) = t
    BY AtOnto
  <2>2. f \in 0 .. N-1
    BY DEF Slots
  <2> QED BY <1>1, <2>1, <2>2 DEF Full, Passed
<1> QED BY <1>1
-----------------------------------------------------------------------------
(***************************************************************************)
(* The three ways an operation changes a slot s for a key k.               *)
(***************************************************************************)
Puts(s, k, new) ==
    /\ s \in Slots /\ new \in Slot
    /\ slot' = [slot EXCEPT ![s] = new]
    /\ \/ Holds(s, k) /\ new.occupied = "LIVE" /\ new.key = k
       \/ Holds(s, k) /\ new.occupied = "TOMBSTONE"
       \/ Vacant(k, s) /\ new.occupied = "LIVE" /\ new.key = k

\* Only the slot s comes to hold another key, and only the key k leaves it.
LEMMA PutsHolds ==
    ASSUME Inv, NEW k \in Keys, NEW s, NEW new, Puts(s, k, new)
    PROVE  /\ \A t \in Slots, j \in Keys :
                 Holds(t, j)' <=> IF t = s THEN new.occupied = "LIVE" /\ j = k ELSE Holds(t, j)
           /\ \A j \in Keys : j # k => ~ Holds(s, j)
           /\ \A t \in Slots : Is(t, "EMPTY")' => Is(t, "EMPTY")
<1>1. s \in Slots /\ slot'[s] = new /\ \A t \in Slots : t # s => slot'[t] = slot[t]
  BY DEF Puts, Inv, TypeOK
<1>2. new.occupied \in {"LIVE", "TOMBSTONE"} /\ (new.occupied = "LIVE" => new.key = k)
  BY DEF Puts
<1>3. \A j \in Keys : j # k => ~ Holds(s, j)
  BY VacantFree DEF Puts, Holds
<1> QED BY <1>1, <1>2, <1>3 DEF Holds, Is

\* Types, reachability and uniqueness are kept.
LEMMA PutsInv ==
    ASSUME Inv, NEW k \in Keys, NEW s, NEW new, Puts(s, k, new),
           reply' \in FakeInode \cup {Absent, Done}
    PROVE  Inv'
<1>1. TypeOK'
  BY DEF Inv, TypeOK, Puts
<1>2. Reachable'
  <2> SUFFICES ASSUME NEW j \in Keys, NEW d \in Slots, Holds(At(j, d), j)',
                      NEW e \in 0 .. d-1
               PROVE  ~ Is(At(j, e), "EMPTY")'
    BY DEF Reachable, At, Slots
  <2>1. At(j, d) \in Slots /\ e \in Slots /\ At(j, e) \in Slots
    BY AtInSlots, Before
  <2>2. CASE Holds(At(j, d), j)
    BY <2>1, <2>2, PutsHolds DEF Inv, Reachable
  <2>3. CASE ~ Holds(At(j, d), j)
    <3>1. At(j, d) = s /\ j = k /\ new.occupied = "LIVE"
      BY <2>1, <2>3, PutsHolds
    <3>2. Vacant(k, s)
      BY <2>3, <3>1 DEF Puts
    <3>3. PICK f \in Slots : s = At(k, f) /\ \A c \in 0 .. f-1 : ~ Is(At(k, c), "EMPTY")
      BY <3>2, VacantFree
    <3>4. f = d
      BY <3>1, <3>3, AtInjective
    <3> QED BY <2>1, <3>1, <3>3, <3>4, PutsHolds
  <2> QED BY <2>2, <2>3
<1>3. OneSlotPerKey'
  <2> SUFFICES ASSUME NEW j \in Keys, NEW t \in Slots, NEW u \in Slots,
                      Holds(t, j)', Holds(u, j)'
               PROVE  t = u
    BY DEF OneSlotPerKey, Slots
  <2>1. CASE j # k
    BY <2>1, PutsHolds DEF Inv, OneSlotPerKey
  <2>2. CASE j = k /\ Holds(s, k)
    <3>1. s \in Slots /\ \A v \in Slots : Holds(v, k) => v = s
      BY <2>2 DEF Inv, OneSlotPerKey, Puts
    <3>2. \A v \in Slots : Holds(v, k)' => v = s \/ Holds(v, k)
      BY PutsHolds
    <3> QED BY <2>2, <3>1, <3>2
  <2>3. CASE j = k /\ Vacant(k, s)
    BY <2>3, PutsHolds, VacantFree
  <2> QED BY <2>1, <2>2, <2>3 DEF Puts
<1> QED BY <1>1, <1>2, <1>3 DEF Inv

\* An operation that finds no slot leaves the table alone.
LEMMA SameInv ==
    ASSUME Inv, UNCHANGED slot, reply' \in FakeInode \cup {Absent, Done}
    PROVE  Inv'
<1>1. TypeOK'
  BY DEF Inv, TypeOK
<1>2. Reachable' /\ OneSlotPerKey'
  BY DEF Inv, Reachable, OneSlotPerKey, Holds, Is, At, Slots
<1> QED BY <1>1, <1>2 DEF Inv
-----------------------------------------------------------------------------
(***************************************************************************)
(* Every operation changes one slot in one of these ways, or none.         *)
(***************************************************************************)
\* upsert_chown of a file that has an entry.
Merged(s, u, g) == [slot[s] EXCEPT !.uid = IdOr(u, @), !.gid = IdOr(g, @)]

LEMMA ChownPuts ==
    ASSUME Inv, NEW k \in Keys, NEW c \in ChownIds, NEW o \in Owners,
           UpsertChown(k, c[1], c[2], o[1], o[2])
    PROVE  /\ \/ \E s \in Slots : Found(k, s) /\ Puts(s, k, Merged(s, c[1], c[2]))
              \/ \E s \in Slots :
                    Vacant(k, s) /\ Puts(s, k, Encode(k, FreshChown(c[1], c[2], o[1], o[2])))
              \/ Full(k) /\ UNCHANGED slot
           /\ reply' = Done
<1>1. /\ c[1] \in Ids \cup {Unchanged} /\ c[2] \in Ids \cup {Unchanged}
      /\ o[1] \in Ids /\ o[2] \in Ids
  BY DEF ChownIds, Owners
<1>2. ASSUME NEW s \in Slots, Found(k, s),
             slot' = [slot EXCEPT ![s].uid = IdOr(c[1], @), ![s].gid = IdOr(c[2], @)]
      PROVE  Puts(s, k, Merged(s, c[1], c[2]))
  <2>1. Holds(s, k) /\ slot[s] \in Slot
    BY <1>2, FoundHolds DEF Inv, TypeOK
  <2>2. slot[s].uid \in Ids /\ slot[s].gid \in Ids
    BY <2>1 DEF Slot
  <2>3. IdOr(c[1], slot[s].uid) \in Ids /\ IdOr(c[2], slot[s].gid) \in Ids
    BY <1>1, <2>2, IdOrTyped
  <2>4. Merged(s, c[1], c[2]) \in Slot
    BY <2>1, <2>3 DEF Merged, Slot
  <2>5. slot' = [slot EXCEPT ![s] = Merged(s, c[1], c[2])]
    BY <1>2 DEF Merged, Inv, TypeOK
  <2>6. Merged(s, c[1], c[2]).occupied = "LIVE" /\ Merged(s, c[1], c[2]).key = k
    BY <2>1 DEF Merged, Holds, Is, Slot
  <2> QED BY <2>1, <2>4, <2>5, <2>6 DEF Puts
<1>3. ASSUME NEW s \in Slots, Vacant(k, s),
             slot' = [slot EXCEPT ![s] = Encode(k, FreshChown(c[1], c[2], o[1], o[2]))]
      PROVE  Puts(s, k, Encode(k, FreshChown(c[1], c[2], o[1], o[2])))
  <2>1. FreshChown(c[1], c[2], o[1], o[2]) \in FakeInode
    BY <1>1, FreshTyped
  <2> QED BY <1>3, <2>1, EncodeTyped DEF Puts
<1> QED BY <1>2, <1>3 DEF UpsertChown

\* upsert_inode.
LEMMA InodePuts ==
    ASSUME Inv, NEW k \in Keys, NEW inode \in FakeInode, UpsertInode(k, inode)
    PROVE  /\ \/ \E s \in Slots : Puts(s, k, Encode(k, inode))
              \/ Full(k) /\ UNCHANGED slot
           /\ reply' = Done
  BY EncodeTyped, FoundHolds DEF UpsertInode, Puts

\* remove_inode.
LEMMA RemovePuts ==
    ASSUME Inv, NEW k \in Keys, RemoveInode(k)
    PROVE  \/ \E s \in Slots, new \in Slot :
                 /\ Found(k, s) /\ Puts(s, k, new) /\ new.occupied = "TOMBSTONE"
                 /\ reply' = Done
           \/ /\ (\E s \in Slots : Vacant(k, s)) \/ Full(k)
              /\ reply' = Absent /\ UNCHANGED slot
<1>1. ASSUME NEW s \in Slots, Found(k, s),
             slot' = [slot EXCEPT ![s].page = NoXattrs, ![s].occupied = "TOMBSTONE"]
      PROVE  \E new \in Slot : Puts(s, k, new) /\ new.occupied = "TOMBSTONE"
  <2> DEFINE new == [slot[s] EXCEPT !.page = NoXattrs, !.occupied = "TOMBSTONE"]
  <2>1. Holds(s, k) /\ slot[s] \in Slot
    BY <1>1, FoundHolds DEF Inv, TypeOK
  <2>2. new \in Slot /\ new.occupied = "TOMBSTONE"
    BY <2>1, FakeInodesAssumption DEF Slot
  <2>3. slot' = [slot EXCEPT ![s] = new]
    BY <1>1 DEF Inv, TypeOK
  <2>4. Puts(s, k, new)
    BY <2>1, <2>2, <2>3 DEF Puts
  <2> QED BY <2>2, <2>4
<1> QED BY <1>1 DEF RemoveInode

\* The invariant holds of an empty table.
LEMMA InvInit == Init => Inv
<1> SUFFICES ASSUME Init PROVE Inv
  OBVIOUS
<1>1. TypeOK
  BY FakeInodesAssumption DEF Init, TypeOK, Slot
<1>2. \A s \in Slots : Is(s, "EMPTY")
  BY DEF Init, Is
<1>3. \A s \in Slots, k \in Keys : ~ Holds(s, k)
  BY <1>2 DEF Holds, Is
<1> QED BY <1>1, <1>3, AtInSlots DEF Inv, Reachable, OneSlotPerKey

\* Every operation keeps it.
LEMMA InvStep == Inv /\ [Next]_vars => Inv'
<1> SUFFICES ASSUME Inv, [Next]_vars PROVE Inv'
  OBVIOUS
<1>1. CASE UNCHANGED vars
  BY <1>1, SameInv DEF vars, Inv, TypeOK
<1>2. ASSUME NEW k \in Keys, NEW c \in Chowns, NEW o \in Defaults,
             UpsertChown(k, c[1], c[2], o[1], o[2])
      PROVE  Inv'
  <2>1. c \in ChownIds /\ o \in Owners
    BY ShmTableAssumption
  <2> QED BY <1>2, <2>1, ChownPuts, PutsInv, SameInv
<1>3. ASSUME NEW k \in Keys, NEW i \in Inodes, UpsertInode(k, i) PROVE Inv'
  <2>1. i \in FakeInode
    BY ShmTableAssumption
  <2> QED BY <1>3, <2>1, InodePuts, PutsInv, SameInv
<1>4. ASSUME NEW k \in Keys, RemoveInode(k) PROVE Inv'
  BY <1>4, RemovePuts, PutsInv, SameInv
<1>5. ASSUME NEW k \in Keys, GetInode(k) PROVE Inv'
  <2>1. reply' \in FakeInode \cup {Absent, Done}
    BY <1>5, DecodeTyped DEF GetInode, Inv, TypeOK
  <2> QED BY <1>5, <2>1, SameInv DEF GetInode
<1> QED BY <1>1, <1>2, <1>3, <1>4, <1>5 DEF Next

\* Slots hold what their fields can express, and lookups return entries.
THEOREM TypeCorrect == Spec => []TypeOK
<1>1. Inv => TypeOK
  BY DEF Inv
<1> QED BY InvInit, InvStep, <1>1, PTL DEF Spec

\* An entry stays reachable from the home bucket of its key, whatever was removed
\* and inserted before it.
THEOREM ReachableAlways == Spec => []Reachable
<1>1. Inv => Reachable
  BY DEF Inv
<1> QED BY InvInit, InvStep, <1>1, PTL DEF Spec

\* A key never gets a second slot, although inserts reuse tombstones that lie before
\* the end of the walk.
THEOREM OneSlotPerKeyAlways == Spec => []OneSlotPerKey
<1>1. Inv => OneSlotPerKey
  BY DEF Inv
<1> QED BY InvInit, InvStep, <1>1, PTL DEF Spec
-----------------------------------------------------------------------------
(***************************************************************************)
(* The table implements the map.                                           *)
(***************************************************************************)
\* A key's entry is what its slot says.
LEMMA ViewHeld ==
    ASSUME Inv, NEW k \in Keys, NEW s \in Slots, Holds(s, k)
    PROVE  View[k] = Decode(slot[s])
<1>1. \A t \in Slots : Holds(t, k) => t = s
  BY DEF Inv, OneSlotPerKey
<1>2. (CHOOSE t \in Slots : Holds(t, k)) = s
  BY <1>1
<1> QED BY <1>2 DEF View

LEMMA ViewHeldNext ==
    ASSUME Inv', NEW k \in Keys, NEW s \in Slots, Holds(s, k)'
    PROVE  View'[k] = Decode(slot'[s])
<1>1. \A t \in Slots : Holds(t, k)' => t = s
  BY DEF Inv, OneSlotPerKey, Slots
<1>2. (CHOOSE t \in Slots : Holds(t, k)') = s
  BY <1>1
<1>3. View'[k] = Decode(slot'[CHOOSE t \in Slots : Holds(t, k)'])
  BY DEF View, Slots, Decode
<1> QED BY <1>2, <1>3

\* A key without a slot has no entry.
LEMMA ViewFree ==
    ASSUME NEW k \in Keys, \A s \in Slots : ~ Holds(s, k)
    PROVE  View[k] = Absent
  BY DEF View

LEMMA ViewFreeNext ==
    ASSUME NEW k \in Keys, \A s \in Slots : ~ Holds(s, k)'
    PROVE  View'[k] = Absent
  BY DEF View, Slots

\* What is written to a slot becomes the entry of its key, and of no other.
LEMMA ViewPuts ==
    ASSUME Inv, Inv', NEW k \in Keys, NEW s, NEW new, Puts(s, k, new)
    PROVE  View' = [View EXCEPT ![k] = IF new.occupied = "LIVE" THEN Decode(new) ELSE Absent]
<1>1. s \in Slots /\ slot'[s] = new /\ \A t \in Slots : t # s => slot'[t] = slot[t]
  BY DEF Puts, Inv, TypeOK
<1>2. View'[k] = IF new.occupied = "LIVE" THEN Decode(new) ELSE Absent
  <2>1. CASE new.occupied = "LIVE"
    BY <1>1, <2>1, PutsHolds, ViewHeldNext
  <2>2. CASE new.occupied # "LIVE"
    <3>1. \A t \in Slots : Holds(t, k) => t = s
      BY <2>2 DEF Puts, Inv, OneSlotPerKey
    <3>2. \A t \in Slots : ~ Holds(t, k)'
      BY <2>2, <3>1, PutsHolds
    <3> QED BY <2>2, <3>2, ViewFreeNext
  <2> QED BY <2>1, <2>2
<1>3. ASSUME NEW j \in Keys, j # k PROVE View'[j] = View[j]
  <2>1. CASE \E t \in Slots : Holds(t, j)
    <3>1. PICK t \in Slots : Holds(t, j)
      BY <2>1
    <3>2. t # s /\ Holds(t, j)'
      BY <1>3, <3>1, PutsHolds
    <3>3. View[j] = Decode(slot[t]) /\ View'[j] = Decode(slot'[t])
      BY <3>1, <3>2, ViewHeld, ViewHeldNext
    <3> QED BY <1>1, <3>2, <3>3
  <2>2. CASE \A t \in Slots : ~ Holds(t, j)
    <3>1. \A t \in Slots : ~ Holds(t, j)'
      BY <1>3, <2>2, PutsHolds
    <3> QED BY <2>2, <3>1, ViewFree, ViewFreeNext
  <2> QED BY <2>1, <2>2
<1>4. View = [j \in Keys |-> View[j]] /\ View' = [j \in Keys |-> View'[j]]
  BY DEF View
<1> QED BY <1>2, <1>3, <1>4

\* A table that is left alone says the same.
LEMMA ViewSame == UNCHANGED slot => View' = View
  BY DEF View, Holds, Is, Slots

\* Written and read back, an entry is what the map can store of it.
LEMMA Stored ==
    ASSUME NEW k \in Keys, NEW inode \in FakeInode
    PROVE  Decode(Encode(k, inode)) = Promise!Storable(inode)
<1>1. ASSUME NEW n \in Nat \cup {None} PROVE NonZero(OrZero(n)) = Promise!NonZero(n)
  BY <1>1, FakeInodesAssumption DEF NonZero, OrZero, Promise!NonZero
<1>2. inode.mode \in Nat \cup {None} /\ inode.rdev \in Nat \cup {None}
  BY FakeInodesAssumption DEF FakeInode
<1>3. inode = [uid |-> inode.uid, gid |-> inode.gid, mode |-> inode.mode,
               rdev |-> inode.rdev, xattrs |-> inode.xattrs]
  BY DEF FakeInode
<1>4. Promise!Storable(inode) =
         [uid |-> inode.uid, gid |-> inode.gid, mode |-> Promise!NonZero(inode.mode),
          rdev |-> Promise!NonZero(inode.rdev),
          xattrs |-> IF inode.xattrs \in Fits THEN inode.xattrs ELSE NoXattrs]
  BY <1>3 DEF Promise!Storable
<1>5. Decode(Encode(k, inode)) =
         [uid |-> inode.uid, gid |-> inode.gid, mode |-> NonZero(OrZero(inode.mode)),
          rdev |-> NonZero(OrZero(inode.rdev)), xattrs |-> PageOf(inode.xattrs)]
  BY DEF Decode, Encode
<1>6. /\ NonZero(OrZero(inode.mode)) = Promise!NonZero(inode.mode)
      /\ NonZero(OrZero(inode.rdev)) = Promise!NonZero(inode.rdev)
  BY <1>1, <1>2
<1>7. PageOf(inode.xattrs) = IF inode.xattrs \in Fits THEN inode.xattrs ELSE NoXattrs
  BY DEF PageOf
<1> QED BY <1>4, <1>5, <1>6, <1>7, Zenon

\* A chown changes the owner that is read back, and nothing else.
LEMMA StoredChown ==
    ASSUME Inv, NEW s \in Slots, NEW u, NEW g
    PROVE  Decode(Merged(s, u, g)) = Promise!Storable(MergeChown(Decode(slot[s]), u, g))
<1>0. slot[s] \in Slot
  BY DEF Inv, TypeOK
<1>1. /\ slot[s] \in Slot
      /\ slot[s].mode \in Nat /\ slot[s].rdev \in Nat /\ slot[s].page \in Fits
  <2>1. slot[s].mode \in Modes \cup {0} /\ slot[s].rdev \in Rdevs \cup {0} /\ slot[s].page \in Fits
    BY <1>0 DEF Slot
  <2>2. Modes \subseteq Nat /\ Rdevs \subseteq Nat
    BY FakeInodesAssumption
  <2>3. \A n \in Modes \cup Rdevs \cup {0} : n \in Nat
    BY <2>2
  <2> QED BY <1>0, <2>1, <2>3, Zenon
<1>2. Decode(Merged(s, u, g)) =
         [uid |-> IdOr(u, slot[s].uid), gid |-> IdOr(g, slot[s].gid),
          mode |-> NonZero(slot[s].mode), rdev |-> NonZero(slot[s].rdev),
          xattrs |-> slot[s].page]
  BY <1>1 DEF Decode, Merged, Slot
<1>3. MergeChown(Decode(slot[s]), u, g) =
         [uid |-> IdOr(u, slot[s].uid), gid |-> IdOr(g, slot[s].gid),
          mode |-> NonZero(slot[s].mode), rdev |-> NonZero(slot[s].rdev),
          xattrs |-> slot[s].page]
  <2> DEFINE old == Decode(slot[s])
  <2>1. old = [uid |-> slot[s].uid, gid |-> slot[s].gid, mode |-> NonZero(slot[s].mode),
               rdev |-> NonZero(slot[s].rdev), xattrs |-> slot[s].page]
    BY DEF Decode
  <2>2. old.uid = slot[s].uid /\ old.gid = slot[s].gid
    BY <2>1
  <2> HIDE DEF old
  <2>3. MergeChown(old, u, g) =
           [old EXCEPT !.uid = IdOr(u, slot[s].uid), !.gid = IdOr(g, slot[s].gid)]
    BY <2>2 DEF MergeChown
  <2> DEFINE mid == [old EXCEPT !.uid = IdOr(u, slot[s].uid)]
  <2>4. mid = [uid |-> IdOr(u, slot[s].uid), gid |-> slot[s].gid,
               mode |-> NonZero(slot[s].mode), rdev |-> NonZero(slot[s].rdev),
               xattrs |-> slot[s].page]
    BY <2>1
  <2>5. MergeChown(old, u, g) = [mid EXCEPT !.gid = IdOr(g, slot[s].gid)]
    BY <2>1, <2>3
  <2> HIDE DEF mid
  <2>6. [mid EXCEPT !.gid = IdOr(g, slot[s].gid)] =
         [uid |-> IdOr(u, slot[s].uid), gid |-> IdOr(g, slot[s].gid),
          mode |-> NonZero(slot[s].mode), rdev |-> NonZero(slot[s].rdev),
          xattrs |-> slot[s].page]
    BY <2>4
  <2> QED BY <2>5, <2>6 DEF old
<1>4. ASSUME NEW n \in Nat PROVE Promise!NonZero(NonZero(n)) = NonZero(n)
  BY FakeInodesAssumption DEF NonZero, Promise!NonZero
<1>5. /\ Promise!NonZero(NonZero(slot[s].mode)) = NonZero(slot[s].mode)
      /\ Promise!NonZero(NonZero(slot[s].rdev)) = NonZero(slot[s].rdev)
  BY <1>1, <1>4
<1> DEFINE merged == MergeChown(Decode(slot[s]), u, g)
<1>6. Promise!Storable(merged) =
         [merged EXCEPT !.mode = Promise!NonZero(@), !.rdev = Promise!NonZero(@),
                        !.xattrs = IF @ \in Fits THEN @ ELSE NoXattrs]
  BY DEF Promise!Storable
<1> HIDE DEF merged
<1>7. merged = [uid |-> IdOr(u, slot[s].uid), gid |-> IdOr(g, slot[s].gid),
                mode |-> NonZero(slot[s].mode), rdev |-> NonZero(slot[s].rdev),
                xattrs |-> slot[s].page]
  BY <1>3 DEF merged
<1>8. Promise!Storable(merged) = merged
  BY <1>1, <1>5, <1>6, <1>7
<1> QED BY <1>2, <1>7, <1>8 DEF merged

\* The map's chown is the same function of an entry.
LEMMA SameChown ==
    ASSUME NEW inode, NEW u, NEW g, NEW du, NEW dg
    PROVE  /\ Promise!MergeChown(inode, u, g) = MergeChown(inode, u, g)
           /\ Promise!FreshChown(u, g, du, dg) = FreshChown(u, g, du, dg)
  BY DEF MergeChown, FreshChown, New, IdOr,
         Promise!MergeChown, Promise!FreshChown, Promise!New, Promise!IdOr

\* A step of the table is a step of the map.
LEMMA RefinesStep == Inv /\ Inv' /\ [Next]_vars => [Promise!Next]_(Promise!vars)
<1> SUFFICES ASSUME Inv, Inv', [Next]_vars PROVE [Promise!Next]_(Promise!vars)
  OBVIOUS
<1>1. CASE UNCHANGED vars
  BY <1>1, ViewSame DEF vars, Promise!vars
<1>2. ASSUME NEW k \in Keys, NEW c \in Chowns, NEW o \in Defaults,
             UpsertChown(k, c[1], c[2], o[1], o[2])
      PROVE  Promise!UpsertChown(k, c[1], c[2], o[1], o[2])
  <2>1. c \in ChownIds /\ o \in Owners
    BY ShmTableAssumption
  <2>2. c[1] \in Ids \cup {Unchanged} /\ c[2] \in Ids \cup {Unchanged} /\ o[1] \in Ids /\ o[2] \in Ids
    BY <2>1 DEF ChownIds, Owners
  <2>3. reply' = Done
    BY <1>2, <2>1, ChownPuts
  <2>4. ASSUME NEW s \in Slots, Found(k, s), Puts(s, k, Merged(s, c[1], c[2]))
        PROVE  Promise!UpsertChown(k, c[1], c[2], o[1], o[2])
    <3>1. Holds(s, k) /\ slot[s] \in Slot
      BY <2>4, FoundHolds DEF Inv, TypeOK
    <3>2. View[k] = Decode(slot[s]) /\ View[k] # Absent
      BY <3>1, ViewHeld, DecodeTyped, ReplyAssumption
    <3>3. Merged(s, c[1], c[2]).occupied = "LIVE"
      BY <3>1 DEF Merged, Slot, Holds, Is
    <3>4. View' = [View EXCEPT ![k] = Promise!Storable(MergeChown(View[k], c[1], c[2]))]
      BY <2>4, <3>2, <3>3, ViewPuts, StoredChown
    <3> QED BY <2>3, <3>2, <3>4, SameChown DEF Promise!UpsertChown, Promise!Put
  <2>5. ASSUME NEW s \in Slots, Vacant(k, s),
               Puts(s, k, Encode(k, FreshChown(c[1], c[2], o[1], o[2])))
        PROVE  Promise!UpsertChown(k, c[1], c[2], o[1], o[2])
    <3>1. FreshChown(c[1], c[2], o[1], o[2]) \in FakeInode
      BY <2>2, FreshTyped
    <3>2. View[k] = Absent
      BY <2>5, VacantFree, ViewFree
    <3>3. View' = [View EXCEPT ![k] = Promise!Storable(FreshChown(c[1], c[2], o[1], o[2]))]
      BY <2>5, <3>1, ViewPuts, EncodeTyped, Stored
    <3> QED BY <2>3, <3>2, <3>3, SameChown DEF Promise!UpsertChown, Promise!Put
  <2>6. ASSUME Full(k), UNCHANGED slot
        PROVE  Promise!UpsertChown(k, c[1], c[2], o[1], o[2])
    <3>1. View[k] = Absent /\ View' = View
      BY <2>6, FullFree, ViewFree, ViewSame
    <3> QED BY <2>3, <3>1 DEF Promise!UpsertChown, Promise!Put
  <2> QED BY <1>2, <2>1, <2>4, <2>5, <2>6, ChownPuts
<1>3. ASSUME NEW k \in Keys, NEW i \in Inodes, UpsertInode(k, i)
      PROVE  Promise!SetInode(k, i)
  <2>1. i \in FakeInode
    BY ShmTableAssumption
  <2>2. reply' = Done
    BY <1>3, <2>1, InodePuts
  <2>3. ASSUME NEW s \in Slots, Puts(s, k, Encode(k, i)) PROVE Promise!SetInode(k, i)
    <3>1. View' = [View EXCEPT ![k] = Promise!Storable(i)]
      BY <2>1, <2>3, ViewPuts, EncodeTyped, Stored
    <3> QED BY <2>2, <3>1 DEF Promise!SetInode, Promise!Put
  <2>4. ASSUME Full(k), UNCHANGED slot PROVE Promise!SetInode(k, i)
    <3>1. View[k] = Absent /\ View' = View
      BY <2>4, FullFree, ViewFree, ViewSame
    <3> QED BY <2>2, <3>1 DEF Promise!SetInode, Promise!Put
  <2> QED BY <1>3, <2>1, <2>3, <2>4, InodePuts
<1>4. ASSUME NEW k \in Keys, RemoveInode(k) PROVE Promise!RemoveInode(k)
  <2>1. ASSUME NEW s \in Slots, NEW new \in Slot, Found(k, s), Puts(s, k, new),
               new.occupied = "TOMBSTONE", reply' = Done
        PROVE  Promise!RemoveInode(k)
    <3>1. View[k] # Absent
      <4>1. Holds(s, k) /\ slot[s] \in Slot
        BY <2>1, FoundHolds DEF Inv, TypeOK
      <4> QED BY <4>1, ViewHeld, DecodeTyped, ReplyAssumption
    <3>2. View' = [View EXCEPT ![k] = Absent]
      BY <2>1, ViewPuts
    <3> QED BY <2>1, <3>1, <3>2 DEF Promise!RemoveInode
  <2>2. ASSUME (\E s \in Slots : Vacant(k, s)) \/ Full(k), reply' = Absent, UNCHANGED slot
        PROVE  Promise!RemoveInode(k)
    <3>1. View[k] = Absent /\ View' = View
      BY <2>2, VacantFree, FullFree, ViewFree, ViewSame
    <3>2. View' = [View EXCEPT ![k] = Absent]
      BY <3>1 DEF View
    <3> QED BY <2>2, <3>1, <3>2 DEF Promise!RemoveInode
  <2> QED BY <1>4, <2>1, <2>2, RemovePuts
<1>5. ASSUME NEW k \in Keys, GetInode(k) PROVE Promise!GetInode(k)
  <2>1. View' = View
    BY <1>5, ViewSame DEF GetInode
  <2>2. reply' = View[k]
    BY <1>5, FoundHolds, ViewHeld, VacantFree, FullFree, ViewFree DEF GetInode
  <2> QED BY <2>1, <2>2 DEF Promise!GetInode
<1> QED BY <1>1, <1>2, <1>3, <1>4, <1>5 DEF Next, Promise!Next

\* An empty table is an empty map.
LEMMA RefinesInit == Init => Promise!Init
  BY ViewFree DEF Init, Promise!Init, View, Holds, Is

\* The table implements the map of InodeMap: whatever the history of collisions,
\* removals and reused tombstones, a lookup returns what the operations on its key
\* alone have left, and an insert stores its whole entry or, without room, nothing.
THEOREM Implements == Spec => ImplementsMap
  BY InvInit, InvStep, RefinesInit, RefinesStep, PTL DEF Spec, ImplementsMap, Promise!Spec
=============================================================================
