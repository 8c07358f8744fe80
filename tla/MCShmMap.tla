------------------------------ MODULE MCShmMap ------------------------------
(***************************************************************************)
(* Instances of ShmMap for TLC: three files of one file system, all in the *)
(* same home bucket of a table of two or three slots, so that every walk   *)
(* crosses the others' slots and the table runs out of room.               *)
(***************************************************************************)
EXTENDS ShmMap, TLC

CONSTANTS d1, d2, i1, i2, i3,  \* devices and inode numbers
          p1, p2               \* processes

File(d, i) == [dev |-> d, ino |-> i]

TwoFiles == {File(d1, i1), File(d1, i2)}
ThreeFiles == TwoFiles \cup {File(d1, i3)}

\* The last bucket: the walk wraps around at once.
LastBucket == [k \in Keys |-> N - 1]

\* Two files of two devices that make up a third one.
MixedFiles == {File(d1, i1), File(d2, i2), File(d1, i2)}

\* Every process changes every file, or its own file only.
Shared == [p \in Procs |-> Keys]
OwnFile == (p1 :> {File(d1, i1)}) @@ (p2 :> {File(d1, i2)})
OwnMixed == (p1 :> {File(d1, i1)}) @@ (p2 :> {File(d2, i2)})

Symmetry == Permutations(Procs)
=============================================================================
