----------------------------- MODULE MCShmTable -----------------------------
(***************************************************************************)
(* Instances of ShmTable for TLC.  Three slots and three keys, two of them *)
(* with the same home bucket and the third in the bucket after it, so that *)
(* walks collide, wrap around, cross tombstones and run out of room.       *)
(***************************************************************************)
EXTENDS ShmTable, TLC

CONSTANTS k1, k2, k3, x, big

MCHash == (k1 :> 1) @@ (k2 :> 1) @@ (k3 :> 2)

\* chown(u, -1), chown(-1, g), chown(u, g)
MCChowns == {<<1, Unchanged>>, <<Unchanged, 1>>, <<1, 1>>}
MCDefaults == {<<0, 0>>}

\* A plain file, a device with a mode and xattrs, and an entry of which a
\* slot can express neither the mode, nor the device, nor the xattrs.
MCInodes == {New(0, 1),
             [uid |-> 1, gid |-> 0, mode |-> 7, rdev |-> 5, xattrs |-> x],
             [uid |-> 0, gid |-> 0, mode |-> 0, rdev |-> 0, xattrs |-> big]}
=============================================================================
