----------------------------- MODULE MCBacking -----------------------------
(***************************************************************************)
(* Instances of Backing for TLC: two inodes, and one or two processes that *)
(* start and exit any number of times.                                     *)
(***************************************************************************)
EXTENDS Backing

CONSTANTS p1, p2, k1, k2

MCChowns == {<<1, Unchanged>>, <<Unchanged, 1>>}
Zero == <<0, 0>>

Session(backend, operations) ==
    [backend |-> backend, operations |-> operations, running |-> 1, dies |-> FALSE]

\* One process after the other, in every kind of session.
Alone == {Session(b, {"chown", "update", "remove"}) : b \in {"shm", "daemon", "local"}}

\* Two at once: any operations on the table, and all but removals with a daemon.
Together ==
    {[Session("shm", {"chown", "update", "remove", "fork"}) EXCEPT !.running = 2],
     [Session("daemon", {"chown", "update", "fork"}) EXCEPT !.running = 2]}

\* The daemon ends while a process that does not chown uses it.
Ending == {[Session("daemon", {"update", "remove"}) EXCEPT !.dies = TRUE]}

Sound == Alone \cup Together \cup Ending

(***************************************************************************)
(* Scenes in which Recorded fails.                                         *)
(***************************************************************************)
\* chown with a daemon that has ended.
Losing == {[Session("daemon", {"chown"}) EXCEPT !.dies = TRUE]}

\* One process removes what the other one stored with the daemon.
Removing == {[Session("daemon", {"update", "remove"}) EXCEPT !.running = 2]}
=============================================================================
