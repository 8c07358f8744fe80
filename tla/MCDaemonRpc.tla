---------------------------- MODULE MCDaemonRpc ----------------------------
(***************************************************************************)
(* Instances of DaemonRpc and DaemonFork for TLC: two processes with up to *)
(* two connections, one inode, and requests that read, change and remove   *)
(* it.                                                                     *)
(***************************************************************************)
EXTENDS DaemonFork

CONSTANTS p1, p2, k

Chown(id) == [type |-> "UpsertChown", key |-> k, ids |-> <<id, Unchanged>>,
              owners |-> <<0, 0>>]
Get == [type |-> "GetOwnership", key |-> k]
Remove == [type |-> "RemoveOwnership", key |-> k]
Set == [type |-> "RegisterOwnership", key |-> k, inode |-> New(0, 1)]
Ask(type) == [type |-> type]

MCRequests == {Chown(1), Get, Remove, Set, Ask("Ping"), Ask("Shutdown"), Ask("Error")}

Calls(requests, n) == [sharing |-> "own", requests |-> requests, calls |-> n,
                       ends |-> FALSE, kills |-> FALSE]

\* Every process has its own connection.
Own == {Calls({Chown(1), Get}, 2), Calls({Set, Chown(1), Remove, Ask("Ping"), Ask("Error")}, 1)}

\* Processes may be killed, and the daemon may end and be started again.
Ending == {[Calls({Set, Get, Ask("Shutdown")}, 1) EXCEPT !.ends = TRUE, !.kills = TRUE]}

\* A child uses its parent's connection while the parent waits.
Turns == {[Calls({Chown(1), Get}, 1) EXCEPT !.sharing = "turns"]}

Sound == Own \cup Ending \cup Turns

\* Parent and child call as they like.
Forked == {[Calls({Chown(1), Get}, 1) EXCEPT !.sharing = "any"]}
=============================================================================
