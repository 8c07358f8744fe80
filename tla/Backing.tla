------------------------------ MODULE Backing ------------------------------
(***************************************************************************)
(* Where the ownership hooks keep their entries (get_inode, set_inode,     *)
(* update_inode, remove_inode and record_chown_key of ownership.rs): the   *)
(* shared table of the session, a daemon reached over a socket, or the     *)
(* state of the process itself, which in daemon mode also holds a copy of  *)
(* part of what the process has sent.                                      *)
(*                                                                         *)
(* An operation is one step here; modules ShmMap and Ownership split it.   *)
(* A request to the daemon is answered as long as the daemon the process   *)
(* connected to is running; nothing reconnects, and DAEMON_CONNECTED is    *)
(* never taken back.                                                       *)
(*                                                                         *)
(* A scene says how the session is backed and what happens in it: the      *)
(* operations, how many processes run at the same time, and whether the    *)
(* daemon may end while they use it.                                       *)
(***************************************************************************)
EXTENDS FakeInodes, FiniteSets

CONSTANTS Procs,
          Scenes,   \* the scenes of a run
          Chowns,   \* the ids passed to chown: a subset of ChownIds
          Current   \* the current fake uid and gid

Scene == [backend : {"shm", "daemon", "local"},
          operations : SUBSET {"chown", "update", "remove", "fork"},
          running : Nat, dies : BOOLEAN]

ASSUME BackingAssumption ==
    /\ Scenes \subseteq Scene
    /\ \A s \in Scenes : s.dies => s.running <= 1
    /\ Chowns \subseteq ChownIds
    /\ Current \in Owners

VARIABLES scene,    \* the scene
          up,       \* is the daemon running?
          session,  \* the table or the daemon's map
          running,  \* the processes of the session
          conn,     \* their connections: "none", "up" or "broken"
          local,    \* their own state
          truth,    \* history: what the operations amount to
          touched   \* history: keys changed since the first of running started

vars == <<scene, up, session, running, conn, local, truth, touched>>

Nothing == [k \in Keys |-> Absent]
Map == [Keys -> FakeInode \cup {Absent}]

TypeOK ==
    /\ scene \in Scenes
    /\ up \in BOOLEAN
    /\ session \in Map
    /\ running \subseteq Procs
    /\ conn \in [Procs -> {"none", "up", "broken"}]
    /\ local \in [Procs -> Map]
    /\ truth \in Map
    /\ touched \subseteq Keys

\* The daemon may not be running although the session is to use it.
Init ==
    /\ scene \in Scenes
    /\ up \in IF scene.backend = "daemon" THEN BOOLEAN ELSE {FALSE}
    /\ session = Nothing
    /\ running = {}
    /\ conn = [p \in Procs |-> "none"]
    /\ local = [p \in Procs |-> Nothing]
    /\ truth = Nothing
    /\ touched = {}
-----------------------------------------------------------------------------
Old(inode) == IF inode = Absent THEN New(Current[1], Current[2]) ELSE inode

Active(p) == conn[p] # "none"    \* daemon_mode_active
Answered(p) == conn[p] = "up"    \* daemon_request returns an answer

\* Faulty variant: a process prefers its own copy.
GetInode_LocalFirst(p, k) ==
    IF scene.backend = "shm" THEN session[k]
    ELSE IF local[p][k] # Absent THEN local[p][k]
    ELSE IF Answered(p) THEN session[k] ELSE Absent

GetInode(p, k) ==
    IF scene.backend = "shm" THEN session[k]
    ELSE IF Answered(p) /\ session[k] # Absent THEN session[k]
    ELSE local[p][k]

\* set_inode and remove_inode: the table, or else the process's own state and,
\* where it answers, the daemon.
Store(p, k, inode) ==
    /\ session' = IF scene.backend = "shm" \/ Answered(p)
                  THEN [session EXCEPT ![k] = inode] ELSE session
    /\ local' = IF scene.backend = "shm" THEN local
                ELSE [local EXCEPT ![p][k] = inode]

SetInode(p, k, inode) == Store(p, k, inode)

RemoveInode(p, k) == Store(p, k, Absent)

\* A hook that changes one field of the entry.
UpdateInode(p, k, mode) ==
    /\ p \in running /\ "update" \in scene.operations
    /\ SetInode(p, k, [Old(GetInode(p, k)) EXCEPT !.mode = mode])
    /\ truth' = [truth EXCEPT ![k] = [Old(@) EXCEPT !.mode = mode]]
    /\ touched' = touched \cup {k}
    /\ UNCHANGED <<scene, up, running, conn>>

Remove(p, k) ==
    /\ p \in running /\ "remove" \in scene.operations
    /\ RemoveInode(p, k)
    /\ truth' = [truth EXCEPT ![k] = Absent]
    /\ touched' = touched \cup {k}
    /\ UNCHANGED <<scene, up, running, conn>>

\* A process with a connection leaves the merge to the daemon and looks
\* neither at the answer nor at its own state.
RecordChown(p, k, ids) ==
    LET Chowned(inode) == MergeChown(Old(inode), ids[1], ids[2]) IN
    /\ p \in running /\ "chown" \in scene.operations
    /\ \/ /\ scene.backend = "shm" \/ Answered(p)
          /\ session' = [session EXCEPT ![k] = Chowned(@)]
          /\ UNCHANGED local
       \/ /\ scene.backend # "shm" /\ Active(p) /\ ~ Answered(p)
          /\ UNCHANGED <<session, local>>
       \/ /\ scene.backend # "shm" /\ ~ Active(p)
          /\ local' = [local EXCEPT ![p][k] = Chowned(@)]
          /\ UNCHANGED session
    /\ truth' = [truth EXCEPT ![k] = Chowned(@)]
    /\ touched' = touched \cup {k}
    /\ UNCHANGED <<scene, up, running, conn>>
-----------------------------------------------------------------------------
(***************************************************************************)
(* Processes and the daemon.                                               *)
(***************************************************************************)
\* A program is started: the library connects once (ensure_session_backing_
\* init).  A process on its own state is a session of its own.
Start(p) ==
    LET c == IF up THEN "up" ELSE "none" IN
    /\ p \notin running /\ Cardinality(running) < scene.running
    /\ scene.backend # "shm" /\ c = "none" => running = {}
    /\ running' = running \cup {p}
    /\ conn' = [conn EXCEPT ![p] = c]
    /\ local' = [local EXCEPT ![p] = Nothing]
    /\ truth' = IF scene.backend # "shm" /\ c = "none" THEN Nothing ELSE truth
    /\ touched' = IF running = {} THEN {} ELSE touched
    /\ UNCHANGED <<scene, up, session>>

\* fork copies the state and the connection; a process on its own state that
\* forks makes two sessions, and is left out.
Fork(p, q) ==
    /\ "fork" \in scene.operations
    /\ scene.backend = "shm" \/ Active(p)
    /\ p \in running /\ q \notin running /\ Cardinality(running) < scene.running
    /\ running' = running \cup {q}
    /\ conn' = [conn EXCEPT ![q] = conn[p]]
    /\ local' = [local EXCEPT ![q] = local[p]]
    /\ UNCHANGED <<scene, up, session, truth, touched>>

Exit(p) ==
    /\ p \in running
    /\ running' = running \ {p}
    /\ conn' = [conn EXCEPT ![p] = "none"]
    /\ local' = [local EXCEPT ![p] = Nothing]
    /\ UNCHANGED <<scene, up, session, truth, touched>>

\* The daemon's entries are gone with it.  The process that uses it (at most
\* one) has a copy of those it changed itself; only they count from then on.
DaemonEnds ==
    /\ scene.dies /\ up
    /\ up' = FALSE
    /\ session' = Nothing
    /\ conn' = [p \in Procs |-> IF conn[p] = "up" THEN "broken" ELSE conn[p]]
    /\ truth' = [k \in Keys |->
          IF running # {} /\ k \in touched THEN truth[k] ELSE Absent]
    /\ UNCHANGED <<scene, running, local, touched>>

Next ==
    \/ \E p \in Procs :
          \/ \E k \in Keys :
                \/ \E m \in Modes : UpdateInode(p, k, m)
                \/ \E ids \in Chowns : RecordChown(p, k, ids)
                \/ Remove(p, k)
          \/ Start(p) \/ Exit(p)
          \/ \E q \in Procs : Fork(p, q)
    \/ DaemonEnds

Spec == Init /\ [][Next]_vars
-----------------------------------------------------------------------------
(***************************************************************************)
(* Properties.                                                             *)
(***************************************************************************)
\* Every process of a session finds what the operations of all of them, in
\* whichever process and at whichever time of the session, amount to.
Recorded ==
    \A p \in running, k \in Keys : GetInode(p, k) = truth[k]
=============================================================================
