----------------------------- MODULE DaemonLife -----------------------------
(***************************************************************************)
(* Daemons that start and end on one socket path (bind_listener,           *)
(* accept_loop, run_blocking and SessionDaemon of daemon_server.rs;        *)
(* start_daemon of pdr.rs and main of the daemon) and the commands that    *)
(* stop them (stop_daemon of pdr.rs).                                      *)
(*                                                                         *)
(* A daemon removes whatever is at the path, binds, listens and serves     *)
(* until it sees its shutdown flag; then it removes what is at the path    *)
(* and exits.  A SessionDaemon serves in a thread of the launcher and      *)
(* removes the path when it is dropped.  Either can be interrupted         *)
(* (Ctrl+C) or killed at any time.                                         *)
(* pdr stop connects; where nothing listens it removes the file, and       *)
(* otherwise sends Shutdown and waits for the answer.                      *)
(*                                                                         *)
(* The path is removed by name, whoever has bound it.  A scene says when   *)
(* commands are given: "apart", a daemon when the last one has ended and   *)
(* no pdr stop is about to remove the file, and pdr stop when no daemon is *)
(* starting; "told", the same, but a daemon already when pdr stop has said *)
(* that the last one has stopped; "any", at any time.                      *)
(***************************************************************************)
EXTENDS Naturals

CONSTANTS Daemons,   \* daemon processes
          Commands,  \* pdr stop commands
          NoDaemon,  \* no file at the path; no daemon
          Scenes

Scene == [starts : {"apart", "told", "any"},
          session : BOOLEAN,   \* a SessionDaemon, or a process of its own
          cleanup : BOOLEAN]   \* --cleanup

ASSUME DaemonLifeAssumption ==
    /\ Scenes \subseteq Scene
    /\ NoDaemon \notin Daemons

VARIABLES scene,
          file,    \* the daemon that bound the socket at the path, or NoDaemon
          daemon,  \* what each daemon does
          flag,    \* its shutdown flag
          pc,      \* what each command does
          target,  \* the daemon it is connected to
          told,    \* history: daemons that a command has said have stopped
          killed   \* history: daemons that ended otherwise than by their flag

vars == <<scene, file, daemon, flag, pc, target, told, killed>>

Starting == {"removing", "binding", "listening"}
Connected == {"asked", "accepted", "flagged"}

TypeOK ==
    /\ scene \in Scenes
    /\ file \in Daemons \cup {NoDaemon}
    /\ daemon \in [Daemons -> Starting \cup {"off", "serving", "closing", "ended", "leaving", "exiting"}]
    /\ flag \in [Daemons -> BOOLEAN]
    /\ pc \in [Commands -> Connected \cup {"idle", "refused", "failed"}]
    /\ target \in [Commands -> Daemons \cup {NoDaemon}]
    /\ told \subseteq Daemons
    /\ killed \subseteq Daemons
    /\ \A c \in Commands : target[c] = NoDaemon <=> pc[c] \notin Connected

Init ==
    /\ scene \in Scenes
    /\ file = NoDaemon
    /\ daemon = [d \in Daemons |-> "off"]
    /\ flag = [d \in Daemons |-> FALSE]
    /\ pc = [c \in Commands |-> "idle"]
    /\ target = [c \in Commands |-> NoDaemon]
    /\ told = {}
    /\ killed = {}

Off(d) == daemon[d] = "off"

\* "closing": SessionDaemon's drop waits for the thread that still serves.
Serving(d) == daemon[d] \in {"serving", "closing"}

\* When a daemon is started, and a command given.
MayStart(d) ==
    scene.starts # "any" =>
       /\ \A e \in Daemons \ {d} : Off(e) \/ (scene.starts = "told" /\ e \in told)
       /\ \A c \in Commands : pc[c] # "refused"

MayStop == scene.starts # "any" => \A d \in Daemons : daemon[d] \notin Starting
-----------------------------------------------------------------------------
(***************************************************************************)
(* A daemon.                                                               *)
(***************************************************************************)
commands == <<scene, pc, target, told>>

Start(d) ==
    /\ Off(d) /\ MayStart(d)
    /\ daemon' = [daemon EXCEPT ![d] = "removing"]
    /\ flag' = [flag EXCEPT ![d] = FALSE]
    /\ told' = told \ {d}
    /\ killed' = killed \ {d}
    /\ UNCHANGED <<scene, file, pc, target>>

\* Faulty variant: bind without removing what is there.
RemoveOld_Not(d) ==
    /\ daemon[d] = "removing"
    /\ daemon' = [daemon EXCEPT ![d] = "binding"]
    /\ UNCHANGED <<commands, file, flag, killed>>

RemoveOld(d) ==
    /\ daemon[d] = "removing"
    /\ file' = NoDaemon
    /\ daemon' = [daemon EXCEPT ![d] = "binding"]
    /\ UNCHANGED <<commands, flag, killed>>

\* bind creates the socket file; listen makes it accept connections.
Bind(d) ==
    /\ daemon[d] = "binding" /\ file = NoDaemon
    /\ file' = d
    /\ daemon' = [daemon EXCEPT ![d] = "listening"]
    /\ UNCHANGED <<commands, flag, killed>>

Listen(d) ==
    /\ daemon[d] = "listening"
    /\ daemon' = [daemon EXCEPT ![d] = "serving"]
    /\ UNCHANGED <<commands, file, flag, killed>>

\* Another daemon has bound the path: the start is given up, and nothing removed.
BindFails(d) ==
    /\ daemon[d] = "binding" /\ file # NoDaemon
    /\ daemon' = [daemon EXCEPT ![d] = "off"]
    /\ UNCHANGED <<commands, file, flag, killed>>

\* Faulty variant: the client keeps a connection that was closed.
Disconnect_Kept(d, S) ==
    /\ pc' = [c \in Commands |-> IF target[c] = d /\ pc[c] \in S THEN "failed" ELSE pc[c]]
    /\ UNCHANGED target

\* Connections of d's clients in the states S are closed.
Disconnect(d, S) ==
    LET cut == {c \in Commands : target[c] = d /\ pc[c] \in S} IN
    /\ pc' = [c \in Commands |-> IF c \in cut THEN "failed" ELSE pc[c]]
    /\ target' = [c \in Commands |-> IF c \in cut THEN NoDaemon ELSE target[c]]

\* Faulty variant: the listener outlives the loop, and with it who waits there.
LoopEnds_Listening(d, next) ==
    /\ daemon' = [daemon EXCEPT ![d] =
                    IF ~ scene.session THEN next
                    ELSE IF @ = "closing" THEN "leaving" ELSE "ended"]
    /\ UNCHANGED <<scene, file, flag, pc, target, told>>

\* accept_loop is left.  A process goes on to the given state; the thread of a
\* SessionDaemon ends, and the rest is left to the drop.
LoopEnds(d, next) ==
    /\ daemon' = [daemon EXCEPT ![d] =
                    IF ~ scene.session THEN next
                    ELSE IF @ = "closing" THEN "leaving" ELSE "ended"]
    /\ Disconnect(d, {"asked"})
    /\ UNCHANGED <<scene, file, flag, told>>

\* Faulty variant: a blocking accept, and the flag looked at after it.
LeaveLoop_Blocking(d) ==
    /\ Serving(d) /\ flag[d] /\ \E c \in Commands : target[c] = d /\ pc[c] = "asked"
    /\ LoopEnds(d, "leaving")
    /\ UNCHANGED killed

\* Faulty variant: the file is removed only with --cleanup.
LeaveLoop_IfTold(d) ==
    /\ Serving(d) /\ flag[d]
    /\ LoopEnds(d, IF scene.cleanup THEN "leaving" ELSE "exiting")
    /\ UNCHANGED killed

\* accept_loop looks at the flag in each turn, at least every 10 ms.
LeaveLoop(d) ==
    /\ Serving(d) /\ flag[d]
    /\ LoopEnds(d, "leaving")
    /\ UNCHANGED killed

\* accept fails: run_blocking removes the file only with --cleanup.
AcceptFails(d) ==
    /\ Serving(d)
    /\ LoopEnds(d, IF scene.cleanup THEN "leaving" ELSE "exiting")
    /\ killed' = IF scene.session \/ scene.cleanup THEN killed ELSE killed \cup {d}

RemoveOwn(d) ==
    /\ daemon[d] = "leaving"
    /\ file' = NoDaemon
    /\ daemon' = [daemon EXCEPT ![d] = "exiting"]
    /\ UNCHANGED <<commands, flag, killed>>

End(d) ==
    /\ daemon' = [daemon EXCEPT ![d] = "off"]
    /\ Disconnect(d, Connected)
    /\ UNCHANGED <<scene, flag, told>>

\* set_nonblocking fails after bind: the start is given up, and the file stays.
ListenFails(d) ==
    /\ daemon[d] = "listening"
    /\ killed' = killed \cup {d}
    /\ End(d)
    /\ UNCHANGED file

Exit(d) == daemon[d] = "exiting" /\ End(d) /\ UNCHANGED <<file, killed>>

\* SessionDaemon's drop: set the flag, join the thread, remove the socket.
Drop(d) ==
    /\ scene.session /\ daemon[d] \in {"serving", "ended"}
    /\ flag' = [flag EXCEPT ![d] = TRUE]
    /\ daemon' = [daemon EXCEPT ![d] = IF @ = "ended" THEN "leaving" ELSE "closing"]
    /\ UNCHANGED <<commands, file, killed>>

\* Ctrl+C: the handler of the process, or without one, and when killed, none.
Interrupt(d) ==
    /\ ~ Off(d)
    /\ file' \in IF scene.cleanup /\ ~ scene.session THEN {NoDaemon, file} ELSE {file}
    /\ killed' = killed \cup {d}
    /\ End(d)
-----------------------------------------------------------------------------
(***************************************************************************)
(* pdr stop.                                                               *)
(***************************************************************************)
daemons == <<scene, daemon, killed>>

\* A daemon that a command, or pdr status, or a client of the session reaches.
Reached(d) == file = d /\ Serving(d)

Connect(c) ==
    /\ pc[c] = "idle" /\ MayStop
    /\ \/ \E d \in Daemons :
             /\ Reached(d)
             /\ pc' = [pc EXCEPT ![c] = "asked"]
             /\ target' = [target EXCEPT ![c] = d]
       \/ /\ \A d \in Daemons : ~ Reached(d)
          /\ pc' = [pc EXCEPT ![c] = "refused"]
          /\ UNCHANGED target
    /\ UNCHANGED <<daemons, file, flag, told>>

\* "Nothing is listening; at most a stale socket file is left behind."
RemoveStale(c) ==
    /\ pc[c] = "refused"
    /\ file' = NoDaemon
    /\ pc' = [pc EXCEPT ![c] = "idle"]
    /\ UNCHANGED <<daemons, flag, target, told>>

\* The daemon accepts the connection, and its handler sets the flag and then
\* answers.
Accept(c) ==
    /\ pc[c] = "asked" /\ Serving(target[c])
    /\ pc' = [pc EXCEPT ![c] = "accepted"]
    /\ UNCHANGED <<daemons, file, flag, target, told>>

Shutdown(c) ==
    /\ pc[c] = "accepted"
    /\ flag' = [flag EXCEPT ![target[c]] = TRUE]
    /\ pc' = [pc EXCEPT ![c] = "flagged"]
    /\ UNCHANGED <<daemons, file, target, told>>

\* "Daemon stopped"
Answer(c) ==
    /\ pc[c] = "flagged"
    /\ told' = told \cup {target[c]}
    /\ pc' = [pc EXCEPT ![c] = "idle"]
    /\ target' = [target EXCEPT ![c] = NoDaemon]
    /\ UNCHANGED <<daemons, file, flag>>

\* Faulty variant: the file is removed when the request fails, too.
Fails_Removes(c) ==
    /\ pc[c] = "failed"
    /\ file' = NoDaemon
    /\ pc' = [pc EXCEPT ![c] = "idle"]
    /\ UNCHANGED <<daemons, flag, target, told>>

\* "Failed to stop daemon"
Fails(c) ==
    /\ pc[c] = "failed"
    /\ pc' = [pc EXCEPT ![c] = "idle"]
    /\ UNCHANGED <<daemons, file, flag, target, told>>
-----------------------------------------------------------------------------
DaemonStep(d) ==
    RemoveOld(d) \/ Bind(d) \/ BindFails(d) \/ Listen(d) \/ LeaveLoop(d)
    \/ RemoveOwn(d) \/ Exit(d)

CommandStep(c) == RemoveStale(c) \/ Accept(c) \/ Shutdown(c) \/ Answer(c) \/ Fails(c)

Next ==
    \/ \E d \in Daemons :
          \/ DaemonStep(d) \/ Start(d) \/ ListenFails(d)
          \/ AcceptFails(d) \/ Drop(d) \/ Interrupt(d)
    \/ \E c \in Commands : CommandStep(c) \/ Connect(c)

Spec == Init /\ [][Next]_vars

FairSpec ==
    /\ Spec
    /\ \A d \in Daemons : WF_vars(DaemonStep(d))
    /\ \A c \in Commands : WF_vars(CommandStep(c))
-----------------------------------------------------------------------------
(***************************************************************************)
(* Properties.                                                             *)
(***************************************************************************)
\* A daemon that serves is the one a client of the session reaches, when daemons
\* follow each other and are stopped in between.
Reachable == scene.starts = "apart" => \A d \in Daemons : Serving(d) => file = d

\* "A graceful (message-triggered) shutdown always cleans up its own socket",
\* and no other, when the next daemon waits until pdr stop has reported it.
ItsOwnSocket ==
    scene.starts = "told" =>
       \A d \in Daemons : daemon[d] = "leaving" => file \in {d, NoDaemon}

\* "Nothing is listening; at most a stale socket file is left behind": pdr stop that
\* could not connect is not about to remove the file of a daemon that serves.
OnlyStale ==
    \A c \in Commands, d \in Daemons : pc[c] = "refused" /\ file = d => ~ Serving(d)

\* A daemon that ends because of its flag, or with --cleanup because accept failed,
\* leaves no file behind; all others are among those killed.
CleansUp == \A d \in Daemons : Off(d) /\ file = d => d \in killed

\* What a daemon that was killed has left does not keep the next from starting.
FreePath ==
    scene.starts = "apart" => \A d \in Daemons : daemon[d] = "binding" => file = NoDaemon

\* A daemon whose flag is set ends (the thread of a SessionDaemon, which waits
\* for its drop).
Ends == \A d \in Daemons : flag[d] ~> Off(d) \/ daemon[d] = "ended"

\* pdr stop returns.
StopReturns == \A c \in Commands : pc[c] # "idle" ~> pc[c] = "idle"
=============================================================================
