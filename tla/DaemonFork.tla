----------------------------- MODULE DaemonFork -----------------------------
(***************************************************************************)
(* DaemonRpc where parent and child call over one stream at the same time: *)
(* a part of a frame may come where the other one is expected.             *)
(*                                                                         *)
(* The first bytes of a body, the message type of an answer, taken for a   *)
(* length announce far more bytes than will ever come.  A body with the    *)
(* length of another frame in it does not decode.                          *)
(***************************************************************************)
EXTENDS DaemonRpc

\* The beginning of a body is taken for a length, and what comes after that for
\* part of a body that never ends.
RecvLost(p) ==
    /\ \/ Take(p, "body", "recv")
       \/ Take(p, "length", "lost")
       \/ Take(p, "body", "lost")
    /\ pc' = [pc EXCEPT ![p] = "lost"]
    /\ UNCHANGED <<scene, daemonVars, toDaemon, stream, locked, ids, question,
                   asked, served, result>>

\* ProtocolMessage::from_bytes fails.
RecvInvalid(p) ==
    /\ Take(p, "length", "reading")
    /\ result' = [result EXCEPT ![stream[p]] = NoAnswer]
    /\ UNCHANGED <<asked, served>>
    /\ Return(p)

\* It does in the daemon, which drops the stream.
ReadInvalid(s) ==
    /\ handler[s] = "body" /\ Ready(s, "length")
    /\ Close({s})
    /\ UNCHANGED <<daemonOnly, daemon, shutdown, inodes>>

NextFork ==
    \/ Next
    \/ \E p \in Procs : RecvLost(p) \/ RecvInvalid(p)
    \/ \E s \in Streams : ReadInvalid(s)

SpecFork == Init /\ [][NextFork]_vars

FairSpecFork ==
    /\ SpecFork
    /\ \A p \in Procs : WF_vars(ClientStep(p) \/ RecvLost(p) \/ RecvInvalid(p))
    /\ \A s \in Streams : WF_vars(HandlerStep(s) \/ ReadInvalid(s))
    /\ WF_vars(LeaveLoop)
=============================================================================
