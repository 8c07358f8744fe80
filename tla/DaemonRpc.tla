----------------------------- MODULE DaemonRpc -----------------------------
(***************************************************************************)
(* Requests to the daemon and their answers (IpcChannel of protocol.rs,    *)
(* daemon_request of daemon_client.rs, handle_client and accept_loop of    *)
(* daemon_server.rs).                                                      *)
(*                                                                         *)
(* A process connects once, when the library starts.  A request takes the  *)
(* process's mutex, writes a frame in two writes (its length and then its  *)
(* body), and takes the next frame from the stream, in two reads, for its  *)
(* answer.  The daemon has a thread for each connection.                   *)
(*                                                                         *)
(* fork copies the stream, the mutex and the counter of request ids, so    *)
(* that parent and child write to and read from one stream; only exec,     *)
(* after which the library starts anew, gives a process its own.  A scene  *)
(* says how far that goes: "own", every process that calls has executed a  *)
(* program since it was forked; "turns", parent and child share a stream   *)
(* but do not call at the same time, as when the parent waits; "any",      *)
(* anything, also a fork by another thread in the middle of a call.        *)
(*                                                                         *)
(* What a process or the daemon does with a part of a frame where it       *)
(* expects the other one is in module DaemonFork; here it does not happen. *)
(***************************************************************************)
EXTENDS DaemonMessages, Sequences

CONSTANTS Procs,
          Streams,
          NoStream,
          MaxCalls,  \* calls of one process
          Scenes

Scene == [sharing : {"own", "turns", "any"},
          requests : SUBSET Requests,  \* what processes ask
          calls : 1..MaxCalls,         \* how often each does
          ends : BOOLEAN,    \* may the daemon end at any time?
          kills : BOOLEAN]   \* may a process end in the middle of a call?

ASSUME DaemonRpcAssumption ==
    /\ Scenes \subseteq Scene
    /\ NoStream \notin Streams
    /\ MaxCalls \in Nat

VARIABLES scene,
          daemon,    \* "serving", "leaving" (accept_loop has returned), "gone"
          shutdown,  \* its shutdown flag
          inodes,    \* its map
          handler,   \* the thread of each connection
          hand,      \* the message it has read, or the answer it is to write
          toDaemon,  \* the frames' parts under way on each connection
          toClient,
          pc,        \* where each process is in daemon_request
          stream,    \* its connection
          locked,    \* its channel's mutex
          ids,       \* its REQUEST_ID counter
          question,  \* the message of its call
          asked, served,  \* history: see DaemonCalls
          result     \* history: question and answer of the last call of a connection

daemonVars == <<daemon, shutdown, inodes, handler, hand>>
clientVars == <<pc, stream, locked, ids, question>>
vars == <<scene, daemonVars, toDaemon, toClient, clientVars, asked, served, result>>

\* A request or an answer: the sender and the number of the request it is about,
\* of which the code sends the number only, and the content.
Message(Content) == [by : Procs, id : 1..MaxCalls, content : Content]
Question == Message(Requests)

ASSUME NoAnswerAssumption ==
    NoAnswer \notin Reply \cup [question : Question, answer : Message(Reply)]

\* The two parts of a frame.
Length(message) == [part |-> "length", message |-> message]
Body(message) == [part |-> "body", message |-> message]
Part(Content) == [part : {"length", "body"}, message : Message(Content)]

HandlerStates == {"closed", "backlog", "length", "body", "dispatch", "answer", "answering"}
CallStates == {"off", "idle", "lock", "send", "sending", "recv", "reading", "lost"}

TypeOK ==
    /\ scene \in Scenes
    /\ daemon \in {"serving", "leaving", "gone"}
    /\ shutdown \in BOOLEAN
    /\ inodes \in Map
    /\ handler \in [Streams -> HandlerStates]
    /\ hand \in [Streams -> Question \cup Message(Reply) \cup {NoAnswer}]
    /\ toDaemon \in [Streams -> Seq(Part(Requests))]
    /\ toClient \in [Streams -> Seq(Part(Reply))]
    /\ pc \in [Procs -> CallStates]
    /\ stream \in [Procs -> Streams \cup {NoStream}]
    /\ locked \in [Procs -> BOOLEAN]
    /\ ids \in [Procs -> 0..MaxCalls]
    /\ question \in [Procs -> Question \cup {NoAnswer}]
    /\ asked \in [Streams -> SUBSET Requests]
    /\ served \in [Streams -> Reply \cup {NoAnswer}]
    /\ result \in [Streams -> [question : Question, answer : Message(Reply)] \cup {NoAnswer}]

Init ==
    /\ scene \in Scenes
    /\ daemon = "serving"
    /\ shutdown = FALSE
    /\ inodes = NoInodes
    /\ handler = [s \in Streams |-> "closed"]
    /\ hand = [s \in Streams |-> NoAnswer]
    /\ toDaemon = [s \in Streams |-> <<>>]
    /\ toClient = [s \in Streams |-> <<>>]
    /\ pc = [p \in Procs |-> "off"]
    /\ stream = [p \in Procs |-> NoStream]
    /\ locked = [p \in Procs |-> FALSE]
    /\ ids = [p \in Procs |-> 0]
    /\ question = [p \in Procs |-> NoAnswer]
    /\ asked = [s \in Streams |-> {}]
    /\ served = [s \in Streams |-> NoAnswer]
    /\ result = [s \in Streams |-> NoAnswer]

Holders(s) == {p \in Procs : stream[p] = s}
Calling(p) == pc[p] \notin {"off", "idle"}
Closed(s) == handler[s] = "closed"

(***************************************************************************)
(* The calling process (daemon_request, IpcChannel).                       *)
(***************************************************************************)
\* The library of a new program connects.  Without a daemon that accepts there
\* is no connection and the process makes no calls.
Connect(p, s) ==
    /\ pc[p] = "off" /\ daemon = "serving"
    /\ Closed(s) /\ Holders(s) = {}
    /\ pc' = [pc EXCEPT ![p] = "idle"]
    /\ stream' = [stream EXCEPT ![p] = s]
    /\ handler' = [handler EXCEPT ![s] = "backlog"]
    /\ UNCHANGED <<scene, daemon, shutdown, inodes, hand, toDaemon, toClient,
                   locked, ids, question, asked, served, result>>

\* The child shares the stream and has copies of the rest; if another thread of
\* the parent was in a call, its copy of the mutex is locked.
Fork(p, q) ==
    /\ pc[p] # "off" /\ pc[q] = "off"
    /\ scene.sharing \in IF pc[p] = "idle" THEN {"turns", "any"} ELSE {"any"}
    /\ pc' = [pc EXCEPT ![q] = "idle"]
    /\ stream' = [stream EXCEPT ![q] = stream[p]]
    /\ locked' = [locked EXCEPT ![q] = locked[p]]
    /\ ids' = [ids EXCEPT ![q] = ids[p]]
    /\ UNCHANGED <<scene, daemonVars, toDaemon, toClient, question, asked, served, result>>

\* What has been written to a stream is lost when it has no other holder.
Exit(p) ==
    /\ pc[p] = "idle" \/ (Calling(p) /\ scene.kills)
    /\ pc' = [pc EXCEPT ![p] = "off"]
    /\ stream' = [stream EXCEPT ![p] = NoStream]
    /\ locked' = [locked EXCEPT ![p] = FALSE]
    /\ ids' = [ids EXCEPT ![p] = 0]
    /\ question' = [question EXCEPT ![p] = NoAnswer]
    /\ LET gone == {s \in Streams : Holders(s) = {p}} IN
       /\ toClient' = [s \in Streams |-> IF s \in gone THEN <<>> ELSE toClient[s]]
       /\ result' = [s \in Streams |-> IF s \in gone THEN NoAnswer ELSE result[s]]
       /\ asked' = [s \in Streams |-> IF s \in gone /\ Closed(s) THEN {} ELSE asked[s]]
       /\ served' = [s \in Streams |-> IF s \in gone /\ Closed(s) THEN NoAnswer ELSE served[s]]
    /\ UNCHANGED <<scene, daemonVars, toDaemon>>

Call(p, request) ==
    /\ pc[p] = "idle" /\ ids[p] < scene.calls /\ request \in scene.requests
    /\ scene.sharing = "turns" => \A q \in Holders(stream[p]) : ~ Calling(q)
    /\ pc' = [pc EXCEPT ![p] = "lock"]
    /\ ids' = [ids EXCEPT ![p] = @ + 1]
    /\ question' = [question EXCEPT ![p] =
                       [by |-> p, id |-> ids[p] + 1, content |-> request]]
    /\ asked' = [asked EXCEPT ![stream[p]] =
                    IF Closed(stream[p]) THEN {} ELSE {request}]
    /\ UNCHANGED <<scene, daemonVars, toDaemon, toClient, stream, locked, served, result>>

Lock(p) ==
    /\ pc[p] = "lock" /\ ~ locked[p]
    /\ pc' = [pc EXCEPT ![p] = "send"]
    /\ locked' = [locked EXCEPT ![p] = TRUE]
    /\ UNCHANGED <<scene, daemonVars, toDaemon, toClient, stream, ids, question,
                   asked, served, result>>

\* One of the two writes of write_framed.
Write(p, from, part, to) ==
    /\ pc[p] = from /\ ~ Closed(stream[p])
    /\ pc' = [pc EXCEPT ![p] = to]
    /\ toDaemon' = [toDaemon EXCEPT ![stream[p]] = Append(@, part)]
    /\ UNCHANGED <<scene, daemonVars, toClient, stream, locked, ids, question,
                   asked, served, result>>

\* Faulty variant: the answer to a chown is not waited for.
Send_NoWait(p) ==
    \/ Write(p, "send", Length(question[p]), "sending")
    \/ /\ pc[p] = "sending" /\ ~ Closed(stream[p])
       /\ LET wait == question[p].content.type # "UpsertChown" IN
          /\ pc' = [pc EXCEPT ![p] = IF wait THEN "recv" ELSE "idle"]
          /\ locked' = [locked EXCEPT ![p] = wait]
       /\ toDaemon' = [toDaemon EXCEPT ![stream[p]] = Append(@, Body(question[p]))]
       /\ UNCHANGED <<scene, daemonVars, toClient, stream, ids, question, asked,
                      served, result>>

Send(p) ==
    \/ Write(p, "send", Length(question[p]), "sending")
    \/ Write(p, "sending", Body(question[p]), "recv")

\* The two reads of read_framed; each takes what comes next on the stream.
Take(p, part, from) ==
    /\ pc[p] = from
    /\ toClient[stream[p]] # <<>> /\ Head(toClient[stream[p]]).part = part
    /\ toClient' = [toClient EXCEPT ![stream[p]] = Tail(@)]

RecvLength(p) ==
    /\ Take(p, "length", "recv")
    /\ pc' = [pc EXCEPT ![p] = "reading"]
    /\ UNCHANGED <<scene, daemonVars, toDaemon, stream, locked, ids, question,
                   asked, served, result>>

\* request returns; MutexGuard is dropped.
Return(p) ==
    /\ pc' = [pc EXCEPT ![p] = "idle"]
    /\ locked' = [locked EXCEPT ![p] = FALSE]
    /\ UNCHANGED <<scene, daemonVars, toDaemon, stream, ids, question>>

\* The body of a frame is the answer, whatever request it answers.
RecvBody(p) ==
    /\ Take(p, "body", "reading")
    /\ result' = [result EXCEPT ![stream[p]] =
          [question |-> question[p], answer |-> Head(toClient[stream[p]]).message]]
    /\ asked' = [asked EXCEPT ![stream[p]] = {}]
    /\ served' = [served EXCEPT ![stream[p]] = NoAnswer]
    /\ Return(p)

\* A write to a closed stream, or a read at its end.
Fail(p) ==
    /\ \/ pc[p] \in {"send", "sending"}
       \/ pc[p] \in {"recv", "reading", "lost"} /\ toClient[stream[p]] = <<>>
    /\ Closed(stream[p])
    /\ result' = [result EXCEPT ![stream[p]] = NoAnswer]
    /\ UNCHANGED <<toClient, asked, served>>
    /\ Return(p)

ClientStep(p) == Lock(p) \/ Send(p) \/ RecvLength(p) \/ RecvBody(p) \/ Fail(p)
-----------------------------------------------------------------------------
(***************************************************************************)
(* The daemon (accept_loop, handle_client).                                *)
(***************************************************************************)
daemonOnly == <<scene, toClient, clientVars, result>>

Accept(s) ==
    /\ daemon = "serving" /\ handler[s] = "backlog"
    /\ handler' = [handler EXCEPT ![s] = "length"]
    /\ UNCHANGED <<daemonOnly, daemon, shutdown, inodes, hand, toDaemon, asked, served>>

\* Streams are closed; a call whose answer has not been written is lost.
Close(S) ==
    LET out == {s \in Streams : handler[s] \in {"length", "closed"}
                                /\ served[s] # NoAnswer /\ Holders(s) # {}}
        lost == S \ out
    IN
    /\ handler' = [s \in Streams |-> IF s \in S THEN "closed" ELSE handler[s]]
    /\ hand' = [s \in Streams |-> IF s \in S THEN NoAnswer ELSE hand[s]]
    /\ toDaemon' = [s \in Streams |-> IF s \in S THEN <<>> ELSE toDaemon[s]]
    /\ asked' = [s \in Streams |-> IF s \in lost THEN {} ELSE asked[s]]
    /\ served' = [s \in Streams |-> IF s \in lost THEN NoAnswer ELSE served[s]]

Ready(s, part) == toDaemon[s] # <<>> /\ Head(toDaemon[s]).part = part
TakeNext(s) == toDaemon' = [toDaemon EXCEPT ![s] = Tail(@)]

ReadLength(s) ==
    /\ handler[s] = "length" /\ Ready(s, "length") /\ TakeNext(s)
    /\ handler' = [handler EXCEPT ![s] = "body"]
    /\ UNCHANGED <<daemonOnly, daemon, shutdown, inodes, hand, asked, served>>

\* Faulty variant: a chown is merged with what the map says when it is read.
ReadBody_Merged(s) ==
    LET message == Head(toDaemon[s]).message
        request == message.content
    IN
    /\ handler[s] = "body" /\ Ready(s, "body") /\ TakeNext(s)
    /\ handler' = [handler EXCEPT ![s] = "dispatch"]
    /\ hand' = [hand EXCEPT ![s] =
          IF request.type # "UpsertChown" THEN message
          ELSE [message EXCEPT !.content =
                  [type |-> "RegisterOwnership", key |-> request.key,
                   inode |-> Effect(request, inodes)[request.key]]]]
    /\ UNCHANGED <<daemonOnly, daemon, shutdown, inodes, asked, served>>

\* Faulty variant: a message of a type nobody should send is passed over.
ReadBody_Silent(s) ==
    LET message == Head(toDaemon[s]).message
        known == message.content.type \notin {"Response", "Error"}
    IN
    /\ handler[s] = "body" /\ Ready(s, "body") /\ TakeNext(s)
    /\ handler' = [handler EXCEPT ![s] = IF known THEN "dispatch" ELSE "length"]
    /\ hand' = [hand EXCEPT ![s] = IF known THEN message ELSE @]
    /\ UNCHANGED <<daemonOnly, daemon, shutdown, inodes, asked, served>>

ReadBody(s) ==
    /\ handler[s] = "body" /\ Ready(s, "body") /\ TakeNext(s)
    /\ handler' = [handler EXCEPT ![s] = "dispatch"]
    /\ hand' = [hand EXCEPT ![s] = Head(toDaemon[s]).message]
    /\ UNCHANGED <<daemonOnly, daemon, shutdown, inodes, asked, served>>

\* read_exact: the other end is closed.
ReadEnd(s) ==
    /\ handler[s] \in {"length", "body"} /\ toDaemon[s] = <<>> /\ Holders(s) = {}
    /\ Close({s})
    /\ UNCHANGED <<daemonOnly, daemon, shutdown, inodes>>

Dispatch(s) ==
    LET request == hand[s].content IN
    /\ handler[s] = "dispatch"
    /\ inodes' = Effect(request, inodes)
    /\ shutdown' = (shutdown \/ request.type = "Shutdown")
    /\ hand' = [hand EXCEPT ![s].content = Answer(request, inodes)]
    /\ handler' = [handler EXCEPT ![s] = "answer"]
    /\ served' = [served EXCEPT ![s] = Answer(request, inodes)]
    /\ UNCHANGED <<daemonOnly, daemon, toDaemon, asked>>

\* One of the two writes of an answer; it fails if the other end is closed.
WriteAnswer(s, from, part, to) ==
    /\ handler[s] = from /\ Holders(s) # {}
    /\ handler' = [handler EXCEPT ![s] = to]
    /\ toClient' = [toClient EXCEPT ![s] = Append(@, part)]
    /\ UNCHANGED <<scene, daemon, shutdown, inodes, toDaemon, clientVars, result,
                   asked, served>>

SendAnswer(s) ==
    \/ WriteAnswer(s, "answer", Length(hand[s]), "answering") /\ UNCHANGED hand
    \/ WriteAnswer(s, "answering", Body(hand[s]), "length") /\ hand' = [hand EXCEPT ![s] = NoAnswer]
    \/ /\ handler[s] \in {"answer", "answering"} /\ Holders(s) = {}
       /\ Close({s})
       /\ UNCHANGED <<daemonOnly, daemon, shutdown, inodes>>

HandlerStep(s) ==
    Accept(s) \/ ReadLength(s) \/ ReadBody(s) \/ ReadEnd(s)
    \/ Dispatch(s) \/ SendAnswer(s)

\* accept_loop sees the flag and returns; the listener is closed, and with it the
\* connections nobody has accepted.
LeaveLoop ==
    /\ daemon = "serving" /\ shutdown
    /\ daemon' = "leaving"
    /\ Close({s \in Streams : handler[s] = "backlog"})
    /\ UNCHANGED <<daemonOnly, shutdown, inodes>>

\* The process exits: after run_blocking has returned, at Ctrl+C, or killed.
\* What it knew is lost.
Gone ==
    /\ daemon = "leaving" \/ (daemon = "serving" /\ scene.ends)
    /\ daemon' = "gone"
    /\ shutdown' = FALSE
    /\ inodes' = NoInodes
    /\ Close(Streams)
    /\ UNCHANGED daemonOnly

\* The owner of a session daemon drops it.
OwnerDrops ==
    /\ scene.ends /\ daemon = "serving"
    /\ shutdown' = TRUE
    /\ UNCHANGED <<daemonOnly, daemon, inodes, handler, hand, toDaemon, asked, served>>

\* A daemon is started where there was one.
Restart ==
    /\ daemon = "gone"
    /\ daemon' = "serving"
    /\ UNCHANGED <<daemonOnly, shutdown, inodes, handler, hand, toDaemon, asked, served>>

Next ==
    \/ \E p \in Procs :
          \/ \E s \in Streams : Connect(p, s)
          \/ \E q \in Procs : Fork(p, q)
          \/ Exit(p)
          \/ \E request \in Requests : Call(p, request)
          \/ ClientStep(p)
    \/ \E s \in Streams : HandlerStep(s)
    \/ LeaveLoop \/ Gone \/ OwnerDrops \/ Restart

Spec == Init /\ [][Next]_vars

FairSpec ==
    /\ Spec
    /\ \A p \in Procs : WF_vars(ClientStep(p))
    /\ \A s \in Streams : WF_vars(HandlerStep(s))
    /\ WF_vars(LeaveLoop)
-----------------------------------------------------------------------------
(***************************************************************************)
(* Properties.                                                             *)
(***************************************************************************)
\* A process takes the answer to its own request for its answer.
OwnAnswer ==
    \A s \in Streams : result[s] # NoAnswer =>
        /\ result[s].answer.by = result[s].question.by
        /\ result[s].answer.id = result[s].question.id

\* Calls through the streams are what DaemonCalls promises.
DC == INSTANCE DaemonCalls WITH
         left <- [s \in Streams |-> Holders(s) = {}],
         result <- [s \in Streams |-> IF result[s] = NoAnswer THEN NoAnswer
                                      ELSE result[s].answer.content]
ImplementsCalls == DC!Spec

\* Every call of a process returns, with an answer or without.
Returns == \A p \in Procs : Calling(p) ~> ~ Calling(p)
=============================================================================
