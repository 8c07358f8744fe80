--------------------------- MODULE DaemonRpc_proofs ---------------------------
(***************************************************************************)
(* Proofs about DaemonRpc for every number of processes, streams and calls *)
(* and every set of requests: messages keep their types, and a process     *)
(* takes the answer to its own request for its answer wherever no two      *)
(* calls can be under way on one stream (Unshared).  The second half shows *)
(* that DaemonRpc implements DaemonCalls there.                            *)
(***************************************************************************)
EXTENDS DaemonRpc, SequenceTheorems, TLAPS

-----------------------------------------------------------------------------
(***************************************************************************)
(* What dispatch_message makes of a request.                               *)
(***************************************************************************)
\* Where an entry is, the request names its key and what it is about.
LEMMA RequestTyped ==
    ASSUME NEW r \in Requests
    PROVE  /\ r.type \in {"GetOwnership", "RemoveOwnership", "RegisterOwnership", "UpsertChown"}
                => r.key \in Keys
           /\ r.type = "RegisterOwnership" => r.inode \in FakeInode
           /\ r.type = "UpsertChown" => r.ids \in ChownIds /\ r.owners \in Owners
  BY DaemonMessagesAssumption DEF Request

\* A chown keeps an entry an entry, and makes one where there is none.
LEMMA MergeTyped ==
    ASSUME NEW inode \in FakeInode, NEW c \in ChownIds
    PROVE  MergeChown(inode, c[1], c[2]) \in FakeInode
<1>1. c[1] \in Ids \cup {Unchanged} /\ c[2] \in Ids \cup {Unchanged}
  BY DEF ChownIds
<1>2. inode.uid \in Ids /\ inode.gid \in Ids
  BY DEF FakeInode
<1>3. IdOr(c[1], inode.uid) \in Ids /\ IdOr(c[2], inode.gid) \in Ids
  BY <1>1, <1>2 DEF IdOr
<1> QED BY <1>3 DEF MergeChown, FakeInode

LEMMA FreshTyped ==
    ASSUME NEW c \in ChownIds, NEW owners \in Owners
    PROVE  FreshChown(c[1], c[2], owners[1], owners[2]) \in FakeInode
<1>1. New(owners[1], owners[2]) \in FakeInode
  BY FakeInodesAssumption DEF New, FakeInode, Owners
<1> QED BY <1>1, MergeTyped DEF FreshChown

\* A request changes the map to a map.
LEMMA EffectTyped ==
    ASSUME NEW r \in Requests, NEW map \in Map
    PROVE  Effect(r, map) \in Map
<1>1. CASE r.type = "RegisterOwnership"
  BY <1>1, RequestTyped DEF Effect, Map
<1>2. CASE r.type = "UpsertChown"
  <2>1. r.key \in Keys /\ r.ids \in ChownIds /\ r.owners \in Owners
    BY <1>2, RequestTyped
  <2>2. map[r.key] \in FakeInode \cup {Absent}
    BY <2>1 DEF Map
  <2>3. (IF map[r.key] = Absent
         THEN FreshChown(r.ids[1], r.ids[2], r.owners[1], r.owners[2])
         ELSE MergeChown(map[r.key], r.ids[1], r.ids[2])) \in FakeInode
    BY <2>1, <2>2, FreshTyped, MergeTyped
  <2>4. Effect(r, map) = [map EXCEPT ![r.key] =
           IF map[r.key] = Absent
           THEN FreshChown(r.ids[1], r.ids[2], r.owners[1], r.owners[2])
           ELSE MergeChown(map[r.key], r.ids[1], r.ids[2])]
    BY <1>2, <2>1 DEF Effect, Map
  <2> QED BY <2>1, <2>3, <2>4 DEF Map
<1>3. CASE r.type = "RemoveOwnership"
  BY <1>3, RequestTyped DEF Effect, Map
<1>4. CASE r.type \notin {"RegisterOwnership", "UpsertChown", "RemoveOwnership"}
  BY <1>4 DEF Effect
<1> QED BY <1>1, <1>2, <1>3, <1>4

\* And is answered.
LEMMA AnswerTyped ==
    ASSUME NEW r \in Requests, NEW map \in Map
    PROVE  Answer(r, map) \in Reply
<1>1. CASE r.type \in {"Response", "Error"}
  BY <1>1 DEF Answer, Reply
<1>2. CASE r.type = "GetOwnership"
  <2>1. map[r.key] \in FakeInode \cup {Absent, Done}
    BY <1>2, RequestTyped DEF Map
  <2> QED BY <1>2, <2>1 DEF Answer, Reply
<1>3. CASE r.type \notin {"Response", "Error", "GetOwnership"}
  BY <1>3 DEF Answer, Reply
<1> QED BY <1>1, <1>2, <1>3
-----------------------------------------------------------------------------
(***************************************************************************)
(* Type correctness.                                                       *)
(***************************************************************************)
\* What a process that calls asks, and what a handler holds.
Held ==
    /\ \A p \in Procs : Calling(p) => question[p] \in Question
    /\ \A p \in Procs : pc[p] = "off" <=> stream[p] = NoStream
    /\ \A p \in Procs : pc[p] # "lost"
    /\ \A s \in Streams : handler[s] = "dispatch" => hand[s] \in Question
    /\ \A s \in Streams : handler[s] \in {"answer", "answering"} => hand[s] \in Message(Reply)

TypeInv == TypeOK /\ Held

LEMMA TypeInit == Init => TypeInv
<1> SUFFICES ASSUME Init PROVE TypeInv
  OBVIOUS
<1>1. NoInodes \in Map
  BY DEF NoInodes, Map
<1>2. <<>> \in Seq(Part(Requests)) /\ <<>> \in Seq(Part(Reply))
  BY EmptySeq
<1>3. TypeOK
  <2>1. /\ toDaemon \in [Streams -> Seq(Part(Requests))]
        /\ toClient \in [Streams -> Seq(Part(Reply))]
    BY <1>2 DEF Init
  <2>2. ids \in [Procs -> 0..MaxCalls]
    BY DaemonRpcAssumption DEF Init
  <2>3. /\ hand \in [Streams -> Question \cup Message(Reply) \cup {NoAnswer}]
        /\ question \in [Procs -> Question \cup {NoAnswer}]
        /\ served \in [Streams -> Reply \cup {NoAnswer}]
        /\ result \in [Streams -> [question : Question, answer : Message(Reply)] \cup {NoAnswer}]
    BY DEF Init
  <2> QED BY <1>1, <2>1, <2>2, <2>3 DEF Init, TypeOK, HandlerStates, CallStates
<1>4. Held
  BY DEF Init, Held, Calling
<1> QED BY <1>3, <1>4 DEF TypeInv

\* Someone who calls has a stream.
LEMMA CallerTyped ==
    ASSUME TypeInv, NEW p \in Procs, pc[p] # "off"
    PROVE  stream[p] \in Streams
  BY DEF TypeInv, TypeOK, Held

\* The parts of a frame.
LEMMA PartTyped ==
    ASSUME NEW Content, NEW message \in Message(Content)
    PROVE  /\ Length(message) \in Part(Content) /\ Body(message) \in Part(Content)
           /\ Length(message).part = "length" /\ Body(message).part = "body"
           /\ Length(message).message = message /\ Body(message).message = message
  BY DEF Length, Body, Part

\* Closing streams.
LEMMA CloseTyped ==
    ASSUME TypeInv, NEW S \in SUBSET Streams, Close(S)
    PROVE  /\ handler' \in [Streams -> HandlerStates]
           /\ hand' \in [Streams -> Question \cup Message(Reply) \cup {NoAnswer}]
           /\ toDaemon' \in [Streams -> Seq(Part(Requests))]
           /\ asked' \in [Streams -> SUBSET Requests]
           /\ served' \in [Streams -> Reply \cup {NoAnswer}]
           /\ \A s \in Streams :
                 /\ handler'[s] # "closed" => handler'[s] = handler[s] /\ hand'[s] = hand[s]
                 /\ toDaemon'[s] = IF s \in S THEN <<>> ELSE toDaemon[s]
                 /\ handler'[s] = IF s \in S THEN "closed" ELSE handler[s]
                 /\ s \notin S => hand'[s] = hand[s]
<1>1. <<>> \in Seq(Part(Requests))
  BY EmptySeq
<1> QED BY <1>1 DEF Close, TypeInv, TypeOK, HandlerStates
-----------------------------------------------------------------------------
\* The steps of a process that calls.
LEMMA TypeClient ==
    ASSUME TypeInv, NEW p \in Procs, ClientStep(p)
    PROVE  TypeInv'
<1>0. pc[p] # "off" => stream[p] \in Streams /\ stream[p] # NoStream
  BY CallerTyped, DaemonRpcAssumption
<1>1. CASE Lock(p)
  BY <1>1 DEF Lock, TypeInv, TypeOK, Held, Calling, CallStates, daemonVars
<1>2. ASSUME NEW from \in {"send", "sending"}, NEW to \in {"sending", "recv"},
             NEW part \in {Length(question[p]), Body(question[p])}, Write(p, from, part, to)
      PROVE  TypeInv'
  <2>1. stream[p] \in Streams /\ question[p] \in Question
    BY <1>0, <1>2 DEF Write, TypeInv, Held, Calling
  <2>2. part \in Part(Requests)
    BY <2>1, PartTyped DEF Question
  <2>3. toDaemon[stream[p]] \in Seq(Part(Requests))
    BY <2>1 DEF TypeInv, TypeOK
  <2>4. Append(toDaemon[stream[p]], part) \in Seq(Part(Requests))
    BY <2>2, <2>3, AppendProperties
  <2>5. toDaemon' \in [Streams -> Seq(Part(Requests))]
    BY <1>2, <2>1, <2>4 DEF Write, TypeInv, TypeOK
  <2> QED BY <1>2, <2>5 DEF Write, TypeInv, TypeOK, Held, Calling, CallStates, daemonVars
<1>3. CASE Send(p)
  BY <1>2, <1>3 DEF Send
<1>4. ASSUME NEW part, NEW from, from # "off", Take(p, part, from)
      PROVE  /\ toClient' \in [Streams -> Seq(Part(Reply))]
             /\ Head(toClient[stream[p]]) \in Part(Reply)
             /\ stream[p] \in Streams
  <2>1. stream[p] \in Streams
    BY <1>0, <1>4 DEF Take
  <2>2. toClient[stream[p]] \in Seq(Part(Reply)) /\ toClient[stream[p]] # <<>>
    BY <1>4, <2>1 DEF Take, TypeInv, TypeOK
  <2>3. Tail(toClient[stream[p]]) \in Seq(Part(Reply)) /\ Head(toClient[stream[p]]) \in Part(Reply)
    BY <2>2, HeadTailProperties
  <2> QED BY <1>4, <2>1, <2>3 DEF Take, TypeInv, TypeOK
<1>5. CASE RecvLength(p)
  <2>1. toClient' \in [Streams -> Seq(Part(Reply))] /\ pc[p] = "recv"
    BY <1>4, <1>5 DEF RecvLength, Take
  <2> QED BY <1>5, <2>1 DEF RecvLength, TypeInv, TypeOK, Held, Calling, CallStates, daemonVars
<1>6. CASE RecvBody(p)
  <2>1. /\ toClient' \in [Streams -> Seq(Part(Reply))]
        /\ Head(toClient[stream[p]]) \in Part(Reply)
        /\ stream[p] \in Streams /\ pc[p] = "reading"
    BY <1>4, <1>6 DEF RecvBody, Take
  <2>2. Head(toClient[stream[p]]).message \in Message(Reply) /\ question[p] \in Question
    BY <2>1 DEF Part, TypeInv, Held, Calling
  <2>3. result' \in [Streams -> [question : Question, answer : Message(Reply)] \cup {NoAnswer}]
    BY <1>6, <2>1, <2>2 DEF RecvBody, TypeInv, TypeOK
  <2>4. asked' \in [Streams -> SUBSET Requests] /\ served' \in [Streams -> Reply \cup {NoAnswer}]
    BY <1>6 DEF RecvBody, TypeInv, TypeOK
  <2> QED BY <1>6, <2>1, <2>3, <2>4
          DEF RecvBody, Return, TypeInv, TypeOK, Held, Calling, CallStates, daemonVars
<1>7. CASE Fail(p)
  <2>1. result' \in [Streams -> [question : Question, answer : Message(Reply)] \cup {NoAnswer}]
    BY <1>7 DEF Fail, TypeInv, TypeOK
  <2>2. pc[p] # "off" /\ pc' = [pc EXCEPT ![p] = "idle"]
        /\ UNCHANGED <<scene, daemonVars, toDaemon, toClient, stream, ids, question, asked, served>>
        /\ locked' = [locked EXCEPT ![p] = FALSE]
    BY <1>7 DEF Fail, Return
  <2> QED BY <2>1, <2>2 DEF TypeInv, TypeOK, Held, Calling, CallStates, daemonVars
<1> QED BY <1>1, <1>3, <1>5, <1>6, <1>7 DEF ClientStep

\* The steps of a handler.
LEMMA TypeHandler ==
    ASSUME TypeInv, NEW s \in Streams, HandlerStep(s)
    PROVE  TypeInv'
<1>1. CASE Accept(s)
  BY <1>1 DEF Accept, TypeInv, TypeOK, Held, Calling, HandlerStates, daemonOnly, clientVars
<1>2. ASSUME NEW part, Ready(s, part)
      PROVE  /\ Tail(toDaemon[s]) \in Seq(Part(Requests))
             /\ Head(toDaemon[s]).message \in Question
  <2>1. toDaemon[s] \in Seq(Part(Requests)) /\ toDaemon[s] # <<>>
    BY <1>2 DEF Ready, TypeInv, TypeOK
  <2>2. Tail(toDaemon[s]) \in Seq(Part(Requests)) /\ Head(toDaemon[s]) \in Part(Requests)
    BY <2>1, HeadTailProperties
  <2> QED BY <2>2 DEF Part, Question
<1>3. CASE ReadLength(s)
  <2>1. Tail(toDaemon[s]) \in Seq(Part(Requests))
    BY <1>2, <1>3 DEF ReadLength
  <2> QED BY <1>3, <2>1 DEF ReadLength, TakeNext, TypeInv, TypeOK, Held, Calling, HandlerStates,
                             daemonOnly, clientVars
<1>4. CASE ReadBody(s)
  <2>1. Tail(toDaemon[s]) \in Seq(Part(Requests)) /\ Head(toDaemon[s]).message \in Question
    BY <1>2, <1>4 DEF ReadBody
  <2> QED BY <1>4, <2>1 DEF ReadBody, TakeNext, TypeInv, TypeOK, Held, Calling, HandlerStates,
                             daemonOnly, clientVars
<1>5. ASSUME Close({s}), UNCHANGED <<daemonOnly, daemon, shutdown, inodes>> PROVE TypeInv'
  <2>1. /\ handler' \in [Streams -> HandlerStates]
        /\ hand' \in [Streams -> Question \cup Message(Reply) \cup {NoAnswer}]
        /\ toDaemon' \in [Streams -> Seq(Part(Requests))]
        /\ asked' \in [Streams -> SUBSET Requests]
        /\ served' \in [Streams -> Reply \cup {NoAnswer}]
        /\ \A q \in Streams :
              handler'[q] # "closed" => handler'[q] = handler[q] /\ hand'[q] = hand[q]
    BY <1>5, CloseTyped
  <2> QED BY <1>5, <2>1 DEF TypeInv, TypeOK, Held, Calling, daemonOnly, clientVars
<1>6. CASE ReadEnd(s)
  BY <1>5, <1>6 DEF ReadEnd
<1>7. CASE Dispatch(s)
  <2>1. hand[s] \in Question /\ hand[s].content \in Requests
    BY <1>7 DEF Dispatch, TypeInv, Held, Question, Message
  <2>2. /\ Effect(hand[s].content, inodes) \in Map
        /\ Answer(hand[s].content, inodes) \in Reply
    BY <2>1, EffectTyped, AnswerTyped DEF TypeInv, TypeOK
  <2>3. [hand[s] EXCEPT !.content = Answer(hand[s].content, inodes)] \in Message(Reply)
    BY <2>1, <2>2 DEF Question, Message
  <2>4. hand' = [hand EXCEPT ![s] = [hand[s] EXCEPT !.content = Answer(hand[s].content, inodes)]]
    BY <1>7 DEF Dispatch, TypeInv, TypeOK
  <2>5. hand' \in [Streams -> Question \cup Message(Reply) \cup {NoAnswer}]
    BY <2>3, <2>4 DEF TypeInv, TypeOK
  <2>6. served' \in [Streams -> Reply \cup {NoAnswer}] /\ inodes' \in Map /\ shutdown' \in BOOLEAN
    BY <1>7, <2>2 DEF Dispatch, TypeInv, TypeOK
  <2>7. TypeOK'
    BY <1>7, <2>5, <2>6 DEF Dispatch, TypeInv, TypeOK, HandlerStates, daemonOnly, clientVars
  <2>8. Held'
    BY <1>7, <2>3, <2>4 DEF Dispatch, TypeInv, TypeOK, Held, Calling, daemonOnly, clientVars
  <2> QED BY <2>7, <2>8 DEF TypeInv
<1>8. CASE SendAnswer(s)
  <2>1. ASSUME NEW from \in {"answer", "answering"}, NEW to \in {"answering", "length"},
               NEW part \in {Length(hand[s]), Body(hand[s])}, WriteAnswer(s, from, part, to),
               \/ to = "answering" /\ hand' = hand
               \/ to = "length" /\ hand' = [hand EXCEPT ![s] = NoAnswer]
        PROVE  TypeInv'
    <3>1. hand[s] \in Message(Reply)
      BY <2>1 DEF WriteAnswer, TypeInv, Held
    <3>2. part \in Part(Reply)
      BY <3>1, PartTyped
    <3>3. toClient[s] \in Seq(Part(Reply))
      BY DEF TypeInv, TypeOK
    <3>4. Append(toClient[s], part) \in Seq(Part(Reply))
      BY <3>2, <3>3, AppendProperties
    <3>5. toClient' \in [Streams -> Seq(Part(Reply))]
      BY <2>1, <3>4 DEF WriteAnswer, TypeInv, TypeOK
    <3>6. /\ hand' \in [Streams -> Question \cup Message(Reply) \cup {NoAnswer}]
          /\ handler' \in [Streams -> HandlerStates]
      BY <2>1 DEF WriteAnswer, TypeInv, TypeOK, HandlerStates
    <3>7. TypeOK'
      BY <2>1, <3>5, <3>6 DEF WriteAnswer, TypeInv, TypeOK, clientVars
    <3>8. Held'
      BY <2>1, <3>1 DEF WriteAnswer, TypeInv, TypeOK, Held, Calling, clientVars
    <3> QED BY <3>7, <3>8 DEF TypeInv
  <2> QED BY <1>5, <1>8, <2>1 DEF SendAnswer
<1> QED BY <1>1, <1>3, <1>4, <1>6, <1>7, <1>8 DEF HandlerStep

LEMMA TypeStep == TypeInv /\ [Next]_vars => TypeInv'
<1> SUFFICES ASSUME TypeInv, [Next]_vars PROVE TypeInv'
  OBVIOUS
<1>1. ASSUME NEW p \in Procs, NEW s \in Streams, Connect(p, s) PROVE TypeInv'
  BY <1>1, DaemonRpcAssumption
     DEF Connect, TypeInv, TypeOK, Held, Calling, CallStates, HandlerStates
<1>2. ASSUME NEW p \in Procs, NEW q \in Procs, Fork(p, q) PROVE TypeInv'
  BY <1>2 DEF Fork, TypeInv, TypeOK, Held, Calling, CallStates, daemonVars
<1>3. ASSUME NEW p \in Procs, Exit(p) PROVE TypeInv'
  <2>1. <<>> \in Seq(Part(Reply))
    BY EmptySeq
  <2>2. toClient' \in [Streams -> Seq(Part(Reply))]
    BY <1>3, <2>1 DEF Exit, TypeInv, TypeOK
  <2>3. /\ result' \in [Streams -> [question : Question, answer : Message(Reply)] \cup {NoAnswer}]
        /\ asked' \in [Streams -> SUBSET Requests]
        /\ served' \in [Streams -> Reply \cup {NoAnswer}]
    BY <1>3 DEF Exit, TypeInv, TypeOK
  <2>4. /\ UNCHANGED <<scene, daemonVars, toDaemon>>
        /\ pc' = [pc EXCEPT ![p] = "off"] /\ stream' = [stream EXCEPT ![p] = NoStream]
        /\ locked' = [locked EXCEPT ![p] = FALSE] /\ ids' = [ids EXCEPT ![p] = 0]
        /\ question' = [question EXCEPT ![p] = NoAnswer]
    BY <1>3 DEF Exit
  <2> QED BY <2>2, <2>3, <2>4, DaemonRpcAssumption
          DEF TypeInv, TypeOK, Held, Calling, CallStates, daemonVars
<1>4. ASSUME NEW p \in Procs, NEW request \in Requests, Call(p, request) PROVE TypeInv'
  <2>1. ids[p] + 1 \in 1..MaxCalls /\ ids[p] + 1 \in 0..MaxCalls
    <3>1. scene.calls \in 1..MaxCalls /\ ids[p] \in 0..MaxCalls
      BY DaemonRpcAssumption DEF Scene, TypeInv, TypeOK
    <3> QED BY <1>4, <3>1, DaemonRpcAssumption DEF Call
  <2>2. [by |-> p, id |-> ids[p] + 1, content |-> request] \in Question
    BY <2>1 DEF Question, Message
  <2>3. asked' \in [Streams -> SUBSET Requests]
    BY <1>4 DEF Call, TypeInv, TypeOK
  <2>4. /\ UNCHANGED <<scene, daemonVars, toDaemon, toClient, stream, locked, served, result>>
        /\ pc[p] = "idle" /\ pc' = [pc EXCEPT ![p] = "lock"]
        /\ ids' = [ids EXCEPT ![p] = ids[p] + 1]
        /\ question' = [question EXCEPT ![p] =
                           [by |-> p, id |-> ids[p] + 1, content |-> request]]
    BY <1>4 DEF Call, TypeInv, TypeOK
  <2> QED BY <2>1, <2>2, <2>3, <2>4 DEF TypeInv, TypeOK, Held, Calling, CallStates, daemonVars
<1>5. ASSUME NEW S \in SUBSET Streams, Close(S), UNCHANGED daemonOnly,
             daemon' \in {"serving", "leaving", "gone"}, shutdown' \in BOOLEAN, inodes' \in Map
      PROVE  TypeInv'
  <2>1. /\ handler' \in [Streams -> HandlerStates]
        /\ hand' \in [Streams -> Question \cup Message(Reply) \cup {NoAnswer}]
        /\ toDaemon' \in [Streams -> Seq(Part(Requests))]
        /\ asked' \in [Streams -> SUBSET Requests]
        /\ served' \in [Streams -> Reply \cup {NoAnswer}]
        /\ \A q \in Streams :
              handler'[q] # "closed" => handler'[q] = handler[q] /\ hand'[q] = hand[q]
    BY <1>5, CloseTyped
  <2> QED BY <1>5, <2>1 DEF TypeInv, TypeOK, Held, Calling, daemonOnly, clientVars
<1>6. CASE LeaveLoop
  BY <1>5, <1>6 DEF LeaveLoop, TypeInv, TypeOK
<1>7. CASE Gone
  <2>1. NoInodes \in Map
    BY DEF NoInodes, Map
  <2> QED BY <1>5, <1>7, <2>1 DEF Gone
<1>8. CASE OwnerDrops
  BY <1>8 DEF OwnerDrops, TypeInv, TypeOK, Held, Calling, daemonOnly, clientVars
<1>9. CASE Restart
  BY <1>9 DEF Restart, TypeInv, TypeOK, Held, Calling, daemonOnly, clientVars
<1>10. CASE UNCHANGED vars
  BY <1>10 DEF vars, daemonVars, clientVars, TypeInv, TypeOK, Held, Calling
<1> QED BY <1>1, <1>2, <1>3, <1>4, <1>6, <1>7, <1>8, <1>9, <1>10, TypeClient, TypeHandler DEF Next

\* Every frame on a stream is a request or an answer, as its direction says, however
\* processes fork, share streams and are killed.
THEOREM TypeCorrect == Spec => []TypeOK
<1>1. TypeInv => TypeOK
  BY DEF TypeInv
<1> QED BY TypeInit, TypeStep, <1>1, PTL DEF Spec
-----------------------------------------------------------------------------
(***************************************************************************)
(* A call and its stream.  While a call is under way its frames are all    *)
(* there is on the stream, and its stages follow each other; when nobody   *)
(* calls, the stream is empty.                                             *)
(***************************************************************************)
\* No two calls are under way on one stream: every process that calls has its own, or
\* parent and child call in turns and neither is killed in a call.
Unshared(s) == s.sharing = "own" \/ (s.sharing = "turns" /\ ~ s.kills)

\* Whose call a message is about.
Same(message, asking) == message.by = asking.by /\ message.id = asking.id

\* One part is under way, or the two of a frame.
Only(seq, part, asking) ==
    seq # <<>> /\ Tail(seq) = <<>> /\ Head(seq).part = part /\ Same(Head(seq).message, asking)
Both(seq, asking) ==
    /\ seq # <<>> /\ Head(seq).part = "length" /\ Same(Head(seq).message, asking)
    /\ Only(Tail(seq), "body", asking)

Quiet(s) == toDaemon[s] = <<>> /\ toClient[s] = <<>>

\* The stages of a call of p on stream s.
Unsent(p, s) ==
    pc[p] \in {"lock", "send"} /\ handler[s] \in {"closed", "backlog", "length"} /\ Quiet(s)

HalfSent(p, s) ==
    /\ pc[p] = "sending" /\ toClient[s] = <<>>
    /\ \/ handler[s] \in {"backlog", "length"} /\ Only(toDaemon[s], "length", question[p])
       \/ handler[s] = "body" /\ toDaemon[s] = <<>>

Sent(p, s) ==
    /\ pc[p] = "recv" /\ toClient[s] = <<>>
    /\ \/ handler[s] \in {"backlog", "length"} /\ Both(toDaemon[s], question[p])
       \/ handler[s] = "body" /\ Only(toDaemon[s], "body", question[p])

InHand(p, s) ==
    /\ pc[p] = "recv" /\ Quiet(s)
    /\ handler[s] \in {"dispatch", "answer"} /\ Same(hand[s], question[p])

HalfAnswered(p, s) ==
    /\ handler[s] = "answering" /\ toDaemon[s] = <<>> /\ Same(hand[s], question[p])
    /\ \/ pc[p] = "recv" /\ Only(toClient[s], "length", question[p])
       \/ pc[p] = "reading" /\ toClient[s] = <<>>

Answered(p, s) ==
    /\ handler[s] \in {"length", "closed"} /\ toDaemon[s] = <<>>
    /\ \/ pc[p] = "recv" /\ Both(toClient[s], question[p])
       \/ pc[p] = "reading" /\ Only(toClient[s], "body", question[p])

Lost(p, s) ==
    /\ handler[s] = "closed" /\ toDaemon[s] = <<>>
    /\ \/ pc[p] \in {"sending", "recv", "reading"} /\ toClient[s] = <<>>
       \/ pc[p] = "recv" /\ Only(toClient[s], "length", question[p])

Stage(p, s) ==
    \/ Unsent(p, s) \/ HalfSent(p, s) \/ Sent(p, s) \/ InHand(p, s)
    \/ HalfAnswered(p, s) \/ Answered(p, s) \/ Lost(p, s)

\* Nobody has another one's stream, or at most one of those who share it calls.
InTurns ==
    \A p, q \in Procs :
       stream[p] = stream[q] /\ p # q /\ pc[p] # "off" =>
          scene.sharing = "turns" /\ ~ (Calling(p) /\ Calling(q))

\* A closed stream takes no frames, and one that nobody holds brings none.
Ended ==
    \A s \in Streams :
       /\ Closed(s) => toDaemon[s] = <<>>
       /\ Holders(s) = {} => toClient[s] = <<>>

Resting ==
    \A s \in Streams :
       Holders(s) # {} /\ (\A p \in Holders(s) : ~ Calling(p)) =>
          handler[s] \in {"closed", "backlog", "length"} /\ Quiet(s)

UnderWay == \A p \in Procs : Calling(p) => Stage(p, stream[p])

CallInv == Unshared(scene) /\ InTurns /\ Ended /\ Resting /\ UnderWay /\ OwnAnswer

LEMMA CallInit ==
    ASSUME \A s \in Scenes : Unshared(s)
    PROVE  Init => CallInv
  BY DEF Init, CallInv, InTurns, Ended, Resting, UnderWay, OwnAnswer, Calling, Quiet, Holders
-----------------------------------------------------------------------------
(***************************************************************************)
(* Frames are written and read in two parts.                               *)
(***************************************************************************)
LEMMA WriteFirst ==
    ASSUME NEW Content, NEW part \in Part(Content), NEW asking, Same(part.message, asking)
    PROVE  Only(Append(<<>>, part), part.part, asking)
<1>1. <<>> \in Seq(Part(Content))
  BY EmptySeq
<1> QED BY <1>1, HeadTailAppend, AppendProperties DEF Only

LEMMA WriteSecond ==
    ASSUME NEW Content, NEW part \in Part(Content), NEW asking, Same(part.message, asking),
           part.part = "body", NEW seq \in Seq(Part(Content)), Only(seq, "length", asking)
    PROVE  Both(Append(seq, part), asking)
<1>0. seq # <<>> /\ Tail(seq) = <<>>
  BY DEF Only
<1>1. /\ Append(seq, part) # <<>>
      /\ Head(Append(seq, part)) = Head(seq)
      /\ Tail(Append(seq, part)) = Append(<<>>, part)
  <2>1. Append(seq, part) # <<>>
    BY AppendProperties
  <2>2. /\ Head(Append(seq, part)) = IF seq = <<>> THEN part ELSE Head(seq)
        /\ Tail(Append(seq, part)) = IF seq = <<>> THEN <<>> ELSE Append(Tail(seq), part)
    BY HeadTailAppend
  <2> QED BY <1>0, <2>1, <2>2
<1>2. Only(Append(<<>>, part), "body", asking)
  BY WriteFirst
<1>3. Head(seq).part = "length" /\ Same(Head(seq).message, asking)
  BY DEF Only
<1>4. Only(Tail(Append(seq, part)), "body", asking)
  BY <1>1, <1>2
<1>5. Head(Append(seq, part)).part = "length" /\ Same(Head(Append(seq, part)).message, asking)
  BY <1>1, <1>3
<1> QED BY <1>1, <1>4, <1>5 DEF Both
-----------------------------------------------------------------------------
(***************************************************************************)
(* A step of a call, or of the handler of its stream, concerns that stream *)
(* only.                                                                   *)
(***************************************************************************)
\* The stage of a call is a matter of its process and its stream.
LEMMA StageKept ==
    ASSUME NEW p \in Procs, NEW s \in Streams, Stage(p, s),
           pc'[p] = pc[p], question'[p] = question[p], handler'[s] = handler[s],
           hand'[s] = hand[s], toDaemon'[s] = toDaemon[s], toClient'[s] = toClient[s]
    PROVE  Stage(p, s)'
<1>1. CASE Unsent(p, s)
  BY <1>1 DEF Stage, Unsent, Quiet
<1>2. CASE HalfSent(p, s)
  BY <1>2 DEF Stage, HalfSent, Only, Same
<1>3. CASE Sent(p, s)
  BY <1>3 DEF Stage, Sent, Both, Only, Same
<1>4. CASE InHand(p, s)
  BY <1>4 DEF Stage, InHand, Same, Quiet
<1>5. CASE HalfAnswered(p, s)
  BY <1>5 DEF Stage, HalfAnswered, Only, Same
<1>6. CASE Answered(p, s)
  BY <1>6 DEF Stage, Answered, Both, Only, Same
<1>7. CASE Lost(p, s)
  BY <1>7 DEF Stage, Lost, Only, Same
<1> QED BY <1>1, <1>2, <1>3, <1>4, <1>5, <1>6, <1>7 DEF Stage

\* A process goes on with its call, or returns from it.
LEMMA CallGoesOn ==
    ASSUME TypeInv, CallInv, NEW p \in Procs, Calling(p), NEW to, to # "off",
           pc' = [pc EXCEPT ![p] = to], OwnAnswer',
           UNCHANGED <<scene, handler, hand, stream, question>>,
           \A s \in Streams \ {stream[p]} :
              toDaemon'[s] = toDaemon[s] /\ toClient'[s] = toClient[s],
           Closed(stream[p]) => toDaemon'[stream[p]] = <<>>,
           \/ Stage(p, stream[p])' /\ to # "idle"
           \/ /\ handler[stream[p]] \in {"closed", "backlog", "length"}
              /\ Quiet(stream[p])' /\ to = "idle"
    PROVE  CallInv'
<1>0. stream[p] \in Streams /\ pc[p] # "off"
  BY CallerTyped DEF Calling
<1>1. \A q \in Procs \ {p} : pc'[q] = pc[q] /\ (Calling(q)' <=> Calling(q))
  BY DEF TypeInv, TypeOK, Calling
<1>2. Unshared(scene)' /\ InTurns'
  <2>1. \A q \in Procs : pc[q] = "off" <=> pc'[q] = "off"
    BY <1>0, <1>1 DEF TypeInv, TypeOK
  <2>2. \A q \in Procs : Calling(q)' => Calling(q)
    BY <1>1
  <2> QED BY <2>1, <2>2 DEF CallInv, Unshared, InTurns
<1>3. Ended'
  BY <1>0 DEF CallInv, Ended, Closed, Holders
<1>4. Resting'
  <2> SUFFICES ASSUME NEW s \in Streams, Holders(s)' # {}, \A q \in Holders(s)' : ~ Calling(q)'
               PROVE  handler'[s] \in {"closed", "backlog", "length"} /\ Quiet(s)'
    BY DEF Resting
  <2>1. Holders(s)' = Holders(s)
    BY DEF Holders
  <2>2. CASE s = stream[p]
    <3>1. ~ Calling(p)'
      BY <2>1, <2>2 DEF Holders
    <3>2. to = "idle"
      BY <3>1 DEF Calling, TypeInv, TypeOK
    <3> QED BY <2>2, <3>2
  <2>3. CASE s # stream[p]
    <3>1. \A q \in Holders(s) : ~ Calling(q)
      BY <1>1, <2>1, <2>3 DEF Holders
    <3> QED BY <2>1, <2>3, <3>1 DEF CallInv, Resting, Quiet
  <2> QED BY <2>2, <2>3
<1>5. UnderWay'
  <2> SUFFICES ASSUME NEW q \in Procs, Calling(q)' PROVE Stage(q, stream[q])'
    BY DEF UnderWay
  <2>1. CASE q = p
    <3>1. to # "idle"
      BY <2>1 DEF Calling, TypeInv, TypeOK
    <3> QED BY <2>1, <3>1
  <2>2. CASE q # p
    <3>1. Calling(q) /\ pc'[q] = pc[q]
      BY <1>1, <2>2
    <3>2. stream[q] \in Streams /\ stream[q] # stream[p]
      BY <1>0, <2>2, <3>1, CallerTyped DEF CallInv, InTurns, Calling
    <3>3. Stage(q, stream[q])
      BY <3>1 DEF CallInv, UnderWay
    <3>4. \A s \in Streams : s = stream[q] => Stage(q, s)'
      BY <3>1, <3>2, <3>3, StageKept
    <3> QED BY <3>2, <3>4
  <2> QED BY <2>1, <2>2
<1> QED BY <1>2, <1>3, <1>4, <1>5 DEF CallInv

\* The daemon goes on with a call.
LEMMA HandlerGoesOn ==
    ASSUME TypeInv, CallInv, NEW s \in Streams,
           UNCHANGED <<scene, pc, stream, question, result>>,
           \A r \in Streams \ {s} :
              /\ handler'[r] = handler[r] /\ hand'[r] = hand[r]
              /\ toDaemon'[r] = toDaemon[r] /\ toClient'[r] = toClient[r],
           \A p \in Procs : Calling(p) /\ stream[p] = s => Stage(p, s)',
           handler'[s] = "closed" => toDaemon'[s] = <<>>,
           Holders(s) = {} => toClient'[s] = <<>>,
           Holders(s) # {} /\ (\A p \in Holders(s) : ~ Calling(p)) =>
              handler'[s] \in {"closed", "backlog", "length"} /\ Quiet(s)'
    PROVE  CallInv'
<1>0. \A p \in Procs : Calling(p)' <=> Calling(p)
  BY DEF Calling
<1>1. Unshared(scene)' /\ InTurns' /\ OwnAnswer'
  BY <1>0 DEF CallInv, Unshared, InTurns, OwnAnswer
<1>2. Ended'
  BY DEF CallInv, Ended, Closed, Holders
<1>3. Resting'
  <2> SUFFICES ASSUME NEW r \in Streams, Holders(r) # {}, \A q \in Holders(r) : ~ Calling(q)
               PROVE  handler'[r] \in {"closed", "backlog", "length"} /\ Quiet(r)'
    BY <1>0 DEF Resting, Holders
  <2>1. CASE r = s
    BY <2>1
  <2>2. CASE r # s
    BY <2>2 DEF CallInv, Resting, Quiet
  <2> QED BY <2>1, <2>2
<1>4. UnderWay'
  <2> SUFFICES ASSUME NEW q \in Procs, Calling(q) PROVE Stage(q, stream[q])'
    BY <1>0 DEF UnderWay
  <2>1. stream[q] \in Streams
    BY CallerTyped DEF Calling
  <2>2. CASE stream[q] # s
    <3>1. Stage(q, stream[q])
      BY DEF CallInv, UnderWay
    <3>2. \A r \in Streams : r = stream[q] => Stage(q, r)'
      BY <2>1, <2>2, <3>1, StageKept
    <3> QED BY <2>1, <3>2
  <2>3. CASE stream[q] = s
    BY <2>3
  <2> QED BY <2>2, <2>3
<1> QED BY <1>1, <1>2, <1>3, <1>4 DEF CallInv
-----------------------------------------------------------------------------
(***************************************************************************)
(* The steps of a call.                                                    *)
(***************************************************************************)
\* It takes the mutex.
LEMMA CallLock ==
    ASSUME TypeInv, CallInv, NEW p \in Procs, Lock(p)
    PROVE  CallInv'
<1>1. Calling(p) /\ pc' = [pc EXCEPT ![p] = "send"] /\ pc'[p] = "send"
  BY DEF Lock, Calling, TypeInv, TypeOK
<1>2. UNCHANGED <<scene, handler, hand, toDaemon, toClient, stream, question, result>>
  BY DEF Lock, daemonVars
<1>3. stream[p] \in Streams
  BY <1>1, CallerTyped DEF Calling
<1>4. Unsent(p, stream[p])
  BY <1>1 DEF CallInv, UnderWay, Stage, Unsent, HalfSent, Sent, InHand, HalfAnswered, Answered,
              Lost, Lock
<1>5. Stage(p, stream[p])'
  BY <1>1, <1>2, <1>4 DEF Unsent, Stage, Quiet
<1>6. OwnAnswer' /\ (Closed(stream[p]) => toDaemon'[stream[p]] = <<>>)
  BY <1>2, <1>3 DEF CallInv, OwnAnswer, Ended
<1> QED BY <1>1, <1>2, <1>5, <1>6, CallGoesOn

\* It writes the length of its frame, and then the body.
LEMMA CallSend ==
    ASSUME TypeInv, CallInv, NEW p \in Procs, Send(p)
    PROVE  CallInv'
<1> DEFINE s == stream[p]
<1>1. Calling(p) /\ ~ Closed(s)
  BY DEF Send, Write, Calling
<1>2. s \in Streams /\ question[p] \in Question /\ toDaemon[s] \in Seq(Part(Requests))
  BY <1>1, CallerTyped DEF Calling, TypeInv, TypeOK, Held
<1>3. UNCHANGED <<scene, handler, hand, toClient, stream, question, result>>
  BY DEF Send, Write, daemonVars
<1>4. Stage(p, s)
  BY <1>1 DEF CallInv, UnderWay
<1>5. /\ Length(question[p]) \in Part(Requests) /\ Body(question[p]) \in Part(Requests)
      /\ Length(question[p]).part = "length" /\ Body(question[p]).part = "body"
      /\ Same(Length(question[p]).message, question[p])
      /\ Same(Body(question[p]).message, question[p])
  BY <1>2, PartTyped DEF Question, Same
<1>6. OwnAnswer'
  BY <1>3 DEF CallInv, OwnAnswer
<1>7. CASE Write(p, "send", Length(question[p]), "sending")
  <2>1. /\ pc[p] = "send" /\ pc' = [pc EXCEPT ![p] = "sending"] /\ pc'[p] = "sending"
        /\ toDaemon' = [toDaemon EXCEPT ![s] = Append(toDaemon[s], Length(question[p]))]
    BY <1>7 DEF Write, TypeInv, TypeOK
  <2>2. Unsent(p, s)
    BY <1>4, <2>1 DEF Stage, Unsent, HalfSent, Sent, InHand, HalfAnswered, Answered, Lost
  <2>3. Only(Append(<<>>, Length(question[p])), "length", question[p])
    BY <1>5, WriteFirst
  <2>4. toDaemon'[s] = Append(<<>>, Length(question[p]))
    BY <1>2, <2>1, <2>2 DEF Unsent, Quiet, TypeInv, TypeOK
  <2>5. HalfSent(p, s)'
    BY <1>1, <1>3, <2>1, <2>2, <2>3, <2>4 DEF Unsent, HalfSent, Quiet, Closed, Only, Same
  <2>6. \A r \in Streams \ {s} : toDaemon'[r] = toDaemon[r]
    BY <2>1 DEF TypeInv, TypeOK
  <2> QED BY <1>1, <1>3, <1>6, <2>1, <2>5, <2>6, CallGoesOn DEF Stage
<1>8. CASE Write(p, "sending", Body(question[p]), "recv")
  <2>1. /\ pc[p] = "sending" /\ pc' = [pc EXCEPT ![p] = "recv"] /\ pc'[p] = "recv"
        /\ toDaemon' = [toDaemon EXCEPT ![s] = Append(toDaemon[s], Body(question[p]))]
        /\ toDaemon'[s] = Append(toDaemon[s], Body(question[p]))
    BY <1>2, <1>8 DEF Write, TypeInv, TypeOK
  <2>2. HalfSent(p, s)
    BY <1>1, <1>4, <2>1 DEF Stage, Unsent, HalfSent, Sent, InHand, HalfAnswered, Answered, Lost,
                            Closed
  <2>3. ASSUME Only(toDaemon[s], "length", question[p]), handler[s] \in {"backlog", "length"}
        PROVE  Sent(p, s)'
    <3>1. Both(toDaemon'[s], question[p])
      BY <1>2, <1>5, <2>1, <2>3, WriteSecond
    <3> QED BY <1>3, <2>1, <2>2, <2>3, <3>1 DEF HalfSent, Sent, Both, Only, Same
  <2>4. ASSUME toDaemon[s] = <<>>, handler[s] = "body"
        PROVE  Sent(p, s)'
    <3>1. Only(toDaemon'[s], "body", question[p])
      BY <1>5, <2>1, <2>4, WriteFirst
    <3> QED BY <1>3, <2>1, <2>2, <2>4, <3>1 DEF HalfSent, Sent, Only, Same
  <2>5. Sent(p, s)'
    BY <2>2, <2>3, <2>4 DEF HalfSent
  <2>6. \A r \in Streams \ {s} : toDaemon'[r] = toDaemon[r]
    BY <2>1 DEF TypeInv, TypeOK
  <2> QED BY <1>1, <1>3, <1>6, <2>1, <2>5, <2>6, CallGoesOn DEF Stage
<1> QED BY <1>7, <1>8 DEF Send

\* It reads the length of the next frame.
LEMMA CallLength ==
    ASSUME TypeInv, CallInv, NEW p \in Procs, RecvLength(p)
    PROVE  CallInv'
<1> DEFINE s == stream[p]
<1>1. /\ pc[p] = "recv" /\ pc' = [pc EXCEPT ![p] = "reading"] /\ pc'[p] = "reading"
      /\ toClient[s] # <<>> /\ Head(toClient[s]).part = "length"
      /\ toClient' = [toClient EXCEPT ![s] = Tail(toClient[s])]
      /\ UNCHANGED <<scene, handler, hand, toDaemon, stream, question, result>>
  BY DEF RecvLength, Take, daemonVars, TypeInv, TypeOK
<1>2. s \in Streams /\ Calling(p)
  BY <1>1, CallerTyped DEF Calling
<1>3. toClient'[s] = Tail(toClient[s]) /\ \A r \in Streams \ {s} : toClient'[r] = toClient[r]
  BY <1>1, <1>2 DEF TypeInv, TypeOK
<1>4. HalfAnswered(p, s) \/ Answered(p, s) \/ Lost(p, s)
  BY <1>1, <1>2 DEF CallInv, UnderWay, Stage, Unsent, HalfSent, Sent, InHand, Quiet
<1>5. Stage(p, s)'
  <2>1. CASE HalfAnswered(p, s)
    BY <1>1, <1>3, <2>1 DEF HalfAnswered, Stage, Only, Same
  <2>2. CASE Answered(p, s)
    BY <1>1, <1>3, <2>2 DEF Answered, Stage, Both, Only, Same
  <2>3. CASE Lost(p, s)
    BY <1>1, <1>3, <2>3 DEF Lost, Stage, Only
  <2> QED BY <1>4, <2>1, <2>2, <2>3
<1>6. OwnAnswer' /\ (Closed(s) => toDaemon'[s] = <<>>)
  BY <1>1, <1>2 DEF CallInv, OwnAnswer, Ended
<1> QED BY <1>1, <1>2, <1>3, <1>5, <1>6, CallGoesOn

\* It reads the body, which is that of the answer to its request, and returns.
LEMMA CallBody ==
    ASSUME TypeInv, CallInv, NEW p \in Procs, RecvBody(p)
    PROVE  CallInv'
<1> DEFINE s == stream[p]
<1>1. /\ pc[p] = "reading" /\ pc' = [pc EXCEPT ![p] = "idle"]
      /\ toClient[s] # <<>> /\ Head(toClient[s]).part = "body"
      /\ toClient' = [toClient EXCEPT ![s] = Tail(toClient[s])]
      /\ result' = [result EXCEPT ![s] =
            [question |-> question[p], answer |-> Head(toClient[s]).message]]
      /\ UNCHANGED <<scene, handler, hand, toDaemon, stream, question>>
  BY DEF RecvBody, Return, Take, daemonVars, TypeInv, TypeOK
<1>2. s \in Streams /\ Calling(p)
  BY <1>1, CallerTyped DEF Calling
<1>3. toClient'[s] = Tail(toClient[s]) /\ \A r \in Streams \ {s} : toClient'[r] = toClient[r]
  BY <1>1, <1>2 DEF TypeInv, TypeOK
<1>4. Answered(p, s) /\ Only(toClient[s], "body", question[p])
  BY <1>1, <1>2 DEF CallInv, UnderWay, Stage, Unsent, HalfSent, Sent, InHand, HalfAnswered,
                    Answered, Lost, Quiet
<1>5. handler[s] \in {"closed", "backlog", "length"} /\ Quiet(s)'
  BY <1>1, <1>3, <1>4 DEF Answered, Only, Quiet
<1>6. OwnAnswer'
  BY <1>1, <1>2, <1>4 DEF Only, Same, CallInv, OwnAnswer, TypeInv, TypeOK
<1>7. Closed(s) => toDaemon'[s] = <<>>
  BY <1>1, <1>2 DEF CallInv, Ended
<1> QED BY <1>1, <1>2, <1>3, <1>5, <1>6, <1>7, CallGoesOn

\* It returns without an answer from a stream that is closed.
LEMMA CallFails ==
    ASSUME TypeInv, CallInv, NEW p \in Procs, Fail(p)
    PROVE  CallInv'
<1> DEFINE s == stream[p]
<1>1. /\ pc[p] \in {"send", "sending"} \/ toClient[s] = <<>>
      /\ pc[p] \notin {"off", "idle"} /\ Closed(s) /\ pc' = [pc EXCEPT ![p] = "idle"]
      /\ result' = [result EXCEPT ![s] = NoAnswer]
      /\ UNCHANGED <<scene, handler, hand, toDaemon, toClient, stream, question>>
  BY DEF Fail, Return, daemonVars
<1>2. s \in Streams /\ Calling(p)
  BY <1>1, CallerTyped DEF Calling
<1>3. toDaemon[s] = <<>>
  BY <1>1, <1>2 DEF CallInv, Ended
<1>4. toClient[s] = <<>>
  BY <1>1, <1>2 DEF CallInv, UnderWay, Stage, Unsent, HalfSent, Sent, InHand, HalfAnswered,
                    Answered, Lost, Quiet
<1>5. OwnAnswer'
  BY <1>1, <1>2 DEF CallInv, OwnAnswer, TypeInv, TypeOK
<1> QED BY <1>1, <1>2, <1>3, <1>4, <1>5, CallGoesOn DEF Closed, Quiet
-----------------------------------------------------------------------------
(***************************************************************************)
(* The steps of a handler.                                                 *)
(***************************************************************************)
\* A stream whose holders do not call brings nothing to its handler.
LEMMA NobodyCalls ==
    ASSUME CallInv, NEW s \in Streams, Holders(s) # {}, \A p \in Holders(s) : ~ Calling(p)
    PROVE  handler[s] \in {"closed", "backlog", "length"} /\ Quiet(s)
  BY DEF CallInv, Resting

\* It accepts the connection.
LEMMA HandlerAccept ==
    ASSUME TypeInv, CallInv, NEW s \in Streams, Accept(s)
    PROVE  CallInv'
<1>1. /\ handler[s] = "backlog" /\ handler' = [handler EXCEPT ![s] = "length"]
      /\ handler'[s] = "length"
      /\ UNCHANGED <<scene, hand, toDaemon, toClient, pc, stream, question, result>>
  BY DEF Accept, daemonOnly, clientVars, TypeInv, TypeOK
<1>2. \A r \in Streams \ {s} : handler'[r] = handler[r]
  BY <1>1 DEF TypeInv, TypeOK
<1>3. ASSUME NEW p \in Procs, Calling(p), stream[p] = s PROVE Stage(p, s)'
  <2>1. Unsent(p, s) \/ HalfSent(p, s) \/ Sent(p, s)
    BY <1>1, <1>3 DEF CallInv, UnderWay, Stage, InHand, HalfAnswered, Answered, Lost
  <2> QED BY <1>1, <2>1 DEF Stage, Unsent, HalfSent, Sent, Quiet, Only, Both, Same
<1>4. Holders(s) = {} => toClient'[s] = <<>>
  BY <1>1 DEF CallInv, Ended
<1>5. Holders(s) # {} /\ (\A p \in Holders(s) : ~ Calling(p)) =>
         handler'[s] \in {"closed", "backlog", "length"} /\ Quiet(s)'
  BY <1>1, NobodyCalls DEF Quiet
<1> QED BY <1>1, <1>2, <1>3, <1>4, <1>5, HandlerGoesOn

\* It reads the length of a frame.
LEMMA HandlerLength ==
    ASSUME TypeInv, CallInv, NEW s \in Streams, ReadLength(s)
    PROVE  CallInv'
<1>1. /\ handler[s] = "length" /\ handler' = [handler EXCEPT ![s] = "body"]
      /\ handler'[s] = "body" /\ toDaemon[s] # <<>>
      /\ toDaemon' = [toDaemon EXCEPT ![s] = Tail(toDaemon[s])]
      /\ toDaemon'[s] = Tail(toDaemon[s])
      /\ UNCHANGED <<scene, hand, toClient, pc, stream, question, result>>
  BY DEF ReadLength, Ready, TakeNext, daemonOnly, clientVars, TypeInv, TypeOK
<1>2. \A r \in Streams \ {s} : handler'[r] = handler[r] /\ toDaemon'[r] = toDaemon[r]
  BY <1>1 DEF TypeInv, TypeOK
<1>3. ASSUME NEW p \in Procs, Calling(p), stream[p] = s PROVE Stage(p, s)'
  <2>1. HalfSent(p, s) \/ Sent(p, s)
    BY <1>1, <1>3 DEF CallInv, UnderWay, Stage, Unsent, InHand, HalfAnswered, Answered, Lost,
                      Quiet
  <2>2. CASE HalfSent(p, s)
    BY <1>1, <2>2 DEF Stage, HalfSent, Only
  <2>3. CASE Sent(p, s)
    BY <1>1, <2>3 DEF Stage, Sent, Only, Both, Same
  <2> QED BY <2>1, <2>2, <2>3
<1>4. Holders(s) = {} => toClient'[s] = <<>>
  BY <1>1 DEF CallInv, Ended
<1>5. ~ (Holders(s) # {} /\ \A p \in Holders(s) : ~ Calling(p))
  BY <1>1, NobodyCalls DEF Quiet
<1> QED BY <1>1, <1>2, <1>3, <1>4, <1>5, HandlerGoesOn

\* It reads the body.
LEMMA HandlerBody ==
    ASSUME TypeInv, CallInv, NEW s \in Streams, ReadBody(s)
    PROVE  CallInv'
<1>1. /\ handler[s] = "body" /\ handler' = [handler EXCEPT ![s] = "dispatch"]
      /\ handler'[s] = "dispatch" /\ toDaemon[s] # <<>>
      /\ toDaemon' = [toDaemon EXCEPT ![s] = Tail(toDaemon[s])]
      /\ toDaemon'[s] = Tail(toDaemon[s])
      /\ hand' = [hand EXCEPT ![s] = Head(toDaemon[s]).message]
      /\ hand'[s] = Head(toDaemon[s]).message
      /\ UNCHANGED <<scene, toClient, pc, stream, question, result>>
  BY DEF ReadBody, Ready, TakeNext, daemonOnly, clientVars, TypeInv, TypeOK
<1>2. \A r \in Streams \ {s} :
         handler'[r] = handler[r] /\ toDaemon'[r] = toDaemon[r] /\ hand'[r] = hand[r]
  BY <1>1 DEF TypeInv, TypeOK
<1>3. ASSUME NEW p \in Procs, Calling(p), stream[p] = s PROVE Stage(p, s)'
  <2>1. Sent(p, s)
    BY <1>1, <1>3 DEF CallInv, UnderWay, Stage, Unsent, HalfSent, InHand, HalfAnswered, Answered,
                      Lost, Quiet
  <2> QED BY <1>1, <2>1 DEF Stage, Sent, InHand, Only, Same, Quiet
<1>4. Holders(s) = {} => toClient'[s] = <<>>
  BY <1>1 DEF CallInv, Ended
<1>5. ~ (Holders(s) # {} /\ \A p \in Holders(s) : ~ Calling(p))
  BY <1>1, NobodyCalls DEF Quiet
<1> QED BY <1>1, <1>2, <1>3, <1>4, <1>5, HandlerGoesOn

\* It dispatches the request; the answer bears its number.
LEMMA HandlerDispatch ==
    ASSUME TypeInv, CallInv, NEW s \in Streams, Dispatch(s)
    PROVE  CallInv'
<1>1. /\ handler[s] = "dispatch" /\ handler' = [handler EXCEPT ![s] = "answer"]
      /\ handler'[s] = "answer"
      /\ hand' = [hand EXCEPT ![s].content = Answer(hand[s].content, inodes)]
      /\ UNCHANGED <<scene, toDaemon, toClient, pc, stream, question, result>>
  BY DEF Dispatch, daemonOnly, clientVars, TypeInv, TypeOK
<1>2. \A r \in Streams \ {s} : handler'[r] = handler[r] /\ hand'[r] = hand[r]
  BY <1>1 DEF TypeInv, TypeOK
<1>3. hand[s] \in Question
  BY <1>1 DEF TypeInv, Held
<1>4. hand'[s].by = hand[s].by /\ hand'[s].id = hand[s].id
  BY <1>1, <1>3 DEF TypeInv, TypeOK, Question, Message
<1>5. ASSUME NEW p \in Procs, Calling(p), stream[p] = s PROVE Stage(p, s)'
  <2>1. InHand(p, s)
    BY <1>1, <1>5 DEF CallInv, UnderWay, Stage, Unsent, HalfSent, Sent, HalfAnswered, Answered,
                      Lost
  <2> QED BY <1>1, <1>4, <2>1 DEF Stage, InHand, Same, Quiet
<1>6. Holders(s) = {} => toClient'[s] = <<>>
  BY <1>1 DEF CallInv, Ended
<1>7. ~ (Holders(s) # {} /\ \A p \in Holders(s) : ~ Calling(p))
  BY <1>1, NobodyCalls
<1> QED BY <1>1, <1>2, <1>5, <1>6, <1>7, HandlerGoesOn

\* It writes the answer, length and body.
LEMMA HandlerAnswers ==
    ASSUME TypeInv, CallInv, NEW s \in Streams, NEW from \in {"answer", "answering"},
           NEW to, NEW part, WriteAnswer(s, from, part, to),
           \/ from = "answer" /\ part = Length(hand[s]) /\ to = "answering" /\ hand' = hand
           \/ /\ from = "answering" /\ part = Body(hand[s]) /\ to = "length"
              /\ hand' = [hand EXCEPT ![s] = NoAnswer]
    PROVE  CallInv'
<1>1. /\ handler[s] = from /\ handler' = [handler EXCEPT ![s] = to] /\ handler'[s] = to
      /\ toClient' = [toClient EXCEPT ![s] = Append(toClient[s], part)]
      /\ toClient'[s] = Append(toClient[s], part)
      /\ Holders(s) # {}
      /\ UNCHANGED <<scene, toDaemon, pc, stream, question, result>>
  BY DEF WriteAnswer, clientVars, TypeInv, TypeOK
<1>2. \A r \in Streams \ {s} :
         handler'[r] = handler[r] /\ toClient'[r] = toClient[r] /\ hand'[r] = hand[r]
  BY <1>1 DEF TypeInv, TypeOK
<1>3. hand[s] \in Message(Reply) /\ toClient[s] \in Seq(Part(Reply))
  BY <1>1 DEF TypeInv, TypeOK, Held
<1>4. /\ Length(hand[s]) \in Part(Reply) /\ Length(hand[s]).part = "length"
      /\ Body(hand[s]) \in Part(Reply) /\ Body(hand[s]).part = "body"
      /\ Length(hand[s]).message = hand[s] /\ Body(hand[s]).message = hand[s]
  BY <1>3, PartTyped
<1>5. ASSUME NEW p \in Procs, Calling(p), stream[p] = s PROVE Stage(p, s)'
  <2>0. Stage(p, s)
    BY <1>5 DEF CallInv, UnderWay
  <2>1. CASE from = "answer"
    <3>1. InHand(p, s) /\ part = Length(hand[s]) /\ to = "answering" /\ hand' = hand
      BY <1>1, <2>0, <2>1 DEF Stage, Unsent, HalfSent, Sent, HalfAnswered, Answered, Lost
    <3>2. Only(Append(<<>>, part), "length", question[p])
      BY <1>4, <3>1, WriteFirst DEF InHand
    <3>3. HalfAnswered(p, s)'
      BY <1>1, <3>1, <3>2 DEF InHand, HalfAnswered, Quiet, Only, Same
    <3> QED BY <3>3 DEF Stage
  <2>2. CASE from = "answering"
    <3>1. HalfAnswered(p, s) /\ part = Body(hand[s]) /\ to = "length"
      BY <1>1, <2>0, <2>2 DEF Stage, Unsent, HalfSent, Sent, InHand, Answered, Lost
    <3>2. ASSUME pc[p] = "recv", Only(toClient[s], "length", question[p])
          PROVE  Answered(p, s)'
      <4>1. Both(Append(toClient[s], part), question[p])
        BY <1>3, <1>4, <3>1, <3>2, WriteSecond DEF HalfAnswered
      <4> QED BY <1>1, <3>1, <3>2, <4>1 DEF HalfAnswered, Answered, Both, Only, Same
    <3>3. ASSUME pc[p] = "reading", toClient[s] = <<>>
          PROVE  Answered(p, s)'
      <4>1. Only(Append(<<>>, part), "body", question[p])
        BY <1>4, <3>1, WriteFirst DEF HalfAnswered
      <4> QED BY <1>1, <3>1, <3>3, <4>1 DEF HalfAnswered, Answered, Only, Same
    <3> QED BY <3>1, <3>2, <3>3 DEF Stage, HalfAnswered
  <2> QED BY <2>1, <2>2
<1>6. toDaemon'[s] = <<>> \/ handler'[s] # "closed"
  BY <1>1
<1>7. ~ (Holders(s) # {} /\ \A p \in Holders(s) : ~ Calling(p))
  BY <1>1, NobodyCalls
<1> QED BY <1>1, <1>2, <1>5, <1>6, <1>7, HandlerGoesOn

\* Streams are closed: answers that have been written are still there to be read, and
\* the other calls are lost.
LEMMA ClosingKeeps ==
    ASSUME TypeInv, CallInv, NEW S \in SUBSET Streams, Close(S), UNCHANGED daemonOnly
    PROVE  CallInv'
<1>1. UNCHANGED <<scene, toClient, pc, stream, question, result>>
  BY DEF daemonOnly, clientVars
<1>2. \A s \in Streams :
         /\ toDaemon'[s] = IF s \in S THEN <<>> ELSE toDaemon[s]
         /\ handler'[s] = IF s \in S THEN "closed" ELSE handler[s]
         /\ s \notin S => hand'[s] = hand[s]
  BY CloseTyped
<1>3. \A p \in Procs : Calling(p)' <=> Calling(p)
  BY <1>1 DEF Calling
<1>4. Unshared(scene)' /\ InTurns' /\ OwnAnswer'
  BY <1>1, <1>3 DEF CallInv, Unshared, InTurns, OwnAnswer
<1>5. Ended'
  BY <1>1, <1>2 DEF CallInv, Ended, Closed, Holders
<1>6. Resting'
  <2> SUFFICES ASSUME NEW s \in Streams, Holders(s) # {}, \A q \in Holders(s) : ~ Calling(q)
               PROVE  handler'[s] \in {"closed", "backlog", "length"} /\ Quiet(s)'
    BY <1>1, <1>3 DEF Resting, Holders
  <2>1. handler[s] \in {"closed", "backlog", "length"} /\ Quiet(s)
    BY NobodyCalls
  <2> QED BY <1>1, <1>2, <2>1 DEF Quiet
<1>7. UnderWay'
  <2> SUFFICES ASSUME NEW q \in Procs, Calling(q) PROVE Stage(q, stream[q])'
    BY <1>3 DEF UnderWay
  <2>1. stream[q] \in Streams /\ Stage(q, stream[q])
    BY CallerTyped DEF Calling, CallInv, UnderWay
  <2>2. ASSUME NEW s \in Streams, s = stream[q] PROVE Stage(q, s)'
    <3>1. CASE s \notin S
      BY <1>1, <1>2, <2>1, <2>2, <3>1, StageKept
    <3>2. CASE s \in S
      <4>1. handler'[s] = "closed" /\ toDaemon'[s] = <<>> /\ toClient' = toClient
            /\ pc' = pc /\ question' = question
        BY <1>1, <1>2, <3>2
      <4>2. CASE Unsent(q, s)
        BY <4>1, <4>2 DEF Stage, Unsent, Quiet
      <4>3. CASE HalfSent(q, s) \/ Sent(q, s) \/ InHand(q, s)
        BY <4>1, <4>3 DEF Stage, HalfSent, Sent, InHand, Lost, Quiet
      <4>4. CASE HalfAnswered(q, s)
        BY <4>1, <4>4 DEF Stage, HalfAnswered, Lost, Only, Same
      <4>5. CASE Answered(q, s)
        BY <4>1, <4>5 DEF Stage, Answered, Both, Only, Same
      <4>6. CASE Lost(q, s)
        BY <4>1, <4>6 DEF Stage, Lost, Only, Same
      <4> QED BY <2>1, <2>2, <4>2, <4>3, <4>4, <4>5, <4>6 DEF Stage
    <3> QED BY <3>1, <3>2
  <2> QED BY <1>1, <2>1, <2>2
<1> QED BY <1>4, <1>5, <1>6, <1>7 DEF CallInv

LEMMA CallHandler ==
    ASSUME TypeInv, CallInv, NEW s \in Streams, HandlerStep(s)
    PROVE  CallInv'
<1>1. CASE ReadEnd(s)
  BY <1>1, ClosingKeeps DEF ReadEnd
<1>2. CASE SendAnswer(s)
  <2>1. CASE WriteAnswer(s, "answer", Length(hand[s]), "answering") /\ UNCHANGED hand
    BY <2>1, HandlerAnswers
  <2>2. CASE /\ WriteAnswer(s, "answering", Body(hand[s]), "length")
             /\ hand' = [hand EXCEPT ![s] = NoAnswer]
    BY <2>2, HandlerAnswers
  <2>3. CASE Close({s}) /\ UNCHANGED daemonOnly
    BY <2>3, ClosingKeeps
  <2> QED BY <1>2, <2>1, <2>2, <2>3 DEF SendAnswer
<1> QED BY <1>1, <1>2, HandlerAccept, HandlerLength, HandlerBody, HandlerDispatch
        DEF HandlerStep
-----------------------------------------------------------------------------
(***************************************************************************)
(* Processes that come and go.                                             *)
(***************************************************************************)
\* A program connects to a stream that nobody holds.
LEMMA CallConnect ==
    ASSUME TypeInv, CallInv, NEW p \in Procs, NEW s \in Streams, Connect(p, s)
    PROVE  CallInv'
<1>1. /\ pc[p] = "off" /\ pc' = [pc EXCEPT ![p] = "idle"]
      /\ stream' = [stream EXCEPT ![p] = s]
      /\ handler' = [handler EXCEPT ![s] = "backlog"]
      /\ Closed(s) /\ Holders(s) = {}
      /\ UNCHANGED <<scene, hand, toDaemon, toClient, question, result>>
  BY DEF Connect
<1>2. Quiet(s)
  BY <1>1 DEF CallInv, Ended, Quiet
<1>3. \A q \in Procs : stream[q] # s
  BY <1>1 DEF Holders
<1>4. \A q \in Procs \ {p} : pc'[q] = pc[q] /\ stream'[q] = stream[q]
  BY <1>1 DEF TypeInv, TypeOK
<1>5. pc'[p] = "idle" /\ stream'[p] = s /\ handler'[s] = "backlog"
      /\ \A r \in Streams \ {s} : handler'[r] = handler[r]
  BY <1>1 DEF TypeInv, TypeOK
<1>6. \A q \in Procs : Calling(q)' <=> Calling(q)
  BY <1>1, <1>4, <1>5 DEF Calling
<1>7. Unshared(scene)' /\ InTurns' /\ OwnAnswer'
  <2>1. InTurns'
    BY <1>1, <1>3, <1>4, <1>5, <1>6 DEF CallInv, InTurns
  <2> QED BY <1>1, <2>1 DEF CallInv, Unshared, OwnAnswer
<1>8. Ended'
  <2> SUFFICES ASSUME NEW r \in Streams
               PROVE  /\ Closed(r)' => toDaemon'[r] = <<>>
                      /\ Holders(r)' = {} => toClient'[r] = <<>>
    BY DEF Ended
  <2>1. CASE r = s
    BY <1>1, <1>2, <2>1 DEF Quiet
  <2>2. CASE r # s
    <3>1. Holders(r) \subseteq Holders(r)'
      BY <1>1, <1>4, DaemonRpcAssumption DEF Holders, TypeInv, Held
    <3>2. Holders(r)' = {} => Holders(r) = {}
      BY <3>1
    <3>3. Closed(r)' <=> Closed(r)
      BY <1>5, <2>2 DEF Closed
    <3> QED BY <1>1, <3>2, <3>3 DEF CallInv, Ended
  <2> QED BY <2>1, <2>2
<1>9. Resting'
  <2> SUFFICES ASSUME NEW r \in Streams, Holders(r)' # {}, \A q \in Holders(r)' : ~ Calling(q)'
               PROVE  handler'[r] \in {"closed", "backlog", "length"} /\ Quiet(r)'
    BY DEF Resting
  <2>1. CASE r = s
    BY <1>1, <1>2, <1>5, <2>1 DEF Quiet
  <2>2. CASE r # s
    <3>1. Holders(r)' = Holders(r)
      BY <1>1, <1>4, <1>5, <2>2, DaemonRpcAssumption DEF Holders, TypeInv, Held
    <3> QED BY <1>1, <1>5, <1>6, <2>2, <3>1 DEF CallInv, Resting, Quiet, Holders
  <2> QED BY <2>1, <2>2
<1>10. UnderWay'
  <2> SUFFICES ASSUME NEW q \in Procs, Calling(q)' PROVE Stage(q, stream[q])'
    BY DEF UnderWay
  <2>1. Calling(q) /\ q # p /\ pc'[q] = pc[q] /\ stream'[q] = stream[q]
    BY <1>1, <1>4, <1>6 DEF Calling
  <2>2. stream[q] \in Streams /\ stream[q] # s /\ Stage(q, stream[q])
    BY <1>3, <2>1, CallerTyped DEF Calling, CallInv, UnderWay
  <2>3. \A r \in Streams : r = stream[q] => Stage(q, r)'
    BY <1>1, <1>5, <2>1, <2>2, StageKept
  <2> QED BY <2>1, <2>2, <2>3
<1> QED BY <1>7, <1>8, <1>9, <1>10 DEF CallInv

\* A process forks a child, which has its stream, while neither calls.
LEMMA CallFork ==
    ASSUME TypeInv, CallInv, NEW p \in Procs, NEW q \in Procs, Fork(p, q)
    PROVE  CallInv'
<1>1. /\ pc[p] # "off" /\ pc[q] = "off"
      /\ pc' = [pc EXCEPT ![q] = "idle"] /\ stream' = [stream EXCEPT ![q] = stream[p]]
      /\ UNCHANGED <<scene, handler, hand, toDaemon, toClient, question, result>>
  BY DEF Fork, daemonVars
<1>2. scene.sharing = "turns" /\ pc[p] = "idle"
  BY DEF Fork, CallInv, Unshared
<1>3. pc'[q] = "idle" /\ stream'[q] = stream[p]
      /\ \A r \in Procs \ {q} : pc'[r] = pc[r] /\ stream'[r] = stream[r]
  BY <1>1 DEF TypeInv, TypeOK
<1>4. \A r \in Procs : Calling(r)' <=> Calling(r)
  BY <1>1, <1>3 DEF Calling
<1>5. Unshared(scene)' /\ OwnAnswer'
  BY <1>1 DEF CallInv, Unshared, OwnAnswer
<1>6. InTurns'
  <2> SUFFICES ASSUME NEW a \in Procs, NEW b \in Procs, stream'[a] = stream'[b], a # b,
                      pc'[a] # "off", Calling(a), Calling(b)
               PROVE  FALSE
    BY <1>1, <1>2, <1>4 DEF InTurns
  <2>1. a # q /\ b # q
    BY <1>1 DEF Calling
  <2> QED BY <1>3, <2>1 DEF CallInv, InTurns, Calling
<1>7. \A s \in Streams : Holders(s)' = Holders(s) \cup (IF s = stream[p] THEN {q} ELSE {})
  BY <1>1, <1>3, DaemonRpcAssumption DEF Holders, TypeInv, Held
<1>8. \A s \in Streams : Holders(s)' = {} => Holders(s) = {}
  BY <1>7
<1>9. Ended'
  BY <1>1, <1>8 DEF CallInv, Ended, Closed
<1>10. Resting'
  <2> SUFFICES ASSUME NEW s \in Streams, Holders(s)' # {}, \A r \in Holders(s)' : ~ Calling(r)'
               PROVE  handler'[s] \in {"closed", "backlog", "length"} /\ Quiet(s)'
    BY DEF Resting
  <2>1. Holders(s) # {}
    BY <1>7 DEF Holders
  <2>2. \A r \in Holders(s) : ~ Calling(r)
    BY <1>4, <1>7 DEF Holders
  <2> QED BY <1>1, <2>1, <2>2, NobodyCalls DEF Quiet
<1>11. UnderWay'
  <2> SUFFICES ASSUME NEW r \in Procs, Calling(r)' PROVE Stage(r, stream[r])'
    BY DEF UnderWay
  <2>1. Calling(r) /\ r # q /\ pc'[r] = pc[r] /\ stream'[r] = stream[r]
    BY <1>1, <1>3, <1>4 DEF Calling
  <2>2. stream[r] \in Streams /\ Stage(r, stream[r])
    BY <2>1, CallerTyped DEF Calling, CallInv, UnderWay
  <2>3. \A s \in Streams : s = stream[r] => Stage(r, s)'
    BY <1>1, <2>1, <2>2, StageKept
  <2> QED BY <2>1, <2>2, <2>3
<1> QED BY <1>5, <1>6, <1>9, <1>10, <1>11 DEF CallInv

\* A process ends.  If it is killed in a call the stream is its own and ends, too.
LEMMA CallExit ==
    ASSUME TypeInv, CallInv, NEW p \in Procs, Exit(p)
    PROVE  CallInv'
<1> DEFINE gone == {s \in Streams : Holders(s) = {p}}
<1>1. /\ pc' = [pc EXCEPT ![p] = "off"] /\ stream' = [stream EXCEPT ![p] = NoStream]
      /\ question' = [question EXCEPT ![p] = NoAnswer]
      /\ toClient' = [s \in Streams |-> IF s \in gone THEN <<>> ELSE toClient[s]]
      /\ result' = [s \in Streams |-> IF s \in gone THEN NoAnswer ELSE result[s]]
      /\ UNCHANGED <<scene, handler, hand, toDaemon>>
  BY DEF Exit, daemonVars
<1>2. pc'[p] = "off" /\ stream'[p] = NoStream
      /\ \A q \in Procs \ {p} :
            pc'[q] = pc[q] /\ stream'[q] = stream[q] /\ question'[q] = question[q]
  BY <1>1 DEF TypeInv, TypeOK
<1>3. \A q \in Procs \ {p} : Calling(q)' <=> Calling(q)
  BY <1>2 DEF Calling
<1>4. \A s \in Streams : Holders(s)' = Holders(s) \ {p}
  BY <1>2, DaemonRpcAssumption DEF Holders
<1>5. Calling(p) => \A q \in Procs \ {p} : stream[q] # stream[p]
  <2>1. Calling(p) => scene.sharing = "own" /\ pc[p] # "off"
    BY DEF Exit, Calling, CallInv, Unshared
  <2> QED BY <2>1 DEF CallInv, InTurns
<1>6. Unshared(scene)' /\ OwnAnswer'
  BY <1>1 DEF CallInv, Unshared, OwnAnswer
<1>7. InTurns'
  <2> SUFFICES ASSUME NEW a \in Procs, NEW b \in Procs, stream'[a] = stream'[b], a # b,
                      pc'[a] # "off"
               PROVE  scene.sharing = "turns" /\ ~ (Calling(a)' /\ Calling(b)')
    BY <1>1 DEF InTurns
  <2>1. a # p
    BY <1>2
  <2>2. b # p
    BY <1>2, <2>1 DEF TypeInv, Held
  <2> QED BY <1>2, <1>3, <2>1, <2>2 DEF CallInv, InTurns
<1>8. Ended'
  <2> SUFFICES ASSUME NEW s \in Streams
               PROVE  /\ Closed(s)' => toDaemon'[s] = <<>>
                      /\ Holders(s)' = {} => toClient'[s] = <<>>
    BY DEF Ended
  <2>1. Closed(s)' => toDaemon'[s] = <<>>
    BY <1>1 DEF CallInv, Ended, Closed
  <2>2. Holders(s)' = {} => s \in gone \/ Holders(s) = {}
    BY <1>4
  <2> QED BY <1>1, <2>1, <2>2 DEF CallInv, Ended
<1>9. Resting'
  <2> SUFFICES ASSUME NEW s \in Streams, Holders(s)' # {}, \A q \in Holders(s)' : ~ Calling(q)'
               PROVE  handler'[s] \in {"closed", "backlog", "length"} /\ Quiet(s)'
    BY DEF Resting
  <2>1. PICK r \in Holders(s)' : TRUE
    OBVIOUS
  <2>2. r \in Procs /\ r # p /\ stream[r] = s /\ r \in Holders(s)
    BY <1>4, <2>1 DEF Holders
  <2>3. p \in Holders(s) => ~ Calling(p)
    BY <1>5, <2>2 DEF Holders
  <2>4. \A q \in Holders(s) : ~ Calling(q)
    BY <1>3, <1>4, <2>3 DEF Holders
  <2>5. s \notin gone
    BY <2>2
  <2> QED BY <1>1, <2>2, <2>4, <2>5, NobodyCalls DEF Quiet
<1>10. UnderWay'
  <2> SUFFICES ASSUME NEW q \in Procs, Calling(q)' PROVE Stage(q, stream[q])'
    BY DEF UnderWay
  <2>1. q # p
    BY <1>2 DEF Calling
  <2>2. Calling(q)
    BY <1>3, <2>1
  <2>3. stream[q] \in Streams /\ Stage(q, stream[q])
    BY <2>2, CallerTyped DEF Calling, CallInv, UnderWay
  <2>4. stream[q] \notin gone
    BY <2>1 DEF Holders
  <2>5. \A s \in Streams : s = stream[q] => Stage(q, s)'
    BY <1>1, <1>2, <2>1, <2>3, <2>4, StageKept
  <2> QED BY <1>2, <2>1, <2>3, <2>5
<1> QED BY <1>6, <1>7, <1>8, <1>9, <1>10 DEF CallInv

\* A call begins on a stream that is empty.
LEMMA CallBegins ==
    ASSUME TypeInv, CallInv, NEW p \in Procs, NEW request \in Requests, Call(p, request)
    PROVE  CallInv'
<1>1. /\ pc[p] = "idle" /\ pc' = [pc EXCEPT ![p] = "lock"]
      /\ \A q \in Procs \ {p} : question'[q] = question[q]
      /\ UNCHANGED <<scene, handler, hand, toDaemon, toClient, stream, result>>
  BY DEF Call, daemonVars, TypeInv, TypeOK
<1>2. pc'[p] = "lock" /\ \A q \in Procs \ {p} : pc'[q] = pc[q]
  BY <1>1 DEF TypeInv, TypeOK
<1>3. Calling(p)' /\ ~ Calling(p) /\ \A q \in Procs \ {p} : Calling(q)' <=> Calling(q)
  BY <1>1, <1>2 DEF Calling
<1>4. stream[p] \in Streams /\ p \in Holders(stream[p])
  BY <1>1, CallerTyped DEF Holders
<1>5. \A q \in Holders(stream[p]) : ~ Calling(q)
  <2>1. CASE scene.sharing = "turns"
    BY <2>1 DEF Call
  <2>2. CASE scene.sharing # "turns"
    BY <1>1, <1>3, <2>2 DEF Holders, CallInv, InTurns
  <2> QED BY <2>1, <2>2
<1>6. Unshared(scene)' /\ Ended' /\ OwnAnswer'
  BY <1>1 DEF CallInv, Unshared, Ended, Closed, Holders, OwnAnswer
<1>7. InTurns'
  <2> SUFFICES ASSUME NEW a \in Procs, NEW b \in Procs, stream[a] = stream[b], a # b,
                      pc'[a] # "off"
               PROVE  scene.sharing = "turns" /\ ~ (Calling(a)' /\ Calling(b)')
    BY <1>1 DEF InTurns
  <2>1. pc[a] # "off"
    BY <1>1, <1>2
  <2>2. scene.sharing = "turns" /\ ~ (Calling(a) /\ Calling(b))
    BY <2>1 DEF CallInv, InTurns
  <2> QED BY <1>3, <1>5, <2>2 DEF Holders
<1>8. Resting'
  <2> SUFFICES ASSUME NEW s \in Streams, Holders(s) # {}, \A q \in Holders(s) : ~ Calling(q)'
               PROVE  handler'[s] \in {"closed", "backlog", "length"} /\ Quiet(s)'
    BY <1>1 DEF Resting, Holders
  <2>1. \A q \in Holders(s) : ~ Calling(q)
    BY <1>3 DEF Holders
  <2> QED BY <1>1, <2>1, NobodyCalls DEF Quiet
<1>9. UnderWay'
  <2> SUFFICES ASSUME NEW q \in Procs, Calling(q)' PROVE Stage(q, stream[q])'
    BY DEF UnderWay
  <2>1. CASE q = p
    <3>1. handler[stream[p]] \in {"closed", "backlog", "length"} /\ Quiet(stream[p])
      BY <1>4, <1>5, NobodyCalls
    <3> QED BY <1>1, <1>2, <2>1, <3>1 DEF Stage, Unsent, Quiet
  <2>2. CASE q # p
    <3>1. stream[q] \in Streams /\ Stage(q, stream[q])
      BY <1>3, <2>2, CallerTyped DEF Calling, CallInv, UnderWay
    <3>2. \A s \in Streams : s = stream[q] => Stage(q, s)'
      BY <1>1, <1>2, <2>2, <3>1, StageKept
    <3> QED BY <1>1, <3>1, <3>2
  <2> QED BY <2>1, <2>2
<1> QED BY <1>6, <1>7, <1>8, <1>9 DEF CallInv

\* Where the daemon changes nothing of a stream, nothing of a call changes.
LEMMA CallKept ==
    ASSUME TypeInv, CallInv, UNCHANGED <<scene, handler, hand, toDaemon, toClient, pc, stream,
                                         question, result>>
    PROVE  CallInv'
<1>1. Unshared(scene)' /\ InTurns' /\ Ended' /\ Resting' /\ OwnAnswer'
  BY DEF CallInv, Unshared, InTurns, Ended, Resting, OwnAnswer, Closed, Holders, Calling, Quiet
<1>2. ASSUME NEW q \in Procs, Calling(q)' PROVE Stage(q, stream[q])'
  <2>1. stream[q] \in Streams /\ Stage(q, stream[q])
    BY <1>2, CallerTyped DEF Calling, CallInv, UnderWay
  <2> QED BY <2>1, StageKept
<1> QED BY <1>1, <1>2 DEF CallInv, UnderWay

LEMMA CallStep == TypeInv /\ CallInv /\ [Next]_vars => CallInv'
<1> SUFFICES ASSUME TypeInv, CallInv, [Next]_vars PROVE CallInv'
  OBVIOUS
<1>1. ASSUME NEW p \in Procs, ClientStep(p) PROVE CallInv'
  BY <1>1, CallLock, CallSend, CallLength, CallBody, CallFails DEF ClientStep
<1>2. CASE LeaveLoop \/ Gone
  BY <1>2, ClosingKeeps DEF LeaveLoop, Gone
<1>3. CASE OwnerDrops \/ Restart \/ UNCHANGED vars
  BY <1>3, CallKept DEF OwnerDrops, Restart, vars, daemonVars, clientVars, daemonOnly
<1> QED BY <1>1, <1>2, <1>3, CallConnect, CallFork, CallExit, CallBegins, CallHandler DEF Next

\* A process takes the answer to its own request for its answer, although answers are
\* not matched with requests: whenever processes are killed, the daemon ends and is
\* started anew, and frames are read and written in parts, as long as no two calls can
\* be under way on one stream.
THEOREM OwnAnswerAlways ==
    ASSUME \A s \in Scenes : Unshared(s)
    PROVE  Spec => []OwnAnswer
<1>1. Init => CallInv
  BY CallInit
<1>2. CallInv => OwnAnswer
  BY DEF CallInv
<1> QED BY TypeInit, TypeStep, <1>1, CallStep, <1>2, PTL DEF Spec

-----------------------------------------------------------------------------
(***************************************************************************)
(* What DaemonCalls says of a stream, and what is on it.                   *)
(***************************************************************************)
\* The daemon has as much of a call as it has not read yet, and nothing of another one.
Ahead(s) ==
    /\ Len(toDaemon[s]) <= IF handler[s] \in {"backlog", "length"} THEN 2
                           ELSE IF handler[s] = "body" THEN 1 ELSE 0
    /\ \A i \in 1 .. Len(toDaemon[s]) :
          asked[s] = {toDaemon[s][i].message.content} /\ served[s] = NoAnswer

\* It has read a request that has not taken effect, or has its answer in hand.
Hand(s) ==
    /\ handler[s] = "dispatch" => asked[s] = {hand[s].content} /\ served[s] = NoAnswer
    /\ handler[s] \in {"answer", "answering"} => served[s] = hand[s].content

\* An answer that has been written is the one the call took effect with.
Behind(s) ==
    \A i \in 1 .. Len(toClient[s]) :
       toClient[s][i].part = "body" => toClient[s][i].message.content = served[s]

Off(s) == asked[s] = {} /\ served[s] = NoAnswer

\* There is no call where nobody calls.
NoCall(s) ==
    /\ Holders(s) # {} /\ (\A p \in Holders(s) : ~ Calling(p)) => Off(s)
    /\ Closed(s) /\ Holders(s) = {} => Off(s)

\* A call that has not been written can still take effect unless the stream is closed; one
\* that will not be answered cannot.
Asking(p, s) ==
    /\ pc[p] \in {"lock", "send", "sending"} =>
          /\ served[s] = NoAnswer
          /\ asked[s] = IF Closed(s) THEN {} ELSE {question[p].content}
    /\ Lost(p, s) => Off(s)

StreamInv == \A s \in Streams : Ahead(s) /\ Hand(s) /\ Behind(s) /\ NoCall(s)
AskingInv == \A p \in Procs : Calling(p) => Asking(p, stream[p])

AskInv == StreamInv /\ AskingInv

LEMMA AskInit == Init => AskInv
<1>1. Len(<<>>) = 0
  BY EmptySeq
<1> QED BY <1>1 DEF Init, AskInv, StreamInv, AskingInv, Ahead, Hand, Behind, NoCall, Off, Calling

\* A stream whose frames, handler and call stay as they are.
LEMMA StreamKept ==
    ASSUME NEW s \in Streams, Ahead(s), Hand(s), Behind(s),
           handler'[s] = handler[s], hand'[s] = hand[s], toDaemon'[s] = toDaemon[s],
           toClient'[s] = toClient[s], asked'[s] = asked[s], served'[s] = served[s]
    PROVE  Ahead(s)' /\ Hand(s)' /\ Behind(s)'
  BY DEF Ahead, Hand, Behind

LEMMA AskingKept ==
    ASSUME NEW p \in Procs, NEW s \in Streams, Asking(p, s),
           pc'[p] = pc[p], question'[p] = question[p], handler'[s] = handler[s],
           toDaemon'[s] = toDaemon[s], toClient'[s] = toClient[s],
           asked'[s] = asked[s], served'[s] = served[s]
    PROVE  Asking(p, s)'
  BY DEF Asking, Lost, Off, Closed, Only, Same

\* An answer has been written only to a call that waits for it.
LEMMA BodyMeansAnswered ==
    ASSUME TypeInv, CallInv, NEW s \in Streams, NEW i \in 1 .. Len(toClient[s]),
           toClient[s][i].part = "body"
    PROVE  /\ Holders(s) # {} /\ handler[s] \in {"length", "closed"} /\ toDaemon[s] = <<>>
           /\ \A p \in Procs : Calling(p) /\ stream[p] = s => Answered(p, s)
<1>1. toClient[s] # <<>> /\ toClient[s] \in Seq(Part(Reply))
  BY EmptySeq DEF TypeInv, TypeOK
<1>2. PICK p \in Procs : stream[p] = s /\ Calling(p)
  <2>1. Holders(s) # {}
    BY <1>1 DEF CallInv, Ended
  <2>2. ~ \A p \in Holders(s) : ~ Calling(p)
    BY <1>1, <2>1, NobodyCalls DEF Quiet
  <2> QED BY <2>2 DEF Holders
<1>3. ASSUME NEW q \in Procs, Calling(q), stream[q] = s PROVE Answered(q, s)
  <2>1. ~ Only(toClient[s], "length", question[q])
    <3> SUFFICES ASSUME Only(toClient[s], "length", question[q]) PROVE FALSE
      OBVIOUS
    <3>1. Len(toClient[s]) \in Nat /\ Len(Tail(toClient[s])) = Len(toClient[s]) - 1
      BY <1>1, HeadTailProperties, LenProperties
    <3>2. Len(Tail(toClient[s])) = 0
      BY EmptySeq DEF Only
    <3>3. i = 1
      BY <3>1, <3>2
    <3>4. Head(toClient[s]).part = "length" /\ Head(toClient[s]) = toClient[s][1]
      BY <1>1 DEF Only
    <3> QED BY <3>3, <3>4
  <2> QED BY <1>1, <1>3, <2>1 DEF CallInv, UnderWay, Stage, Unsent, HalfSent, Sent, InHand,
                                  HalfAnswered, Lost, Quiet
<1> QED BY <1>2, <1>3 DEF Answered, Holders

\* Nobody else calls on the stream of a process that calls.
LEMMA OneCalls ==
    ASSUME TypeInv, CallInv, NEW p \in Procs, NEW q \in Procs, Calling(p), Calling(q),
           stream[p] = stream[q]
    PROVE  p = q
  BY DEF CallInv, InTurns, Calling

\* Most steps concern one stream and those who hold it.
LEMMA Elsewhere ==
    ASSUME AskInv, NEW s \in Streams,
           \A r \in Streams \ {s} :
              /\ handler'[r] = handler[r] /\ hand'[r] = hand[r]
              /\ toDaemon'[r] = toDaemon[r] /\ toClient'[r] = toClient[r]
              /\ asked'[r] = asked[r] /\ served'[r] = served[r],
           \A q \in Procs :
              {stream[q], stream'[q]} \cap (Streams \ {s}) # {} =>
                 stream'[q] = stream[q] /\ pc'[q] = pc[q] /\ question'[q] = question[q],
           (Ahead(s) /\ Hand(s) /\ Behind(s) /\ NoCall(s))',
           \A q \in Procs : stream'[q] = s /\ Calling(q)' => Asking(q, s)',
           \A q \in Procs : Calling(q)' => stream'[q] \in Streams
    PROVE  AskInv'
<1>1. ASSUME NEW r \in Streams \ {s} PROVE (Ahead(r) /\ Hand(r) /\ Behind(r) /\ NoCall(r))'
  <2>1. Ahead(r) /\ Hand(r) /\ Behind(r) /\ NoCall(r)
    BY DEF AskInv, StreamInv
  <2>2. (Ahead(r) /\ Hand(r) /\ Behind(r))'
    BY <2>1, StreamKept
  <2>3. \A q \in Procs : stream[q] = r \/ stream'[q] = r =>
           stream'[q] = stream[q] /\ pc'[q] = pc[q]
    OBVIOUS
  <2>4. Holders(r)' = Holders(r)
    BY <2>3 DEF Holders
  <2>5. \A q \in Holders(r) : Calling(q)' <=> Calling(q)
    BY <2>3 DEF Holders, Calling
  <2>6. NoCall(r)'
    BY <2>1, <2>4, <2>5 DEF NoCall, Off, Closed
  <2> QED BY <2>2, <2>6
<1>2. ASSUME NEW q \in Procs, Calling(q)' PROVE Asking(q, stream[q])'
  <2>1. CASE stream'[q] = s
    BY <1>2, <2>1 DEF Asking, Lost, Off, Closed, Only, Same
  <2>2. CASE stream'[q] # s
    <3>1. stream'[q] \in Streams \ {s}
      BY <1>2, <2>2
    <3>2. stream'[q] = stream[q] /\ pc'[q] = pc[q] /\ question'[q] = question[q]
      BY <3>1
    <3>3. Asking(q, stream[q])
      BY <1>2, <3>2 DEF AskInv, AskingInv, Calling
    <3>4. \A r \in Streams : r = stream[q] => Asking(q, r)'
      BY <3>1, <3>2, <3>3, AskingKept
    <3> QED BY <3>1, <3>2, <3>4 DEF Asking, Lost, Off, Closed, Only, Same
  <2> QED BY <2>1, <2>2
<1> QED BY <1>1, <1>2 DEF AskInv, StreamInv, AskingInv

\* So do the steps of a call.
LEMMA CallOnly ==
    ASSUME TypeInv, CallInv, AskInv, NEW p \in Procs, Calling(p), NEW to, to # "off",
           pc' = [pc EXCEPT ![p] = to],
           UNCHANGED <<handler, hand, stream, question>>,
           \A r \in Streams \ {stream[p]} :
              /\ toDaemon'[r] = toDaemon[r] /\ toClient'[r] = toClient[r]
              /\ asked'[r] = asked[r] /\ served'[r] = served[r],
           (Ahead(stream[p]) /\ Hand(stream[p]) /\ Behind(stream[p]))',
           \/ to # "idle" /\ Asking(p, stream[p])'
           \/ to = "idle" /\ Off(stream[p])'
    PROVE  AskInv'
<1> DEFINE s == stream[p]
<1>1. s \in Streams /\ stream' = stream /\ pc'[p] = to
  BY CallerTyped DEF Calling, TypeInv, TypeOK
<1>2. \A q \in Procs \ {p} : pc'[q] = pc[q] /\ (Calling(q)' <=> Calling(q))
  BY DEF TypeInv, TypeOK, Calling
<1>3. \A q \in Procs \ {p} : Calling(q) => stream[q] # s
  BY OneCalls
<1>4. Calling(p)' <=> to # "idle"
  BY <1>1 DEF Calling
<1>5. NoCall(s)'
  <2>1. p \in Holders(s)'
    BY <1>1 DEF Holders
  <2>2. Holders(s)' # {} /\ (to # "idle" => ~ \A q \in Holders(s)' : ~ Calling(q)')
    BY <1>4, <2>1
  <2> QED BY <2>2 DEF NoCall
<1>6. ASSUME NEW q \in Procs, stream'[q] = s, Calling(q)' PROVE Asking(q, s)'
  <2>1. q = p
    BY <1>1, <1>2, <1>3, <1>6
  <2>2. Asking(p, s)'
    BY <1>4, <1>6, <2>1
  <2> QED BY <2>1, <2>2
<1>7. \A q \in Procs : Calling(q)' => stream'[q] \in Streams
  BY <1>1, <1>2, CallerTyped DEF Calling
<1>8. \A q \in Procs : {stream[q], stream'[q]} \cap (Streams \ {s}) # {} =>
         stream'[q] = stream[q] /\ pc'[q] = pc[q] /\ question'[q] = question[q]
  BY <1>1, <1>2
<1>9. (Ahead(s) /\ Hand(s) /\ Behind(s))'
  BY DEF Ahead, Hand, Behind
<1> QED BY <1>1, <1>5, <1>6, <1>7, <1>8, <1>9, Elsewhere

\* And those of a handler.
LEMMA HandlerOnly ==
    ASSUME TypeInv, CallInv, AskInv, NEW s \in Streams,
           UNCHANGED <<pc, stream, question>>,
           \A r \in Streams \ {s} :
              /\ handler'[r] = handler[r] /\ hand'[r] = hand[r]
              /\ toDaemon'[r] = toDaemon[r] /\ toClient'[r] = toClient[r]
              /\ asked'[r] = asked[r] /\ served'[r] = served[r],
           (Ahead(s) /\ Hand(s) /\ Behind(s) /\ NoCall(s))',
           \A q \in Procs : stream[q] = s /\ Calling(q) => Asking(q, s)'
    PROVE  AskInv'
<1>1. \A q \in Procs : Calling(q)' <=> Calling(q)
  BY DEF Calling
<1>2. \A q \in Procs : Calling(q)' => stream'[q] \in Streams
  BY <1>1, CallerTyped DEF Calling
<1>3. \A q \in Procs : stream'[q] = s /\ Calling(q)' => Asking(q, s)'
  BY <1>1
<1> QED BY <1>2, <1>3, Elsewhere
-----------------------------------------------------------------------------
(***************************************************************************)
(* The steps of a call.                                                    *)
(***************************************************************************)
LEMMA AskLock ==
    ASSUME TypeInv, CallInv, AskInv, NEW p \in Procs, Lock(p)
    PROVE  AskInv'
<1>1. /\ Calling(p) /\ pc[p] = "lock" /\ pc' = [pc EXCEPT ![p] = "send"] /\ pc'[p] = "send"
      /\ UNCHANGED <<handler, hand, toDaemon, toClient, stream, question, asked, served>>
  BY DEF Lock, Calling, daemonVars, TypeInv, TypeOK
<1>2. stream[p] \in Streams
  BY <1>1, CallerTyped
<1>3. (Ahead(stream[p]) /\ Hand(stream[p]) /\ Behind(stream[p]))'
  BY <1>1, <1>2 DEF AskInv, StreamInv, Ahead, Hand, Behind
<1>4. Asking(p, stream[p])'
  BY <1>1, <1>2 DEF AskInv, AskingInv, Asking, Lost, Closed
<1> QED BY <1>1, <1>3, <1>4, CallOnly

\* What is written on a stream is the call that may take effect.
LEMMA AskSend ==
    ASSUME TypeInv, CallInv, AskInv, NEW p \in Procs, Send(p)
    PROVE  AskInv'
<1> DEFINE s == stream[p]
<1>1. Calling(p) /\ ~ Closed(s) /\ pc[p] \in {"send", "sending"}
  BY DEF Send, Write, Calling
<1>2. s \in Streams /\ question[p] \in Question /\ toDaemon[s] \in Seq(Part(Requests))
  BY <1>1, CallerTyped DEF Calling, TypeInv, TypeOK, Held
<1>3. UNCHANGED <<handler, hand, toClient, stream, question, asked, served>>
  BY DEF Send, Write, daemonVars
<1>4. Stage(p, s) /\ Asking(p, s) /\ Ahead(s) /\ Hand(s) /\ Behind(s)
  BY <1>1, <1>2 DEF CallInv, UnderWay, AskInv, AskingInv, StreamInv
<1>5. asked[s] = {question[p].content} /\ served[s] = NoAnswer
  BY <1>1, <1>4 DEF Asking
<1>6. PICK part \in {Length(question[p]), Body(question[p])}, to \in {"sending", "recv"} :
         /\ pc' = [pc EXCEPT ![p] = to] /\ pc'[p] = to
         /\ toDaemon' = [toDaemon EXCEPT ![s] = Append(toDaemon[s], part)]
         /\ toDaemon'[s] = Append(toDaemon[s], part)
  BY <1>2 DEF Send, Write, TypeInv, TypeOK
<1>7. part \in Part(Requests) /\ part.message = question[p]
  BY <1>2, <1>6, PartTyped DEF Question
<1>8. /\ Len(toDaemon'[s]) = Len(toDaemon[s]) + 1 /\ Len(toDaemon[s]) \in Nat
      /\ \A i \in 1 .. Len(toDaemon[s]) : toDaemon'[s][i] = toDaemon[s][i]
      /\ toDaemon'[s][Len(toDaemon[s]) + 1] = part
  BY <1>2, <1>6, <1>7, AppendProperties, LenProperties
<1>9. \/ handler[s] \in {"backlog", "length"} /\ Len(toDaemon[s]) <= 1
      \/ handler[s] = "body" /\ Len(toDaemon[s]) = 0
  <2>1. Len(<<>>) = 0
    BY EmptySeq
  <2>2. Unsent(p, s) \/ HalfSent(p, s)
    BY <1>1, <1>4 DEF Stage, Sent, InHand, HalfAnswered, Answered, Lost, Closed
  <2>3. CASE Unsent(p, s)
    BY <1>1, <2>1, <2>3 DEF Unsent, Quiet, Closed
  <2>4. CASE HalfSent(p, s) /\ handler[s] = "body"
    BY <2>1, <2>4 DEF HalfSent
  <2>5. CASE HalfSent(p, s) /\ handler[s] # "body"
    <3>1. Only(toDaemon[s], "length", question[p]) /\ handler[s] \in {"backlog", "length"}
      BY <2>5 DEF HalfSent
    <3>2. Len(Tail(toDaemon[s])) = Len(toDaemon[s]) - 1 /\ Len(Tail(toDaemon[s])) = 0
      BY <1>2, <2>1, <3>1, HeadTailProperties DEF Only
    <3> QED BY <1>8, <3>1, <3>2
  <2> QED BY <2>2, <2>3, <2>4, <2>5
<1>10. Ahead(s)'
  <2>1. Len(toDaemon'[s]) <= IF handler[s] \in {"backlog", "length"} THEN 2
                             ELSE IF handler[s] = "body" THEN 1 ELSE 0
    BY <1>8, <1>9
  <2>2. ASSUME NEW i \in 1 .. Len(toDaemon'[s])
        PROVE  asked[s] = {toDaemon'[s][i].message.content}
    <3>1. i \in 1 .. Len(toDaemon[s]) \/ i = Len(toDaemon[s]) + 1
      BY <1>8, <2>2
    <3>2. CASE i \in 1 .. Len(toDaemon[s])
      BY <1>4, <1>8, <3>2 DEF Ahead
    <3>3. CASE i = Len(toDaemon[s]) + 1
      BY <1>5, <1>7, <1>8, <3>3
    <3> QED BY <3>1, <3>2, <3>3
  <2> QED BY <1>3, <1>5, <2>1, <2>2 DEF Ahead
<1>11. Hand(s)' /\ Behind(s)'
  BY <1>3, <1>4 DEF Hand, Behind
<1>12. Asking(p, s)'
  BY <1>1, <1>3, <1>5 DEF Asking, Lost, Closed
<1>13. (Ahead(stream[p]) /\ Hand(stream[p]) /\ Behind(stream[p]))'
  BY <1>10, <1>11 DEF Ahead, Hand, Behind
<1>14. \A r \in Streams \ {s} : toDaemon'[r] = toDaemon[r]
  BY <1>6 DEF TypeInv, TypeOK
<1> QED BY <1>1, <1>3, <1>6, <1>12, <1>13, <1>14, CallOnly

LEMMA AskLength ==
    ASSUME TypeInv, CallInv, AskInv, NEW p \in Procs, RecvLength(p)
    PROVE  AskInv'
<1> DEFINE s == stream[p]
<1>1. /\ pc[p] = "recv" /\ pc' = [pc EXCEPT ![p] = "reading"] /\ pc'[p] = "reading"
      /\ toClient[s] # <<>> /\ Head(toClient[s]).part = "length"
      /\ toClient' = [toClient EXCEPT ![s] = Tail(toClient[s])]
      /\ UNCHANGED <<handler, hand, toDaemon, stream, question, asked, served>>
  BY DEF RecvLength, Take, daemonVars, TypeInv, TypeOK
<1>2. s \in Streams /\ Calling(p)
  BY <1>1, CallerTyped DEF Calling
<1>3. toClient'[s] = Tail(toClient[s]) /\ \A r \in Streams \ {s} : toClient'[r] = toClient[r]
  BY <1>1, <1>2 DEF TypeInv, TypeOK
<1>4. Stage(p, s) /\ Asking(p, s) /\ Ahead(s) /\ Hand(s) /\ Behind(s)
  BY <1>2 DEF CallInv, UnderWay, AskInv, AskingInv, StreamInv
<1>5. Behind(s)'
  <2>1. toClient[s] \in Seq(Part(Reply))
    BY <1>2 DEF TypeInv, TypeOK
  <2>2. /\ Len(Tail(toClient[s])) = Len(toClient[s]) - 1
        /\ \A i \in 1 .. Len(Tail(toClient[s])) : Tail(toClient[s])[i] = toClient[s][i + 1]
    BY <1>1, <2>1, HeadTailProperties
  <2>3. \A i \in 1 .. Len(Tail(toClient[s])) : i + 1 \in 1 .. Len(toClient[s])
    BY <2>1, <2>2, LenProperties
  <2> QED BY <1>1, <1>3, <1>4, <2>2, <2>3 DEF Behind
<1>6. Lost(p, s)' => Off(s)
  <2>1. Lost(p, s)' => handler[s] = "closed" /\ Tail(toClient[s]) = <<>>
    BY <1>1, <1>3 DEF Lost
  <2>2. HalfAnswered(p, s) \/ Answered(p, s) \/ Lost(p, s)
    BY <1>1, <1>4 DEF Stage, Unsent, HalfSent, Sent, InHand, Quiet
  <2>3. Answered(p, s) => Tail(toClient[s]) # <<>>
    BY <1>1 DEF Answered, Both, Only
  <2> QED BY <1>4, <2>1, <2>2, <2>3 DEF HalfAnswered, Asking
<1>7. Asking(p, s)'
  BY <1>1, <1>6 DEF Asking, Off, Lost, Only, Same
<1>8. (Ahead(stream[p]) /\ Hand(stream[p]) /\ Behind(stream[p]))'
  BY <1>1, <1>4, <1>5 DEF Ahead, Hand, Behind
<1>9. Asking(p, stream[p])'
  BY <1>1, <1>7 DEF Asking, Lost, Off, Closed, Only, Same
<1> QED BY <1>1, <1>2, <1>3, <1>8, <1>9, CallOnly

\* Where there is nothing under way, a call that is over leaves nothing behind.
LEMMA AskOver ==
    ASSUME TypeInv, CallInv, AskInv, NEW p \in Procs, Calling(p),
           pc' = [pc EXCEPT ![p] = "idle"],
           UNCHANGED <<handler, hand, toDaemon, stream, question>>,
           handler[stream[p]] \in {"closed", "backlog", "length"},
           toDaemon[stream[p]] = <<>>, toClient'[stream[p]] = <<>>, Off(stream[p])',
           \A r \in Streams \ {stream[p]} :
              toClient'[r] = toClient[r] /\ asked'[r] = asked[r] /\ served'[r] = served[r]
    PROVE  AskInv'
<1>1. Len(<<>>) = 0
  BY EmptySeq
<1>2. Ahead(stream[p])'
  BY <1>1 DEF Ahead
<1>3. Hand(stream[p])' /\ Behind(stream[p])'
  BY <1>1 DEF Hand, Behind
<1>4. (Ahead(stream[p]) /\ Hand(stream[p]) /\ Behind(stream[p]))'
  BY <1>2, <1>3 DEF Ahead, Hand, Behind
<1> QED BY <1>4, CallOnly

\* The answer a process reads is the one of its call.
LEMMA AnswerRead ==
    ASSUME TypeInv, CallInv, AskInv, NEW p \in Procs, RecvBody(p)
    PROVE  /\ stream[p] \in Streams /\ Calling(p) /\ Answered(p, stream[p])
           /\ Tail(toClient[stream[p]]) = <<>>
           /\ Head(toClient[stream[p]]).message \in Message(Reply)
           /\ Head(toClient[stream[p]]).message.content = served[stream[p]]
<1> DEFINE s == stream[p]
<1>1. pc[p] = "reading" /\ toClient[s] # <<>> /\ Head(toClient[s]).part = "body"
  BY DEF RecvBody, Take
<1>2. s \in Streams /\ Calling(p)
  BY <1>1, CallerTyped DEF Calling
<1>3. Answered(p, s) /\ Only(toClient[s], "body", question[p])
  BY <1>1, <1>2 DEF CallInv, UnderWay, Stage, Unsent, HalfSent, Sent, InHand, HalfAnswered,
                    Answered, Lost, Quiet
<1>4. toClient[s] \in Seq(Part(Reply)) /\ Behind(s)
  BY <1>2 DEF TypeInv, TypeOK, AskInv, StreamInv
<1>5. Head(toClient[s]) = toClient[s][1] /\ Head(toClient[s]) \in Part(Reply)
  BY <1>1, <1>4, HeadTailProperties
<1>6. 1 \in 1 .. Len(toClient[s])
  BY <1>1, <1>4, EmptySeq, LenProperties
<1>7. Head(toClient[s]).message.content = served[s]
  BY <1>1, <1>4, <1>5, <1>6 DEF Behind
<1> QED BY <1>2, <1>3, <1>5, <1>7 DEF Only, Part

LEMMA AskBody ==
    ASSUME TypeInv, CallInv, AskInv, NEW p \in Procs, RecvBody(p)
    PROVE  AskInv'
<1> DEFINE s == stream[p]
<1>1. /\ pc' = [pc EXCEPT ![p] = "idle"]
      /\ toClient' = [toClient EXCEPT ![s] = Tail(toClient[s])]
      /\ asked' = [asked EXCEPT ![s] = {}] /\ served' = [served EXCEPT ![s] = NoAnswer]
      /\ UNCHANGED <<handler, hand, toDaemon, stream, question>>
  BY DEF RecvBody, Return, Take, daemonVars, TypeInv, TypeOK
<1>2. s \in Streams /\ Calling(p) /\ Answered(p, s) /\ Tail(toClient[s]) = <<>>
  BY AnswerRead
<1>3. /\ toClient'[s] = <<>> /\ asked'[s] = {} /\ served'[s] = NoAnswer
      /\ \A r \in Streams \ {s} :
            toClient'[r] = toClient[r] /\ asked'[r] = asked[r] /\ served'[r] = served[r]
  BY <1>1, <1>2 DEF TypeInv, TypeOK
<1>4. Off(stream[p])'
  BY <1>1, <1>3 DEF Off
<1> QED BY <1>1, <1>2, <1>3, <1>4, AskOver DEF Answered

\* A call that returns without an answer has been lost.
LEMMA FailedIsOff ==
    ASSUME TypeInv, CallInv, AskInv, NEW p \in Procs, Fail(p)
    PROVE  /\ stream[p] \in Streams /\ Calling(p) /\ Off(stream[p])
           /\ toDaemon[stream[p]] = <<>> /\ toClient[stream[p]] = <<>>
<1> DEFINE s == stream[p]
<1>1. /\ \/ pc[p] \in {"send", "sending"}
         \/ pc[p] \in {"recv", "reading"} /\ toClient[s] = <<>>
      /\ handler[s] = "closed"
  BY DEF Fail, Closed, TypeInv, Held
<1>2. s \in Streams /\ Calling(p)
  BY <1>1, CallerTyped DEF Calling
<1>3. Stage(p, s) /\ Asking(p, s) /\ toDaemon[s] = <<>>
  BY <1>1, <1>2 DEF CallInv, UnderWay, Ended, Closed, AskInv, AskingInv
<1>4. Unsent(p, s) \/ Lost(p, s)
  BY <1>1, <1>3 DEF Stage, HalfSent, Sent, InHand, HalfAnswered, Answered, Both, Only
<1>5. Off(s)
  BY <1>1, <1>3, <1>4 DEF Asking, Off, Closed, Unsent
<1>6. toClient[s] = <<>>
  BY <1>1, <1>4 DEF Unsent, Lost, Quiet
<1> QED BY <1>2, <1>3, <1>5, <1>6

LEMMA AskFails ==
    ASSUME TypeInv, CallInv, AskInv, NEW p \in Procs, Fail(p)
    PROVE  AskInv'
<1>1. /\ handler[stream[p]] = "closed" /\ pc' = [pc EXCEPT ![p] = "idle"]
      /\ UNCHANGED <<handler, hand, toDaemon, toClient, stream, question, asked, served>>
  BY DEF Fail, Return, Closed, daemonVars
<1>2. Off(stream[p])'
  BY <1>1, FailedIsOff DEF Off
<1> QED BY <1>1, <1>2, FailedIsOff, AskOver
-----------------------------------------------------------------------------
(***************************************************************************)
(* The steps of a handler.                                                 *)
(***************************************************************************)
\* As long as it does not close the stream and the call does not take effect.
LEMMA AskGoesOn ==
    ASSUME TypeInv, CallInv, AskInv, NEW s \in Streams,
           UNCHANGED <<pc, stream, question, asked, served>>,
           \A r \in Streams \ {s} :
              /\ handler'[r] = handler[r] /\ hand'[r] = hand[r]
              /\ toDaemon'[r] = toDaemon[r] /\ toClient'[r] = toClient[r],
           handler[s] # "closed", handler'[s] # "closed",
           (Ahead(s) /\ Hand(s) /\ Behind(s))'
    PROVE  AskInv'
<1>1. \A q \in Procs : Calling(q)' <=> Calling(q)
  BY DEF Calling
<1>2. NoCall(s)'
  <2>1. NoCall(s)
    BY DEF AskInv, StreamInv
  <2> QED BY <1>1, <2>1 DEF NoCall, Off, Closed, Holders
<1>3. ASSUME NEW q \in Procs, stream[q] = s, Calling(q) PROVE Asking(q, s)'
  <2>1. Asking(q, s)
    BY <1>3 DEF AskInv, AskingInv
  <2> QED BY <2>1 DEF Asking, Lost, Closed
<1> QED BY <1>2, <1>3, HandlerOnly

LEMMA AskAccept ==
    ASSUME TypeInv, CallInv, AskInv, NEW s \in Streams, Accept(s)
    PROVE  AskInv'
<1>1. /\ handler[s] = "backlog" /\ handler' = [handler EXCEPT ![s] = "length"]
      /\ handler'[s] = "length"
      /\ UNCHANGED <<hand, toDaemon, toClient, pc, stream, question, asked, served>>
  BY DEF Accept, daemonOnly, clientVars, TypeInv, TypeOK
<1>2. \A r \in Streams \ {s} : handler'[r] = handler[r]
  BY <1>1 DEF TypeInv, TypeOK
<1>3. (Ahead(s) /\ Hand(s) /\ Behind(s))'
  BY <1>1 DEF AskInv, StreamInv, Ahead, Hand, Behind
<1> QED BY <1>1, <1>2, <1>3, AskGoesOn

\* What is left of a frame when its head has been read.
LEMMA AheadTail ==
    ASSUME TypeInv, NEW s \in Streams, Ahead(s), toDaemon[s] # <<>>
    PROVE  /\ Len(Tail(toDaemon[s])) = Len(toDaemon[s]) - 1 /\ Len(toDaemon[s]) \in Nat
           /\ asked[s] = {Head(toDaemon[s]).message.content} /\ served[s] = NoAnswer
           /\ \A i \in 1 .. Len(Tail(toDaemon[s])) :
                 asked[s] = {Tail(toDaemon[s])[i].message.content}
<1>1. toDaemon[s] \in Seq(Part(Requests))
  BY DEF TypeInv, TypeOK
<1>2. /\ Len(Tail(toDaemon[s])) = Len(toDaemon[s]) - 1
      /\ \A i \in 1 .. Len(Tail(toDaemon[s])) : Tail(toDaemon[s])[i] = toDaemon[s][i + 1]
  BY <1>1, HeadTailProperties
<1>3. Len(toDaemon[s]) \in Nat /\ 1 \in 1 .. Len(toDaemon[s])
  BY <1>1, EmptySeq, LenProperties
<1>4. \A i \in 1 .. Len(Tail(toDaemon[s])) : i + 1 \in 1 .. Len(toDaemon[s])
  BY <1>2, <1>3
<1>5. Head(toDaemon[s]) = toDaemon[s][1]
  BY <1>1
<1> QED BY <1>2, <1>3, <1>4, <1>5 DEF Ahead

LEMMA AskReadLength ==
    ASSUME TypeInv, CallInv, AskInv, NEW s \in Streams, ReadLength(s)
    PROVE  AskInv'
<1>1. /\ handler[s] = "length" /\ handler' = [handler EXCEPT ![s] = "body"]
      /\ handler'[s] = "body" /\ toDaemon[s] # <<>>
      /\ toDaemon' = [toDaemon EXCEPT ![s] = Tail(toDaemon[s])]
      /\ toDaemon'[s] = Tail(toDaemon[s])
      /\ UNCHANGED <<hand, toClient, pc, stream, question, asked, served>>
  BY DEF ReadLength, Ready, TakeNext, daemonOnly, clientVars, TypeInv, TypeOK
<1>2. \A r \in Streams \ {s} : handler'[r] = handler[r] /\ toDaemon'[r] = toDaemon[r]
  BY <1>1 DEF TypeInv, TypeOK
<1>3. Ahead(s) /\ Hand(s) /\ Behind(s)
  BY DEF AskInv, StreamInv
<1>4. Len(toDaemon[s]) <= 2
  BY <1>1, <1>3 DEF Ahead
<1>5. Ahead(s)'
  <2>1. Len(toDaemon'[s]) <= 1
    <3>1. Len(Tail(toDaemon[s])) = Len(toDaemon[s]) - 1 /\ Len(toDaemon[s]) \in Nat
      BY <1>1, <1>3, AheadTail
    <3>2. Len(Tail(toDaemon[s])) <= 1
      BY <1>4, <3>1
    <3> QED BY <1>1, <3>2
  <2>2. \A i \in 1 .. Len(toDaemon'[s]) :
           asked'[s] = {toDaemon'[s][i].message.content} /\ served'[s] = NoAnswer
    BY <1>1, <1>3, AheadTail
  <2> QED BY <1>1, <2>1, <2>2 DEF Ahead
<1>6. Hand(s)' /\ Behind(s)'
  BY <1>1, <1>3 DEF Hand, Behind
<1> QED BY <1>1, <1>2, <1>5, <1>6, AskGoesOn

LEMMA AskReadBody ==
    ASSUME TypeInv, CallInv, AskInv, NEW s \in Streams, ReadBody(s)
    PROVE  AskInv'
<1>1. /\ handler[s] = "body" /\ handler' = [handler EXCEPT ![s] = "dispatch"]
      /\ handler'[s] = "dispatch" /\ toDaemon[s] # <<>>
      /\ toDaemon' = [toDaemon EXCEPT ![s] = Tail(toDaemon[s])]
      /\ toDaemon'[s] = Tail(toDaemon[s])
      /\ hand' = [hand EXCEPT ![s] = Head(toDaemon[s]).message]
      /\ hand'[s] = Head(toDaemon[s]).message
      /\ UNCHANGED <<toClient, pc, stream, question, asked, served>>
  BY DEF ReadBody, Ready, TakeNext, daemonOnly, clientVars, TypeInv, TypeOK
<1>2. \A r \in Streams \ {s} :
         handler'[r] = handler[r] /\ toDaemon'[r] = toDaemon[r] /\ hand'[r] = hand[r]
  BY <1>1 DEF TypeInv, TypeOK
<1>3. Ahead(s) /\ Behind(s)
  BY DEF AskInv, StreamInv
<1>4. Len(toDaemon[s]) <= 1
  BY <1>1, <1>3 DEF Ahead
<1>5. Ahead(s)'
  <2>1. Len(toDaemon'[s]) <= 0
    <3>1. Len(Tail(toDaemon[s])) = Len(toDaemon[s]) - 1 /\ Len(toDaemon[s]) \in Nat
      BY <1>1, <1>3, AheadTail
    <3>2. Len(Tail(toDaemon[s])) <= 0
      BY <1>4, <3>1
    <3> QED BY <1>1, <3>2
  <2>2. \A i \in 1 .. Len(toDaemon'[s]) :
           asked'[s] = {toDaemon'[s][i].message.content} /\ served'[s] = NoAnswer
    BY <1>1, <1>3, AheadTail
  <2> QED BY <1>1, <2>1, <2>2 DEF Ahead
<1>6. Hand(s)' /\ Behind(s)'
  BY <1>1, <1>3, AheadTail DEF Hand, Behind
<1> QED BY <1>1, <1>2, <1>5, <1>6, AskGoesOn

\* While the daemon has a request, nothing is on its stream and its caller waits.
LEMMA InDaemon ==
    ASSUME TypeInv, CallInv, AskInv, NEW s \in Streams,
           handler[s] \in {"dispatch", "answer", "answering"}
    PROVE  /\ Len(toDaemon[s]) <= 0
           /\ \A i \in 1 .. Len(toClient[s]) : toClient[s][i].part # "body"
           /\ ~ (Holders(s) # {} /\ \A q \in Holders(s) : ~ Calling(q))
           /\ \A q \in Procs : stream[q] = s /\ Calling(q) => pc[q] \in {"recv", "reading"}
<1>1. Len(toDaemon[s]) <= 0
  BY DEF AskInv, StreamInv, Ahead
<1>2. \A i \in 1 .. Len(toClient[s]) : toClient[s][i].part # "body"
  BY BodyMeansAnswered
<1>3. ~ (Holders(s) # {} /\ \A q \in Holders(s) : ~ Calling(q))
  BY NobodyCalls
<1>4. ASSUME NEW q \in Procs, stream[q] = s, Calling(q) PROVE pc[q] \in {"recv", "reading"}
  BY <1>4 DEF CallInv, UnderWay, Stage, Unsent, HalfSent, Sent, InHand, HalfAnswered, Answered,
              Lost
<1> QED BY <1>1, <1>2, <1>3, <1>4

\* The request in hand is the call, which has not taken effect.
LEMMA RequestInHand ==
    ASSUME TypeInv, AskInv, NEW s \in Streams, Dispatch(s)
    PROVE  /\ hand[s] \in Question /\ hand[s].content \in Requests
           /\ asked[s] = {hand[s].content} /\ served[s] = NoAnswer
           /\ hand'[s].content = Answer(hand[s].content, inodes)
<1>1. /\ handler[s] = "dispatch"
      /\ hand' = [hand EXCEPT ![s].content = Answer(hand[s].content, inodes)]
  BY DEF Dispatch
<1>2. hand[s] \in Question /\ hand[s].content \in Requests
  BY <1>1 DEF TypeInv, Held, Question, Message
<1>3. hand'[s].content = Answer(hand[s].content, inodes)
  BY <1>1, <1>2 DEF TypeInv, TypeOK, Question, Message
<1> QED BY <1>1, <1>2, <1>3 DEF AskInv, StreamInv, Hand

LEMMA AskDispatch ==
    ASSUME TypeInv, CallInv, AskInv, NEW s \in Streams, Dispatch(s)
    PROVE  AskInv'
<1>1. /\ handler[s] = "dispatch" /\ handler' = [handler EXCEPT ![s] = "answer"]
      /\ handler'[s] = "answer"
      /\ served' = [served EXCEPT ![s] = Answer(hand[s].content, inodes)]
      /\ served'[s] = Answer(hand[s].content, inodes)
      /\ \A r \in Streams \ {s} : hand'[r] = hand[r]
      /\ UNCHANGED <<toDaemon, toClient, pc, stream, question, asked>>
  BY DEF Dispatch, daemonOnly, clientVars, TypeInv, TypeOK
<1>2. \A r \in Streams \ {s} : handler'[r] = handler[r] /\ served'[r] = served[r]
  BY <1>1 DEF TypeInv, TypeOK
<1>3. Ahead(s)'
  <2>1. Len(toDaemon[s]) <= 0 /\ Len(toDaemon[s]) \in Nat
    BY <1>1, InDaemon, LenProperties DEF TypeInv, TypeOK
  <2>2. 1 .. Len(toDaemon[s]) = {}
    BY <2>1
  <2> QED BY <1>1, <2>1, <2>2 DEF Ahead
<1>4. Hand(s)' /\ Behind(s)'
  <2>1. \A i \in 1 .. Len(toClient[s]) : toClient[s][i].part # "body"
    BY <1>1, InDaemon
  <2> QED BY <1>1, <2>1, RequestInHand DEF Hand, Behind
<1>5. NoCall(s)'
  BY <1>1, InDaemon DEF NoCall, Closed, Holders, Calling
<1>6. \A q \in Procs : stream[q] = s /\ Calling(q) => Asking(q, s)'
  BY <1>1, InDaemon DEF Asking, Lost
<1> QED BY <1>1, <1>2, <1>3, <1>4, <1>5, <1>6, HandlerOnly

\* What is written for an answer is the answer the call took effect with.
LEMMA AskAnswers ==
    ASSUME TypeInv, CallInv, AskInv, NEW s \in Streams, NEW from \in {"answer", "answering"},
           NEW to, NEW part, WriteAnswer(s, from, part, to),
           \/ from = "answer" /\ part = Length(hand[s]) /\ to = "answering" /\ hand' = hand
           \/ /\ from = "answering" /\ part = Body(hand[s]) /\ to = "length"
              /\ hand' = [hand EXCEPT ![s] = NoAnswer]
    PROVE  AskInv'
<1>1. /\ handler[s] = from /\ handler' = [handler EXCEPT ![s] = to] /\ handler'[s] = to
      /\ toClient' = [toClient EXCEPT ![s] = Append(toClient[s], part)]
      /\ toClient'[s] = Append(toClient[s], part)
      /\ UNCHANGED <<toDaemon, pc, stream, question, asked, served>>
  BY DEF WriteAnswer, clientVars, TypeInv, TypeOK
<1>2. \A r \in Streams \ {s} :
         handler'[r] = handler[r] /\ toClient'[r] = toClient[r] /\ hand'[r] = hand[r]
  BY <1>1 DEF TypeInv, TypeOK
<1>3. hand[s] \in Message(Reply) /\ toClient[s] \in Seq(Part(Reply))
  BY <1>1 DEF TypeInv, TypeOK, Held
<1>4. part \in Part(Reply) /\ part.message = hand[s]
  BY <1>3, PartTyped
<1>5. hand[s].content = served[s]
  BY <1>1 DEF AskInv, StreamInv, Hand
<1>6. /\ Len(Append(toClient[s], part)) = Len(toClient[s]) + 1 /\ Len(toClient[s]) \in Nat
      /\ \A i \in 1 .. Len(toClient[s]) : Append(toClient[s], part)[i] = toClient[s][i]
      /\ Append(toClient[s], part)[Len(toClient[s]) + 1] = part
  BY <1>3, <1>4, AppendProperties, LenProperties
<1>7. Ahead(s)'
  <2>1. Len(toDaemon[s]) <= 0 /\ Len(toDaemon[s]) \in Nat
    BY <1>1, InDaemon, LenProperties DEF TypeInv, TypeOK
  <2>2. 1 .. Len(toDaemon[s]) = {} /\ Len(toDaemon[s]) = 0
    BY <2>1
  <2> QED BY <1>1, <2>2 DEF Ahead
<1>8. Behind(s)'
  <2> SUFFICES ASSUME NEW i \in 1 .. Len(Append(toClient[s], part)),
                      Append(toClient[s], part)[i].part = "body"
               PROVE  Append(toClient[s], part)[i].message.content = served[s]
    BY <1>1 DEF Behind
  <2>1. i \in 1 .. Len(toClient[s]) \/ i = Len(toClient[s]) + 1
    BY <1>6
  <2>2. i \notin 1 .. Len(toClient[s])
    BY <1>1, <1>6, InDaemon
  <2> QED BY <1>4, <1>5, <1>6, <2>1, <2>2
<1>9. Hand(s)'
  BY <1>1, <1>5 DEF Hand
<1>10. handler[s] # "closed" /\ handler'[s] # "closed"
  BY <1>1
<1> QED BY <1>1, <1>2, <1>7, <1>8, <1>9, <1>10, AskGoesOn

\* The calls of these streams, whose answers have been written, are not lost when the
\* streams are closed.
Out == {s \in Streams : handler[s] \in {"length", "closed"}
                        /\ served[s] # NoAnswer /\ Holders(s) # {}}

LEMMA ClosedAsk ==
    ASSUME TypeInv, NEW S \in SUBSET Streams, Close(S)
    PROVE  \A s \in Streams :
              /\ asked'[s] = IF s \in S \ Out THEN {} ELSE asked[s]
              /\ served'[s] = IF s \in S \ Out THEN NoAnswer ELSE served[s]
  BY DEF Close, Out

\* A call that is out and finds its stream closed has its answer.
LEMMA OutIsAnswered ==
    ASSUME TypeInv, CallInv, AskInv, NEW s \in Out, NEW p \in Procs, Calling(p), stream[p] = s
    PROVE  Answered(p, s)
<1>1. s \in Streams /\ handler[s] \in {"length", "closed"} /\ served[s] # NoAnswer
  BY DEF Out
<1>2. Stage(p, s) /\ Asking(p, s) /\ Ahead(s)
  BY <1>1 DEF CallInv, UnderWay, AskInv, AskingInv, StreamInv
<1>3. ~ Unsent(p, s) /\ ~ HalfSent(p, s)
  BY <1>1, <1>2 DEF Asking, Unsent, HalfSent
<1>4. ~ Sent(p, s)
  <2>1. toDaemon[s] # <<>> => 1 \in 1 .. Len(toDaemon[s])
    BY <1>1, EmptySeq, LenProperties DEF TypeInv, TypeOK
  <2> QED BY <1>1, <1>2, <2>1 DEF Ahead, Sent, Both
<1>5. ~ Lost(p, s)
  BY <1>1, <1>2 DEF Asking, Off
<1> QED BY <1>1, <1>2, <1>3, <1>4, <1>5 DEF Stage, InHand, HalfAnswered

LEMMA AskClose ==
    ASSUME TypeInv, CallInv, AskInv, NEW S \in SUBSET Streams, Close(S), UNCHANGED daemonOnly
    PROVE  AskInv'
<1>1. UNCHANGED <<toClient, pc, stream, question>>
  BY DEF daemonOnly, clientVars
<1>2. \A s \in Streams :
         /\ toDaemon'[s] = IF s \in S THEN <<>> ELSE toDaemon[s]
         /\ handler'[s] = IF s \in S THEN "closed" ELSE handler[s]
         /\ s \notin S => hand'[s] = hand[s]
  BY CloseTyped
<1>3. \A q \in Procs : Calling(q)' <=> Calling(q)
  BY <1>1 DEF Calling
<1>4. ASSUME NEW s \in Streams \ S
      PROVE  /\ (Ahead(s) /\ Hand(s) /\ Behind(s) /\ NoCall(s))'
             /\ \A q \in Procs : Calling(q) /\ stream[q] = s => Asking(q, s)'
  <2>1. Ahead(s) /\ Hand(s) /\ Behind(s) /\ NoCall(s)
        /\ asked'[s] = asked[s] /\ served'[s] = served[s]
    BY ClosedAsk DEF AskInv, StreamInv
  <2>2. (Ahead(s) /\ Hand(s) /\ Behind(s))'
    BY <1>1, <1>2, <2>1, StreamKept
  <2>3. NoCall(s)'
    BY <1>1, <1>2, <1>3, <2>1 DEF NoCall, Off, Closed, Holders
  <2>4. \A q \in Procs : Calling(q) /\ stream[q] = s => Asking(q, s)'
    BY <1>1, <1>2, <2>1, AskingKept DEF AskInv, AskingInv
  <2> QED BY <2>2, <2>3, <2>4
<1>5. ASSUME NEW s \in S
      PROVE  /\ (Ahead(s) /\ Hand(s) /\ Behind(s) /\ NoCall(s))'
             /\ \A q \in Procs : Calling(q) /\ stream[q] = s => Asking(q, s)'
  <2>1. handler'[s] = "closed" /\ toDaemon'[s] = <<>> /\ Len(<<>>) = 0
    BY <1>2, EmptySeq
  <2>2. Off(s)' \/ (s \in Out /\ asked'[s] = asked[s] /\ served'[s] = served[s])
    BY ClosedAsk DEF Off
  <2>3. s \in Streams /\ Behind(s) /\ NoCall(s)
    BY DEF AskInv, StreamInv
  <2>4. Ahead(s)' /\ Hand(s)'
    BY <2>1 DEF Ahead, Hand
  <2>5. Behind(s)'
    <3> SUFFICES ASSUME NEW i \in 1 .. Len(toClient[s]), toClient[s][i].part = "body"
                 PROVE  served'[s] = served[s]
      BY <1>1, <2>3 DEF Behind
    <3>1. Holders(s) # {} /\ handler[s] \in {"length", "closed"}
      BY <2>3, BodyMeansAnswered
    <3>2. s \notin Out => served[s] = NoAnswer
      BY <2>3, <3>1 DEF Out
    <3> QED BY <2>3, <3>2, ClosedAsk
  <2>6. NoCall(s)'
    <3>1. Off(s) => Off(s)'
      BY <2>2 DEF Off
    <3>2. Holders(s) = {} => Off(s)'
      BY <2>2 DEF Out
    <3> QED BY <1>1, <1>3, <2>3, <3>1, <3>2 DEF NoCall, Holders
  <2>7. ASSUME NEW q \in Procs, Calling(q), stream[q] = s PROVE Asking(q, s)'
    <3>1. CASE Off(s)'
      BY <2>1, <3>1 DEF Asking, Off, Closed
    <3>2. CASE s \in Out
      <4>1. Answered(q, s)
        BY <2>7, <3>2, OutIsAnswered
      <4>2. pc'[q] \notin {"lock", "send", "sending"}
        BY <1>1, <4>1 DEF Answered
      <4>3. ~ Lost(q, s)'
        BY <1>1, <4>1 DEF Answered, Lost, Both, Only
      <4> QED BY <4>2, <4>3 DEF Asking
    <3> QED BY <2>2, <3>1, <3>2
  <2> QED BY <2>4, <2>5, <2>6, <2>7
<1>6. StreamInv'
  BY <1>4, <1>5 DEF StreamInv
<1>7. AskingInv'
  <2> SUFFICES ASSUME NEW q \in Procs, Calling(q) PROVE Asking(q, stream[q])'
    BY <1>3 DEF AskingInv
  <2>1. stream[q] \in Streams
    BY CallerTyped DEF Calling
  <2>2. \A s \in Streams : s = stream[q] => Asking(q, s)'
    BY <1>4, <1>5
  <2> QED BY <1>1, <2>1, <2>2 DEF Asking, Lost, Off, Closed, Only, Same
<1> QED BY <1>6, <1>7 DEF AskInv

LEMMA AskHandler ==
    ASSUME TypeInv, CallInv, AskInv, NEW s \in Streams, HandlerStep(s)
    PROVE  AskInv'
<1>1. CASE ReadEnd(s)
  BY <1>1, AskClose DEF ReadEnd
<1>2. CASE SendAnswer(s)
  <2>1. CASE WriteAnswer(s, "answer", Length(hand[s]), "answering") /\ UNCHANGED hand
    BY <2>1, AskAnswers
  <2>2. CASE /\ WriteAnswer(s, "answering", Body(hand[s]), "length")
             /\ hand' = [hand EXCEPT ![s] = NoAnswer]
    BY <2>2, AskAnswers
  <2>3. CASE Close({s}) /\ UNCHANGED daemonOnly
    BY <2>3, AskClose
  <2> QED BY <1>2, <2>1, <2>2, <2>3 DEF SendAnswer
<1> QED BY <1>1, <1>2, AskAccept, AskReadLength, AskReadBody, AskDispatch DEF HandlerStep
-----------------------------------------------------------------------------
(***************************************************************************)
(* Processes that come and go.                                             *)
(***************************************************************************)
LEMMA AskConnect ==
    ASSUME TypeInv, CallInv, AskInv, NEW p \in Procs, NEW s \in Streams, Connect(p, s)
    PROVE  AskInv'
<1>1. /\ pc[p] = "off" /\ pc' = [pc EXCEPT ![p] = "idle"]
      /\ stream' = [stream EXCEPT ![p] = s]
      /\ handler' = [handler EXCEPT ![s] = "backlog"]
      /\ Closed(s) /\ Holders(s) = {}
      /\ UNCHANGED <<hand, toDaemon, toClient, question, asked, served>>
  BY DEF Connect
<1>2. Quiet(s) /\ Off(s) /\ Len(<<>>) = 0
  BY <1>1, EmptySeq DEF CallInv, Ended, Quiet, AskInv, StreamInv, NoCall
<1>3. \A q \in Procs \ {p} : pc'[q] = pc[q] /\ stream'[q] = stream[q] /\ stream[q] # s
  BY <1>1 DEF TypeInv, TypeOK, Holders
<1>4. pc'[p] = "idle" /\ stream'[p] = s /\ handler'[s] = "backlog" /\ stream[p] = NoStream
      /\ \A r \in Streams \ {s} : handler'[r] = handler[r]
  BY <1>1 DEF TypeInv, TypeOK, Held
<1>5. Ahead(s)' /\ Hand(s)' /\ Behind(s)'
  BY <1>1, <1>2, <1>4 DEF Ahead, Hand, Behind, Quiet
<1>6. NoCall(s)'
  BY <1>1, <1>2 DEF NoCall, Off
<1>7. \A q \in Procs : {stream[q], stream'[q]} \cap (Streams \ {s}) # {} =>
         stream'[q] = stream[q] /\ pc'[q] = pc[q] /\ question'[q] = question[q]
  BY <1>1, <1>3, <1>4, DaemonRpcAssumption
<1>8. \A q \in Procs : Calling(q)' => stream'[q] \in Streams /\ stream'[q] # s
  <2>1. \A q \in Procs : Calling(q)' => q # p /\ Calling(q)
    BY <1>3, <1>4 DEF Calling
  <2> QED BY <1>3, <2>1, CallerTyped DEF Calling
<1> QED BY <1>1, <1>4, <1>5, <1>6, <1>7, <1>8, Elsewhere

LEMMA AskFork ==
    ASSUME TypeInv, CallInv, AskInv, NEW p \in Procs, NEW q \in Procs, Fork(p, q)
    PROVE  AskInv'
<1>0. PICK s \in Streams : s = stream[p]
  BY CallerTyped DEF Fork
<1>1. /\ pc[p] # "off" /\ pc[q] = "off"
      /\ pc' = [pc EXCEPT ![q] = "idle"] /\ stream' = [stream EXCEPT ![q] = s]
      /\ UNCHANGED <<handler, hand, toDaemon, toClient, question, asked, served>>
  BY <1>0 DEF Fork, daemonVars
<1>2. stream[q] = NoStream
  BY <1>1 DEF TypeInv, Held
<1>3. pc'[q] = "idle" /\ stream'[q] = s
      /\ \A r \in Procs \ {q} : pc'[r] = pc[r] /\ stream'[r] = stream[r]
  BY <1>1 DEF TypeInv, TypeOK
<1>4. \A r \in Procs : Calling(r)' <=> Calling(r)
  BY <1>1, <1>3 DEF Calling
<1>5. Ahead(s)' /\ Hand(s)' /\ Behind(s)'
  BY <1>1, <1>2 DEF AskInv, StreamInv, Ahead, Hand, Behind
<1>6. NoCall(s)'
  <2>1. Holders(s)' = Holders(s) \cup {q} /\ p \in Holders(s)
    BY <1>0, <1>1, <1>3 DEF Holders
  <2>2. (\A r \in Holders(s)' : ~ Calling(r)') => \A r \in Holders(s) : ~ Calling(r)
    BY <1>4, <2>1 DEF Holders
  <2>3. NoCall(s)
    BY DEF AskInv, StreamInv
  <2>4. (\A r \in Holders(s)' : ~ Calling(r)') => Off(s)
    BY <2>1, <2>2, <2>3 DEF NoCall
  <2> QED BY <1>1, <2>1, <2>4 DEF NoCall, Off
<1>7. \A r \in Procs : {stream[r], stream'[r]} \cap (Streams \ {s}) # {} =>
         stream'[r] = stream[r] /\ pc'[r] = pc[r] /\ question'[r] = question[r]
  BY <1>1, <1>2, <1>3, DaemonRpcAssumption
<1>8. ASSUME NEW r \in Procs, Calling(r)'
      PROVE  stream'[r] \in Streams /\ (stream'[r] = s => Asking(r, s)')
  <2>1. Calling(r) /\ r # q /\ pc'[r] = pc[r] /\ stream'[r] = stream[r]
    BY <1>1, <1>3, <1>4, <1>8 DEF Calling
  <2>2. stream[r] \in Streams /\ Asking(r, stream[r])
    BY <2>1, CallerTyped DEF Calling, AskInv, AskingInv
  <2>3. s = stream[r] => Asking(r, s)'
    BY <1>1, <2>1, <2>2, AskingKept
  <2> QED BY <2>1, <2>2, <2>3
<1> QED BY <1>1, <1>5, <1>6, <1>7, <1>8, Elsewhere

LEMMA AskExit ==
    ASSUME TypeInv, CallInv, AskInv, NEW p \in Procs, Exit(p)
    PROVE  AskInv'
<1>0. PICK s \in Streams : s = stream[p]
  BY CallerTyped DEF Exit, Calling
<1> DEFINE gone == {r \in Streams : Holders(r) = {p}}
<1>1. /\ pc' = [pc EXCEPT ![p] = "off"] /\ stream' = [stream EXCEPT ![p] = NoStream]
      /\ question' = [question EXCEPT ![p] = NoAnswer]
      /\ toClient' = [r \in Streams |-> IF r \in gone THEN <<>> ELSE toClient[r]]
      /\ asked' = [r \in Streams |-> IF r \in gone /\ Closed(r) THEN {} ELSE asked[r]]
      /\ served' = [r \in Streams |-> IF r \in gone /\ Closed(r) THEN NoAnswer ELSE served[r]]
      /\ UNCHANGED <<handler, hand, toDaemon>>
  BY DEF Exit, daemonVars
<1>2. pc'[p] = "off" /\ stream'[p] = NoStream
      /\ \A q \in Procs \ {p} :
            pc'[q] = pc[q] /\ stream'[q] = stream[q] /\ question'[q] = question[q]
  BY <1>1 DEF TypeInv, TypeOK
<1>3. \A q \in Procs \ {p} : Calling(q)' <=> Calling(q)
  BY <1>2 DEF Calling
<1>4. Holders(s)' = Holders(s) \ {p} /\ p \in Holders(s) /\ \A r \in gone : r = s
  BY <1>0, <1>2, DaemonRpcAssumption DEF Holders
<1>5. Calling(p) => \A q \in Procs \ {p} : stream[q] # s
  <2>1. Calling(p) => scene.sharing = "own" /\ pc[p] # "off"
    BY DEF Exit, Calling, CallInv, Unshared
  <2> QED BY <1>0, <2>1 DEF CallInv, InTurns
<1>6. \A r \in Streams \ {s} :
         toClient'[r] = toClient[r] /\ asked'[r] = asked[r] /\ served'[r] = served[r]
  BY <1>1, <1>4
<1>7. \A q \in Procs : {stream[q], stream'[q]} \cap (Streams \ {s}) # {} =>
         stream'[q] = stream[q] /\ pc'[q] = pc[q] /\ question'[q] = question[q]
  BY <1>0, <1>2, DaemonRpcAssumption
<1>8. Ahead(s) /\ Hand(s) /\ Behind(s) /\ NoCall(s)
  BY DEF AskInv, StreamInv
<1>9. \A q \in Procs : Calling(q)' => q # p /\ Calling(q) /\ stream'[q] \in Streams
  BY <1>2, <1>3, CallerTyped DEF Calling
<1>10. CASE s \in gone
  <2>1. toClient'[s] = <<>> /\ Len(<<>>) = 0 /\ Holders(s)' = {}
    BY <1>1, <1>4, <1>10, EmptySeq
  <2>2. CASE Closed(s)
    <3>1. toDaemon'[s] = <<>> /\ handler'[s] = "closed" /\ Off(s)'
      BY <1>1, <1>10, <2>2 DEF CallInv, Ended, Closed, Off
    <3>2. Ahead(s)' /\ Hand(s)' /\ Behind(s)' /\ NoCall(s)'
      BY <2>1, <3>1 DEF Ahead, Hand, Behind, NoCall
    <3>3. \A q \in Procs : stream'[q] = s /\ Calling(q)' => Asking(q, s)'
      BY <2>1 DEF Holders
    <3> QED BY <1>1, <1>6, <1>7, <1>9, <3>2, <3>3, Elsewhere
  <2>3. CASE ~ Closed(s)
    <3>1. asked'[s] = asked[s] /\ served'[s] = served[s] /\ handler'[s] # "closed"
      BY <1>1, <2>3 DEF Closed
    <3>2. Ahead(s)' /\ Hand(s)' /\ Behind(s)' /\ NoCall(s)'
      BY <1>1, <1>8, <2>1, <3>1 DEF Ahead, Hand, Behind, NoCall, Closed
    <3>3. \A q \in Procs : stream'[q] = s /\ Calling(q)' => Asking(q, s)'
      BY <2>1 DEF Holders
    <3> QED BY <1>1, <1>6, <1>7, <1>9, <3>2, <3>3, Elsewhere
  <2> QED BY <2>2, <2>3
<1>11. CASE s \notin gone
  <2>1. toClient'[s] = toClient[s] /\ asked'[s] = asked[s] /\ served'[s] = served[s]
    BY <1>1, <1>11
  <2>2. Ahead(s)' /\ Hand(s)' /\ Behind(s)'
    BY <1>1, <1>8, <2>1, StreamKept
  <2>3. Holders(s)' # {}
    BY <1>4, <1>11
  <2>4. (\A q \in Holders(s)' : ~ Calling(q)') => Off(s)
    <3>1. PICK r \in Holders(s)' : TRUE
      BY <2>3
    <3>2. r \in Procs \ {p} /\ stream[r] = s
      BY <1>4, <3>1 DEF Holders
    <3>3. ~ Calling(p)
      BY <1>5, <3>2
    <3>4. (\A q \in Holders(s)' : ~ Calling(q)') => \A q \in Holders(s) : ~ Calling(q)
      BY <1>3, <1>4, <3>3 DEF Holders
    <3> QED BY <1>4, <1>8, <3>4 DEF NoCall
  <2>5. NoCall(s)'
    BY <2>1, <2>3, <2>4 DEF NoCall, Off
  <2>6. ASSUME NEW q \in Procs, stream'[q] = s, Calling(q)' PROVE Asking(q, s)'
    <3>1. q # p /\ Calling(q) /\ stream[q] = s /\ pc'[q] = pc[q] /\ question'[q] = question[q]
      BY <1>2, <1>9, <2>6
    <3>2. Asking(q, s)
      BY <3>1 DEF AskInv, AskingInv
    <3> QED BY <1>1, <2>1, <3>1, <3>2, AskingKept
  <2> QED BY <1>1, <1>6, <1>7, <1>9, <2>2, <2>5, <2>6, Elsewhere
<1> QED BY <1>10, <1>11

\* A call begins where there is none.
LEMMA BeginsOff ==
    ASSUME TypeInv, CallInv, AskInv, NEW p \in Procs, NEW request \in Requests, Call(p, request)
    PROVE  /\ stream[p] \in Streams /\ p \in Holders(stream[p]) /\ Off(stream[p])
           /\ handler[stream[p]] \in {"closed", "backlog", "length"} /\ Quiet(stream[p])
           /\ \A q \in Procs : stream[q] = stream[p] => ~ Calling(q)
<1>1. pc[p] = "idle"
  BY DEF Call
<1>2. stream[p] \in Streams /\ p \in Holders(stream[p])
  BY <1>1, CallerTyped DEF Holders
<1>3. \A q \in Procs : stream[q] = stream[p] => ~ Calling(q)
  <2>1. CASE scene.sharing = "turns"
    BY <2>1 DEF Call, Holders
  <2>2. CASE scene.sharing # "turns"
    BY <1>1, <2>2 DEF CallInv, InTurns, Calling
  <2> QED BY <2>1, <2>2
<1>4. Holders(stream[p]) # {} /\ \A q \in Holders(stream[p]) : ~ Calling(q)
  BY <1>2, <1>3 DEF Holders
<1>5. Off(stream[p])
  BY <1>2, <1>4 DEF AskInv, StreamInv, NoCall
<1> QED BY <1>2, <1>3, <1>4, <1>5, NobodyCalls

LEMMA AskBegins ==
    ASSUME TypeInv, CallInv, AskInv, NEW p \in Procs, NEW request \in Requests, Call(p, request)
    PROVE  AskInv'
<1>0. PICK s \in Streams : s = stream[p]
  BY BeginsOff
<1>1. /\ pc' = [pc EXCEPT ![p] = "lock"]
      /\ question' = [question EXCEPT ![p] =
                         [by |-> p, id |-> ids[p] + 1, content |-> request]]
      /\ asked' = [asked EXCEPT ![s] = IF Closed(s) THEN {} ELSE {request}]
      /\ UNCHANGED <<handler, hand, toDaemon, toClient, stream, served>>
  BY <1>0 DEF Call, daemonVars
<1>2. pc'[p] = "lock" /\ question'[p].content = request
      /\ \A q \in Procs \ {p} : pc'[q] = pc[q] /\ question'[q] = question[q]
  BY <1>1 DEF TypeInv, TypeOK
<1>3. asked'[s] = (IF Closed(s) THEN {} ELSE {request})
      /\ \A r \in Streams \ {s} : asked'[r] = asked[r]
  BY <1>1 DEF TypeInv, TypeOK
<1>4. Off(s) /\ handler[s] \in {"closed", "backlog", "length"} /\ Quiet(s) /\ Len(<<>>) = 0
  BY <1>0, BeginsOff, EmptySeq
<1>5. Ahead(s)' /\ Hand(s)' /\ Behind(s)'
  BY <1>1, <1>4 DEF Ahead, Hand, Behind, Quiet
<1>6. Calling(p)' /\ \A q \in Procs \ {p} : Calling(q)' <=> Calling(q)
  BY <1>2 DEF Calling
<1>7. NoCall(s)'
  <2>1. p \in Holders(s)'
    BY <1>0, <1>1 DEF Holders
  <2> QED BY <1>6, <2>1 DEF NoCall
<1>8. ASSUME NEW q \in Procs, stream'[q] = s, Calling(q)' PROVE Asking(q, s)'
  <2>1. q = p
    BY <1>0, <1>1, <1>6, <1>8, BeginsOff
  <2> QED BY <1>1, <1>2, <1>3, <1>4, <2>1 DEF Asking, Lost, Off, Closed
<1>9. \A q \in Procs : Calling(q)' => stream'[q] \in Streams
  BY <1>0, <1>1, <1>6, CallerTyped DEF Calling
<1>10. \A q \in Procs : {stream[q], stream'[q]} \cap (Streams \ {s}) # {} =>
         stream'[q] = stream[q] /\ pc'[q] = pc[q] /\ question'[q] = question[q]
  BY <1>0, <1>1, <1>2
<1> QED BY <1>1, <1>3, <1>5, <1>7, <1>8, <1>9, <1>10, Elsewhere

LEMMA AskKept ==
    ASSUME TypeInv, AskInv, UNCHANGED <<handler, hand, toDaemon, toClient, pc, stream, question,
                                        asked, served>>
    PROVE  AskInv'
<1>1. \A q \in Procs : Calling(q)' <=> Calling(q)
  BY DEF Calling
<1>2. ASSUME NEW r \in Streams PROVE (Ahead(r) /\ Hand(r) /\ Behind(r) /\ NoCall(r))'
  <2>1. Ahead(r) /\ Hand(r) /\ Behind(r) /\ NoCall(r)
    BY DEF AskInv, StreamInv
  <2>2. Holders(r)' = Holders(r)
    BY DEF Holders
  <2>3. (\A q \in Holders(r) : ~ Calling(q)') => \A q \in Holders(r) : ~ Calling(q)
    BY <1>1 DEF Holders
  <2>4. NoCall(r)'
    BY <2>1, <2>2, <2>3 DEF NoCall, Off, Closed
  <2> QED BY <2>1, <2>4, StreamKept
<1>3. ASSUME NEW q \in Procs, Calling(q)' PROVE Asking(q, stream[q])'
  <2>1. stream[q] \in Streams /\ Asking(q, stream[q])
    BY <1>1, <1>3, CallerTyped DEF Calling, AskInv, AskingInv
  <2> QED BY <2>1 DEF Asking, Lost, Off, Closed, Only, Same
<1> QED BY <1>2, <1>3 DEF AskInv, StreamInv, AskingInv

LEMMA AskStep == TypeInv /\ CallInv /\ AskInv /\ [Next]_vars => AskInv'
<1> SUFFICES ASSUME TypeInv, CallInv, AskInv, [Next]_vars PROVE AskInv'
  OBVIOUS
<1>1. ASSUME NEW p \in Procs, ClientStep(p) PROVE AskInv'
  BY <1>1, AskLock, AskSend, AskLength, AskBody, AskFails DEF ClientStep
<1>2. CASE LeaveLoop \/ Gone
  BY <1>2, AskClose DEF LeaveLoop, Gone
<1>3. CASE OwnerDrops \/ Restart \/ UNCHANGED vars
  BY <1>3, AskKept DEF OwnerDrops, Restart, vars, daemonVars, clientVars, daemonOnly
<1> QED BY <1>1, <1>2, <1>3, AskConnect, AskFork, AskExit, AskBegins, AskHandler DEF Next
-----------------------------------------------------------------------------
(***************************************************************************)
(* The steps of the processes and the daemon are steps of DaemonCalls.     *)
(***************************************************************************)
\* What DaemonCalls sees of the connections.
Left == [s \in Streams |-> Holders(s) = {}]
Told == [s \in Streams |-> IF result[s] = NoAnswer THEN NoAnswer ELSE result[s].answer.content]

\* A step that DaemonCalls does not see.
Unseen == UNCHANGED <<inodes, asked, served, Left, Told>>

LEMMA SameMessages ==
    ASSUME NEW request, NEW map
    PROVE  /\ DC!Effect(request, map) = Effect(request, map)
           /\ DC!Answer(request, map) = Answer(request, map)
<1>1. ASSUME NEW inode, NEW u, NEW g
      PROVE  DC!MergeChown(inode, u, g) = MergeChown(inode, u, g)
  BY DEF MergeChown, IdOr, DC!MergeChown, DC!IdOr
<1>2. ASSUME NEW u, NEW g, NEW du, NEW dg
      PROVE  DC!FreshChown(u, g, du, dg) = FreshChown(u, g, du, dg)
  BY <1>1 DEF FreshChown, New, DC!FreshChown, DC!New
<1> QED BY <1>1, <1>2 DEF Effect, Answer, DC!Effect, DC!Answer

LEMMA LeftKept ==
    ASSUME UNCHANGED stream
    PROVE  Left' = Left
  BY DEF Left, Holders

LEMMA ToldKept ==
    ASSUME UNCHANGED result
    PROVE  Told' = Told
  BY DEF Told

LEMMA CallsInit == Init => DC!Init
<1> SUFFICES ASSUME Init PROVE DC!Init
  OBVIOUS
<1>1. inodes = [k \in Keys |-> Absent]
  BY DEF Init, NoInodes
<1>2. \A s \in Streams : Holders(s) = {}
  BY DaemonRpcAssumption DEF Init, Holders
<1> QED BY <1>1, <1>2 DEF Init, DC!Init, DC!NoInodes

\* A process connects to a stream that nobody holds.
LEMMA ConnectIsConnect ==
    ASSUME TypeInv, AskInv, NEW p \in Procs, NEW s \in Streams, Connect(p, s)
    PROVE  DC!Connect(s)
<1>1. /\ Closed(s) /\ Holders(s) = {} /\ stream' = [stream EXCEPT ![p] = s]
      /\ stream[p] = NoStream
      /\ UNCHANGED <<inodes, asked, served, result>>
  BY DEF Connect, TypeInv, Held
<1>2. asked[s] = {}
  BY <1>1 DEF AskInv, StreamInv, NoCall, Off
<1>3. \A r \in Streams : Holders(r)' = Holders(r) \cup (IF r = s THEN {p} ELSE {})
  BY <1>1, DaemonRpcAssumption DEF Holders, TypeInv, TypeOK
<1>4. Left[s] /\ Left' = [Left EXCEPT ![s] = FALSE]
  BY <1>1, <1>3 DEF Left
<1>5. Told' = Told
  BY <1>1, ToldKept
<1> QED BY <1>1, <1>2, <1>4, <1>5 DEF DC!Connect, Left, Told

\* A fork does not concern the daemon.
LEMMA ForkIsUnseen ==
    ASSUME TypeInv, NEW p \in Procs, NEW q \in Procs, Fork(p, q)
    PROVE  Unseen
<1>1. /\ stream' = [stream EXCEPT ![q] = stream[p]]
      /\ pc[p] # "off" /\ stream[q] = NoStream
      /\ UNCHANGED <<inodes, asked, served, result>>
  BY DEF Fork, daemonVars, TypeInv, Held
<1>2. \A r \in Streams :
         Holders(r)' = Holders(r) \cup (IF r = stream[p] THEN {q} ELSE {})
  BY <1>1, DaemonRpcAssumption DEF Holders, TypeInv, TypeOK
<1>3. p \in Holders(stream[p])
  BY DEF Holders
<1>4. \A r \in Streams : Holders(r)' = {} <=> Holders(r) = {}
  BY <1>2, <1>3
<1>5. Left' = Left
  BY <1>4 DEF Left
<1> QED BY <1>1, <1>5, ToldKept DEF Unseen

\* The last process that holds a stream leaves it.
LEMMA ExitLeaves ==
    ASSUME TypeInv, NEW p \in Procs, Exit(p)
    PROVE  Unseen \/ \E s \in Streams : DC!Leave(s)
<1>0. PICK s \in Streams : s = stream[p]
  BY CallerTyped DEF Exit, Calling
<1> DEFINE gone == {r \in Streams : Holders(r) = {p}}
<1>1. /\ stream' = [stream EXCEPT ![p] = NoStream]
      /\ result' = [r \in Streams |-> IF r \in gone THEN NoAnswer ELSE result[r]]
      /\ asked' = [r \in Streams |-> IF r \in gone /\ Closed(r) THEN {} ELSE asked[r]]
      /\ served' = [r \in Streams |-> IF r \in gone /\ Closed(r) THEN NoAnswer ELSE served[r]]
      /\ inodes' = inodes
  BY DEF Exit, daemonVars
<1>2. \A r \in Streams : Holders(r)' = Holders(r) \ {p}
  BY <1>1, DaemonRpcAssumption DEF Holders, TypeInv, TypeOK
<1>3. p \in Holders(s) /\ \A r \in Streams \ {s} : p \notin Holders(r)
  BY <1>0 DEF Holders
<1>4. gone \subseteq {s}
  BY <1>3
<1>5. CASE s \in gone
  <2>1. \A r \in Streams : r \in gone <=> r = s
    BY <1>4, <1>5
  <2>2. ~ Left[s] /\ Left' = [Left EXCEPT ![s] = TRUE]
    <3>1. \A r \in Streams : Holders(r)' = {} <=> Holders(r) = {} \/ r = s
      BY <1>2, <1>3, <1>5
    <3> QED BY <1>3, <3>1 DEF Left
  <2>3. Told' = [Told EXCEPT ![s] = NoAnswer]
    BY <1>1, <2>1 DEF Told
  <2>4. DC!Over(s) \/ UNCHANGED <<asked, served>>
    <3>t. asked = [r \in Streams |-> asked[r]] /\ served = [r \in Streams |-> served[r]]
      BY DEF TypeInv, TypeOK
    <3>1. CASE Closed(s)
      <4>1. asked' = [asked EXCEPT ![s] = {}]
        BY <1>1, <2>1, <3>t, <3>1
      <4>2. served' = [served EXCEPT ![s] = NoAnswer]
        BY <1>1, <2>1, <3>t, <3>1
      <4> QED BY <4>1, <4>2 DEF DC!Over
    <3>2. CASE ~ Closed(s)
      BY <1>1, <2>1, <3>t, <3>2
    <3> QED BY <3>1, <3>2
  <2> QED BY <1>1, <2>2, <2>3, <2>4 DEF DC!Leave, Left, Told
<1>6. CASE s \notin gone
  <2>1. gone = {}
    BY <1>4, <1>6
  <2>2. asked' = asked /\ served' = served /\ result' = result
    BY <1>1, <2>1 DEF TypeInv, TypeOK
  <2>3. \A r \in Streams : Holders(r)' = {} <=> Holders(r) = {}
    BY <1>2, <1>3, <1>6
  <2>4. Left' = Left
    BY <2>3 DEF Left
  <2> QED BY <1>1, <2>2, <2>4, ToldKept DEF Unseen
<1> QED BY <1>5, <1>6

\* A call on a stream that is not closed may take effect.
LEMMA CallIsAsk ==
    ASSUME TypeInv, CallInv, AskInv, NEW p \in Procs, NEW request \in Requests, Call(p, request),
           NEW s \in Streams, stream[p] = s
    PROVE  Unseen \/ DC!Ask(s, request)
<1>1. /\ p \in Holders(s) /\ asked[s] = {}
      /\ asked' = [asked EXCEPT ![s] = IF Closed(s) THEN {} ELSE {request}]
      /\ UNCHANGED <<inodes, stream, served, result>>
  BY BeginsOff DEF Call, daemonVars, Off
<1>2. Left' = Left /\ Told' = Told /\ ~ Left[s]
  BY <1>1, LeftKept, ToldKept DEF Left
<1>3. CASE Closed(s)
  BY <1>1, <1>2, <1>3 DEF Unseen, TypeInv, TypeOK
<1>4. CASE ~ Closed(s)
  BY <1>1, <1>2, <1>4 DEF DC!Ask, Left, Told
<1> QED BY <1>3, <1>4

\* The answer a process reads ends its call.
LEMMA BodyIsReturn ==
    ASSUME TypeInv, CallInv, AskInv, NEW p \in Procs, RecvBody(p),
           NEW s \in Streams, stream[p] = s
    PROVE  DC!Return(s)
<1> DEFINE answer == Head(toClient[s]).message
<1>1. answer \in Message(Reply) /\ answer.content = served[s] /\ Calling(p)
  BY AnswerRead
<1>2. /\ result' = [result EXCEPT ![s] = [question |-> question[p], answer |-> answer]]
      /\ asked' = [asked EXCEPT ![s] = {}] /\ served' = [served EXCEPT ![s] = NoAnswer]
      /\ UNCHANGED <<inodes, stream>>
  BY DEF RecvBody, Return, daemonVars
<1>3. served[s] # NoAnswer
  BY <1>1, NoAnswerAssumption DEF Message
<1>4. [question |-> question[p], answer |-> answer] # NoAnswer
  BY <1>1, NoAnswerAssumption DEF TypeInv, Held
<1>5. Told' = [Told EXCEPT ![s] = served[s]]
  BY <1>1, <1>2, <1>4 DEF Told, TypeInv, TypeOK
<1>6. Left' = Left /\ ~ Left[s]
  BY <1>1, <1>2, LeftKept DEF Left, Holders
<1> QED BY <1>2, <1>3, <1>5, <1>6 DEF DC!Return, DC!Over, Left, Told

\* And a call that has been lost returns without one.
LEMMA FailIsFail ==
    ASSUME TypeInv, CallInv, AskInv, NEW p \in Procs, Fail(p),
           NEW s \in Streams, stream[p] = s
    PROVE  DC!Fail(s)
<1>1. /\ asked[s] = {} /\ result' = [result EXCEPT ![s] = NoAnswer]
      /\ UNCHANGED <<inodes, asked, served, stream>>
  BY FailedIsOff DEF Fail, Return, daemonVars, Off
<1>2. Told' = [Told EXCEPT ![s] = NoAnswer]
  BY <1>1 DEF Told, TypeInv, TypeOK
<1>3. Left' = Left /\ ~ Left[s]
  BY <1>1, LeftKept DEF Left, Holders
<1> QED BY <1>1, <1>2, <1>3 DEF DC!Fail, Left, Told

\* A call takes effect when its request is dispatched.
LEMMA DispatchIsTakeEffect ==
    ASSUME TypeInv, CallInv, AskInv, NEW s \in Streams, Dispatch(s)
    PROVE  DC!TakeEffect(s)
<1> DEFINE request == hand[s].content
<1>1. /\ inodes' = Effect(request, inodes)
      /\ served' = [served EXCEPT ![s] = Answer(request, inodes)]
      /\ UNCHANGED <<asked, stream, result>>
  BY DEF Dispatch, daemonOnly, clientVars
<1>2. request \in asked[s] /\ served[s] = NoAnswer
  BY RequestInHand
<1>3. Left' = Left /\ Told' = Told
  BY <1>1, LeftKept, ToldKept
<1>4. /\ inodes' = DC!Effect(request, inodes)
      /\ served' = [served EXCEPT ![s] = DC!Answer(request, inodes)]
  BY <1>1, SameMessages
<1> QED BY <1>1, <1>2, <1>3, <1>4 DEF DC!TakeEffect, Left, Told

\* Calls are lost when streams are closed, ...
LEMMA CloseIsLose ==
    ASSUME TypeInv, NEW S \in SUBSET Streams, Close(S), UNCHANGED daemonOnly
    PROVE  DC!Lose(S \ Out)
<1>1. UNCHANGED <<stream, result>>
  BY DEF daemonOnly, clientVars
<1>2. /\ asked' = [s \in Streams |-> IF s \in S \ Out THEN {} ELSE asked[s]]
      /\ served' = [s \in Streams |-> IF s \in S \ Out THEN NoAnswer ELSE served[s]]
  BY DEF Close, Out
<1> QED BY <1>1, <1>2, LeftKept, ToldKept DEF DC!Lose, Left, Told

\* ... all of them that can still take effect when the daemon ends.
LEMMA GoneIsEnd ==
    ASSUME TypeInv, Gone
    PROVE  DC!End(Streams \ Out)
<1>1. DC!Lose(Streams \ Out)
  BY CloseIsLose DEF Gone
<1>2. inodes' = DC!NoInodes
  BY DEF Gone, NoInodes, DC!NoInodes
<1>3. \A s \in Streams \ (Streams \ Out) : served[s] # NoAnswer
  BY DEF Out
<1> QED BY <1>1, <1>2, <1>3 DEF DC!End
-----------------------------------------------------------------------------
LEMMA CallsStep ==
    ASSUME TypeInv, CallInv, AskInv, [Next]_vars
    PROVE  [DC!Next]_(DC!vars)
<1>1. ASSUME Unseen PROVE [DC!Next]_(DC!vars)
  BY <1>1 DEF Unseen, DC!vars, Left, Told
<1>2. ASSUME UNCHANGED <<inodes, asked, served, stream, result>> PROVE [DC!Next]_(DC!vars)
  BY <1>1, <1>2, LeftKept, ToldKept DEF Unseen
<1>3. ASSUME NEW S \in SUBSET Streams, Close(S), UNCHANGED <<daemonOnly, inodes>>
      PROVE  DC!Next
  <2>1. DC!Lose(S \ Out) /\ inodes' = inodes
    BY <1>3, CloseIsLose
  <2> QED BY <2>1 DEF DC!Next
<1>4. ASSUME NEW p \in Procs, NEW s \in Streams, Connect(p, s) PROVE DC!Next
  BY <1>4, ConnectIsConnect DEF DC!Next
<1>5. ASSUME NEW p \in Procs, NEW q \in Procs, Fork(p, q) PROVE [DC!Next]_(DC!vars)
  BY <1>1, <1>5, ForkIsUnseen
<1>6. ASSUME NEW p \in Procs, Exit(p) PROVE [DC!Next]_(DC!vars)
  BY <1>1, <1>6, ExitLeaves DEF DC!Next
<1>7. ASSUME NEW p \in Procs, NEW request \in Requests, Call(p, request)
      PROVE  [DC!Next]_(DC!vars)
  <2>1. PICK s \in Streams : stream[p] = s
    BY <1>7, BeginsOff
  <2>2. Unseen \/ DC!Ask(s, request)
    BY <1>7, <2>1, CallIsAsk
  <2> QED BY <1>1, <2>2 DEF DC!Next
<1>8. ASSUME NEW p \in Procs, ClientStep(p) PROVE [DC!Next]_(DC!vars)
  <2>1. CASE Lock(p) \/ Send(p) \/ RecvLength(p)
    BY <1>2, <2>1 DEF Lock, Send, Write, RecvLength, daemonVars
  <2>2. CASE RecvBody(p)
    <3>1. PICK s \in Streams : stream[p] = s
      BY <2>2, AnswerRead
    <3>2. DC!Return(s)
      BY <2>2, <3>1, BodyIsReturn
    <3> QED BY <3>2 DEF DC!Next
  <2>3. CASE Fail(p)
    <3>1. PICK s \in Streams : stream[p] = s
      BY <2>3, FailedIsOff
    <3>2. DC!Fail(s)
      BY <2>3, <3>1, FailIsFail
    <3> QED BY <3>2 DEF DC!Next
  <2> QED BY <1>8, <2>1, <2>2, <2>3 DEF ClientStep
<1>9. ASSUME NEW s \in Streams, HandlerStep(s) PROVE [DC!Next]_(DC!vars)
  <2>1. CASE Accept(s) \/ ReadLength(s) \/ ReadBody(s)
    BY <1>2, <2>1 DEF Accept, ReadLength, ReadBody, daemonOnly, clientVars
  <2>2. CASE ReadEnd(s)
    BY <1>3, <2>2 DEF ReadEnd
  <2>3. CASE Dispatch(s)
    BY <2>3, DispatchIsTakeEffect DEF DC!Next
  <2>4. CASE SendAnswer(s)
    <3>1. CASE Close({s}) /\ UNCHANGED <<daemonOnly, daemon, shutdown, inodes>>
      BY <1>3, <3>1
    <3>2. CASE \/ WriteAnswer(s, "answer", Length(hand[s]), "answering")
               \/ WriteAnswer(s, "answering", Body(hand[s]), "length")
      BY <1>2, <3>2 DEF WriteAnswer, clientVars
    <3> QED BY <2>4, <3>1, <3>2 DEF SendAnswer
  <2> QED BY <1>9, <2>1, <2>2, <2>3, <2>4 DEF HandlerStep
<1>10. CASE LeaveLoop
  BY <1>3, <1>10 DEF LeaveLoop
<1>11. CASE Gone
  BY <1>11, GoneIsEnd DEF DC!Next
<1>12. CASE OwnerDrops \/ Restart \/ UNCHANGED vars
  BY <1>2, <1>12 DEF OwnerDrops, Restart, vars, daemonVars, clientVars, daemonOnly
<1> QED BY <1>4, <1>5, <1>6, <1>7, <1>8, <1>9, <1>10, <1>11, <1>12 DEF Next

\* What happens to frames on streams is what DaemonCalls promises, whenever processes
\* are killed and the daemon ends and is started anew: a call that is answered took
\* effect once, between question and answer, and one that is not, at most once.
THEOREM CallsImplemented ==
    ASSUME \A s \in Scenes : Unshared(s)
    PROVE  Spec => ImplementsCalls
<1>1. Init => CallInv
  BY CallInit
<1>2. TypeInv /\ CallInv /\ AskInv /\ [Next]_vars => [DC!Next]_(DC!vars)
  BY CallsStep
<1> QED BY TypeInit, TypeStep, <1>1, CallStep, AskInit, AskStep, CallsInit, <1>2, PTL
        DEF Spec, ImplementsCalls, DC!Spec
===============================================================================
