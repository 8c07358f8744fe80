---------------------------- MODULE DaemonCalls ----------------------------
(***************************************************************************)
(* What the daemon promises the processes that call it: a call that is     *)
(* answered took effect once, at one moment between question and answer,   *)
(* and its answer tells what the map was at that moment; a call that is    *)
(* not answered, or whose caller is killed, took effect at most once.      *)
(*                                                                         *)
(* A connection has one call at a time.                                    *)
(***************************************************************************)
EXTENDS DaemonMessages

CONSTANT Streams  \* connections

VARIABLES inodes,  \* the daemon's map
          asked,   \* the call of each connection that may still take effect or
                   \* be answered, {} if there is none
          served,  \* the answer it took effect with, or NoAnswer
          left,    \* is there nobody at the other end?
          result   \* what the connection's last finished call returned

vars == <<inodes, asked, served, left, result>>

Init ==
    /\ inodes = NoInodes
    /\ asked = [c \in Streams |-> {}]
    /\ served = [c \in Streams |-> NoAnswer]
    /\ left = [c \in Streams |-> TRUE]
    /\ result = [c \in Streams |-> NoAnswer]

Ask(c, request) ==
    /\ asked[c] = {} /\ ~ left[c]
    /\ asked' = [asked EXCEPT ![c] = {request}]
    /\ UNCHANGED <<inodes, served, left, result>>

\* The one moment a call takes effect.
TakeEffect(c) ==
    /\ served[c] = NoAnswer
    /\ \E request \in asked[c] :
          /\ inodes' = Effect(request, inodes)
          /\ served' = [served EXCEPT ![c] = Answer(request, inodes)]
    /\ UNCHANGED <<asked, left, result>>

Over(c) ==
    /\ asked' = [asked EXCEPT ![c] = {}]
    /\ served' = [served EXCEPT ![c] = NoAnswer]

Return(c) ==
    /\ ~ left[c] /\ served[c] # NoAnswer
    /\ result' = [result EXCEPT ![c] = served[c]]
    /\ Over(c)
    /\ UNCHANGED <<inodes, left>>

\* The call, or its answer, is lost: it has no effect from here on.
Lose(C) ==
    /\ asked' = [c \in Streams |-> IF c \in C THEN {} ELSE asked[c]]
    /\ served' = [c \in Streams |-> IF c \in C THEN NoAnswer ELSE served[c]]
    /\ UNCHANGED <<left, result>>

\* A call that was lost returns without an answer.
Fail(c) ==
    /\ ~ left[c] /\ asked[c] = {}
    /\ result' = [result EXCEPT ![c] = NoAnswer]
    /\ UNCHANGED <<inodes, asked, served, left>>

\* The caller is gone; what it asked for may still take effect.
Leave(c) ==
    /\ ~ left[c]
    /\ left' = [left EXCEPT ![c] = TRUE]
    /\ result' = [result EXCEPT ![c] = NoAnswer]
    /\ Over(c) \/ UNCHANGED <<asked, served>>
    /\ UNCHANGED inodes

\* A new caller.
Connect(c) ==
    /\ left[c] /\ asked[c] = {}
    /\ left' = [left EXCEPT ![c] = FALSE]
    /\ UNCHANGED <<inodes, asked, served, result>>

\* The daemon ends, and its entries with it; no call made to it takes effect on
\* the next one.
End(C) ==
    /\ \A c \in Streams \ C : served[c] = NoAnswer => asked[c] = {}
    /\ Lose(C)
    /\ inodes' = NoInodes

Next ==
    \/ \E C \in SUBSET Streams : End(C) \/ (Lose(C) /\ UNCHANGED inodes)
    \/ \E c \in Streams :
          \/ \E request \in Requests : Ask(c, request)
          \/ TakeEffect(c) \/ Return(c) \/ Fail(c) \/ Leave(c) \/ Connect(c)

Spec == Init /\ [][Next]_vars
=============================================================================
