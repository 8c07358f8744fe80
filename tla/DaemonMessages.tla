--------------------------- MODULE DaemonMessages ---------------------------
(***************************************************************************)
(* The messages of the protocol (protocol.rs) and what the daemon does     *)
(* when it is given one (dispatch_message of daemon_server.rs).            *)
(*                                                                         *)
(* The messages about the current ids are in module Credentials: the       *)
(* daemon keeps those in two words that it changes one after the other.    *)
(***************************************************************************)
EXTENDS FakeInodes

CONSTANTS Requests,   \* the requests callers make: a subset of Request
          NoAnswer    \* no answer (yet)

Request ==
    [type : {"GetOwnership", "RemoveOwnership"}, key : Keys]
    \cup [type : {"RegisterOwnership"}, key : Keys, inode : FakeInode]
    \cup [type : {"UpsertChown"}, key : Keys, ids : ChownIds, owners : Owners]
    \cup [type : {"Ping", "Shutdown", "Response", "Error"}]

ASSUME DaemonMessagesAssumption == Requests \subseteq Request

Map == [Keys -> FakeInode \cup {Absent}]
NoInodes == [k \in Keys |-> Absent]

Reply == [type : {"Response"}, payload : FakeInode \cup {Absent, Done}]
         \cup [type : {"Error"}]

(***************************************************************************)
(* dispatch_message: the map a request leaves behind, and its answer.      *)
(***************************************************************************)
Effect(request, map) ==
    CASE request.type = "RegisterOwnership" ->
           [map EXCEPT ![request.key] = request.inode]
      [] request.type = "UpsertChown" ->
           [map EXCEPT ![request.key] =
              IF @ = Absent
              THEN FreshChown(request.ids[1], request.ids[2],
                              request.owners[1], request.owners[2])
              ELSE MergeChown(@, request.ids[1], request.ids[2])]
      [] request.type = "RemoveOwnership" -> [map EXCEPT ![request.key] = Absent]
      [] OTHER -> map

\* A Ping's "pong" is an empty answer here.
Answer(request, map) ==
    CASE request.type \in {"Response", "Error"} -> [type |-> "Error"]
      [] request.type = "GetOwnership" ->
           [type |-> "Response", payload |-> map[request.key]]
      [] OTHER -> [type |-> "Response", payload |-> Done]
=============================================================================
