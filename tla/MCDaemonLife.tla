---------------------------- MODULE MCDaemonLife ----------------------------
(***************************************************************************)
(* Instances of DaemonLife for TLC: two daemons and two commands on one    *)
(* path, any number of starts and stops.                                   *)
(***************************************************************************)
EXTENDS DaemonLife

Alone(session, cleanup) ==
    [starts |-> "apart", session |-> session, cleanup |-> cleanup]

\* A daemon is started when the last one has ended.
Apart == {Alone(TRUE, FALSE), Alone(FALSE, FALSE), Alone(FALSE, TRUE)}

\* It is started when pdr stop has said that the last one has stopped.
Told == {[Alone(FALSE, FALSE) EXCEPT !.starts = "told"]}

\* At any time.
Anytime == {[Alone(FALSE, FALSE) EXCEPT !.starts = "any"]}

Mixed == Apart \cup Told \cup Anytime
=============================================================================
