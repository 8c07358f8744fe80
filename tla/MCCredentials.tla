---------------------------- MODULE MCCredentials ----------------------------
(***************************************************************************)
(* Instances of Credentials for TLC: two processes of two threads and the  *)
(* ids 0 and 1, any number of calls.                                       *)
(***************************************************************************)
EXTENDS Credentials

CONSTANTS t1, t2

Alone(mode) == [mode |-> mode, threads |-> {t1}, serial |-> TRUE, sets |-> "any",
                birth |-> "none", length |-> TRUE]
Modes == {"local", "shm", "daemon"}

\* One thread, from its first call on.
FirstCalls == {Alone(m) : m \in Modes}
\* Two threads: ids are set one at a time, once the library is initialized.
TwoThreads ==
    {[Alone(m) EXCEPT !.threads = {t1, t2}, !.serial = FALSE, !.sets = "one"] : m \in Modes}
\* Initialized processes that fork; one call at a time in the session.
Forking == {[Alone(m) EXCEPT !.birth = "fork"] : m \in Modes}
\* Processes that start with the environment, each with its own state.
Separate == {[Alone("local") EXCEPT !.birth = "exec"]}
Sound == Separate \cup FirstCalls \cup TwoThreads \cup Forking

\* Two threads set ids at the same time, or their first calls are at the same time.
Setters == [Alone("shm") EXCEPT !.threads = {t1, t2}, !.serial = FALSE]
AtOnce == {[Setters EXCEPT !.sets = "made"]}
FirstAtOnce == {[Setters EXCEPT !.mode = "local"]}
\* A process starts in a session that has set its ids.
Starting == {[Alone("daemon") EXCEPT !.birth = "exec"]}
\* PSEUDOROOT_SHM_LEN is missing.
NoLength == {[Alone("shm") EXCEPT !.length = FALSE]}
=============================================================================
