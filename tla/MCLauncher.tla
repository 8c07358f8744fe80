----------------------------- MODULE MCLauncher -----------------------------
(***************************************************************************)
(* Instances of Launcher for TLC: three threads, a library of two chunks.  *)
(***************************************************************************)
EXTENDS Launcher

Plain == [requests |-> Requests, together |-> FALSE, outer |-> "none",
          given |-> FALSE, shm |-> TRUE]

\* Threads of several processes, or of one that asks for sessions.
Sound == {Plain, [Plain EXCEPT !.given = TRUE, !.shm = FALSE],
          [Plain EXCEPT !.together = TRUE, !.requests = {"session"}, !.shm = FALSE]}

\* Threads of one process that launch from there.
OneProcess == {[Plain EXCEPT !.together = TRUE, !.requests = {"standalone"}]}

\* Callers inside another session.
Nested == {[Plain EXCEPT !.outer = o] : o \in {"shm", "socket", "standalone"}}
=============================================================================
