------------------------------ MODULE Launcher ------------------------------
(***************************************************************************)
(* Launching commands (fakeroot, init, library_path, extract_embedded_lib  *)
(* and run_session of pseudoroot/src/lib.rs; run_command of pdr.rs).       *)
(*                                                                         *)
(* A thread asks for a command with a session of its own, with a daemon,   *)
(* or without either.  The first is launched by a supervisor, which is a   *)
(* process of its own; the others are launched from the caller's process.  *)
(* Whoever launches extracts the library first, unless it is there: it     *)
(* writes a file named after its process and renames it.  It may be killed *)
(* at any time, and another process may be given its number.               *)
(*                                                                         *)
(* A file is the set of its chunks.  A setting says in what environment    *)
(* the callers run: inside another session (outer), with PSEUDOROOT_LIB    *)
(* (given), with PSEUDOROOT_SESSION_SHM not 0 (shm).                       *)
(*                                                                         *)
(* No name is used that DaemonLife uses, so that one module can extend     *)
(* both.                                                                   *)
(***************************************************************************)
EXTENDS Naturals

CONSTANTS Threads,  \* that launch commands
          Caller,   \* the process of all of them, when they are "together"
          Last,     \* number of chunks of the library
          NoFile,
          Settings

Requests == {"session", "daemon", "standalone"}

Setting == [requests : SUBSET Requests,
            together : BOOLEAN,   \* threads of one process
            outer : {"none", "shm", "socket", "standalone"},
            given : BOOLEAN,
            shm : BOOLEAN]

ASSUME LauncherAssumption ==
    /\ Last \in Nat \ {0}
    /\ Caller \notin Threads
    /\ \A file \in SUBSET (1 .. Last) : NoFile # file
    /\ Settings \subseteq Setting

VARIABLES setting,
          stage, asked,  \* what each thread does, and for what
          lib,           \* the library in the cache
          tmp,           \* the temporary file of each process
          fd,            \* the file a thread writes
          at             \* the chunk that is next

launchVars == <<setting, stage, asked, lib, tmp, fd, at>>

Chunks == 1 .. Last
Pids == Threads \cup {Caller}

LaunchTypeOK ==
    /\ setting \in Settings
    /\ stage \in [Threads -> {"idle", "look", "open", "write", "rename", "begin", "running"}]
    /\ asked \in [Threads -> Requests]
    /\ lib \in (SUBSET Chunks) \cup {NoFile}
    /\ tmp \in [Pids -> (SUBSET Chunks) \cup {NoFile}]
    /\ fd \in [Threads -> {"none", "tmp", "lib", "gone"}]
    /\ at \in [Threads -> Chunks]

LaunchInit ==
    /\ setting \in Settings
    /\ stage = [t \in Threads |-> "idle"]
    /\ asked = [t \in Threads |-> "session"]
    /\ lib = NoFile
    /\ tmp = [p \in Pids |-> NoFile]
    /\ fd = [t \in Threads |-> "none"]
    /\ at = [t \in Threads |-> 1]
-----------------------------------------------------------------------------
(***************************************************************************)
(* What is launched.                                                       *)
(***************************************************************************)
\* The variable is set for the command, or in the environment.
HasSocket(r) == r = "daemon" \/ setting.outer = "socket"
HasStandalone(r) == r = "standalone" \/ setting.outer = "standalone"

\* session_supervision_enabled.
\* Faulty variant: a command that is to be standalone is given a session.
Supervised_Always(r) == ~ HasSocket(r)

Supervised(r) == ~ HasSocket(r) /\ ~ HasStandalone(r)

\* PSEUDOROOT_SHM_FD and PSEUDOROOT_DAEMON_SOCKET in the target's environment.
ShmFd(r) ==
    IF Supervised(r) /\ setting.shm THEN "own"
    ELSE IF setting.outer = "shm" THEN "outer" ELSE "none"

Socket(r) ==
    IF Supervised(r) /\ ~ setting.shm THEN "own"
    ELSE IF r = "daemon" THEN "daemon" ELSE IF setting.outer = "socket" THEN "outer" ELSE "none"

\* The backend the library picks.
Backend(r) == IF ShmFd(r) # "none" THEN ShmFd(r) ELSE Socket(r)

\* The process that extracts the library: the supervisor, or the caller's.
\* Faulty variant: the file is not named after it.
Pid_Fixed(t) == Caller

Pid(t) == IF setting.together /\ ~ Supervised(asked[t]) THEN Caller ELSE t
-----------------------------------------------------------------------------
Ask(t, r) ==
    /\ stage[t] = "idle" /\ r \in setting.requests
    /\ stage' = [stage EXCEPT ![t] = "look"]
    /\ asked' = [asked EXCEPT ![t] = r]
    /\ UNCHANGED <<setting, lib, tmp, fd, at>>

\* library_path: the file PSEUDOROOT_LIB names, or the one in the cache.
Look(t) ==
    /\ stage[t] = "look"
    /\ stage' = [stage EXCEPT ![t] = IF setting.given \/ lib # NoFile THEN "begin" ELSE "open"]
    /\ UNCHANGED <<setting, asked, lib, tmp, fd, at>>

\* Faulty variant: the file is opened only when it is not there.
Open_New(t) ==
    /\ stage[t] = "open" /\ tmp[Pid(t)] = NoFile
    /\ stage' = [stage EXCEPT ![t] = "write"]
    /\ tmp' = [tmp EXCEPT ![Pid(t)] = {}]
    /\ fd' = [fd EXCEPT ![t] = "tmp"]
    /\ at' = [at EXCEPT ![t] = 1]
    /\ UNCHANGED <<setting, asked, lib>>

\* The temporary file is created, or what was in it is lost.
Open(t) ==
    /\ stage[t] = "open"
    /\ stage' = [stage EXCEPT ![t] = "write"]
    /\ tmp' = [tmp EXCEPT ![Pid(t)] = {}]
    /\ fd' = [fd EXCEPT ![t] = "tmp"]
    /\ at' = [at EXCEPT ![t] = 1]
    /\ UNCHANGED <<setting, asked, lib>>

\* The file is written where it is now, whoever has renamed it.
Write(t) ==
    /\ stage[t] = "write"
    /\ tmp' = IF fd[t] = "tmp" THEN [tmp EXCEPT ![Pid(t)] = @ \cup {at[t]}] ELSE tmp
    /\ lib' = IF fd[t] = "lib" THEN lib \cup {at[t]} ELSE lib
    /\ IF at[t] = Last
       THEN /\ stage' = [stage EXCEPT ![t] = "rename"]
            /\ fd' = [fd EXCEPT ![t] = "none"]
            /\ at' = [at EXCEPT ![t] = 1]
       ELSE /\ at' = [at EXCEPT ![t] = @ + 1]
            /\ UNCHANGED <<stage, fd>>
    /\ UNCHANGED <<setting, asked>>

\* A renamed file stays open where it is open, and so does the one it replaces.
Renamed(p) ==
    [s \in Threads |-> IF fd[s] = "tmp" /\ Pid(s) = p THEN "lib"
                       ELSE IF fd[s] = "lib" THEN "gone" ELSE fd[s]]

Rename(t) ==
    /\ stage[t] = "rename"
    /\ IF tmp[Pid(t)] # NoFile
       THEN /\ lib' = tmp[Pid(t)]
            /\ tmp' = [tmp EXCEPT ![Pid(t)] = NoFile]
            /\ fd' = Renamed(Pid(t))
            /\ stage' = [stage EXCEPT ![t] = "begin"]
       ELSE /\ stage' = [stage EXCEPT ![t] = "idle"]
            /\ UNCHANGED <<lib, tmp, fd>>
    /\ UNCHANGED <<setting, asked, at>>

\* The session is created, and the command started in it.
StartCommand(t) ==
    /\ stage[t] = "begin"
    /\ stage' = [stage EXCEPT ![t] = "running"]
    /\ UNCHANGED <<setting, asked, lib, tmp, fd, at>>

\* The launching process is killed, or an error ends it: with it end all threads that
\* launch in it.
Group(t) == {s \in Threads : Pid(s) = Pid(t) /\ stage[s] # "running"}

Kill(t) ==
    /\ stage[t] # "idle"
    /\ stage' = [s \in Threads |-> IF s = t \/ s \in Group(t) THEN "idle" ELSE stage[s]]
    /\ fd' = [s \in Threads |-> IF s = t \/ s \in Group(t) THEN "none" ELSE fd[s]]
    /\ at' = [s \in Threads |-> IF s = t \/ s \in Group(t) THEN 1 ELSE at[s]]
    /\ UNCHANGED <<setting, asked, lib, tmp>>

\* The command has ended.
EndCommand(t) ==
    /\ stage[t] = "running"
    /\ stage' = [stage EXCEPT ![t] = "idle"]
    /\ UNCHANGED <<setting, asked, lib, tmp, fd, at>>

Step(t) == Look(t) \/ Open(t) \/ Write(t) \/ Rename(t) \/ StartCommand(t)

LaunchNext ==
    \E t \in Threads : Step(t) \/ Kill(t) \/ EndCommand(t) \/ \E r \in Requests : Ask(t, r)

LaunchSpec == LaunchInit /\ [][LaunchNext]_launchVars

FairLaunchSpec == LaunchSpec /\ \A t \in Threads : WF_launchVars(Step(t))
-----------------------------------------------------------------------------
(***************************************************************************)
(* Properties.                                                             *)
(***************************************************************************)
\* The library in the cache is whole, from the moment it can be found there.
Complete == lib # NoFile => lib = Chunks

\* The file that is to be renamed is there, and is what has been written.
OwnFile == \A t \in Threads : stage[t] = "rename" => tmp[Pid(t)] = Chunks

\* A command runs with the backend that was asked for: a session of its own, the
\* daemon, or its own state only.
Asked ==
    \A t \in Threads : stage[t] = "running" =>
       Backend(asked[t]) = CASE asked[t] = "session" -> "own"
                             [] asked[t] = "daemon" -> "daemon"
                             [] asked[t] = "standalone" -> "none"

\* Who asks for a command gets it, or is killed, whatever others have left behind.
Launches == \A t \in Threads : stage[t] = "look" ~> stage[t] \in {"running", "idle"}
=============================================================================
