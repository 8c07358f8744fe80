----------------------------- MODULE Credentials -----------------------------
(***************************************************************************)
(* The current ids of a session (getuid, setuid and their relatives of     *)
(* interpose/src/lib.rs; current_fake_uid, set_current_ids and the         *)
(* initialization of the library in ownership.rs; set_current of state.rs  *)
(* and shm_map.rs).                                                        *)
(*                                                                         *)
(* A process keeps the ids three times: the bootstrap ids its constructor  *)
(* took from the environment, those of its own state, and, once it has     *)
(* joined a session, those in the shared header or in the daemon.  Two     *)
(* Onces lie in between: the library's, which copies the bootstrap ids to  *)
(* the own state, and the session's, which joins the session and, with a   *)
(* daemon, sends the bootstrap ids to it.                                  *)
(*                                                                         *)
(* A call to the daemon is one that is answered (DaemonRpc); a process     *)
(* that cannot reach its daemon keeps its ids as one without a session.    *)
(* The constructor has run before the first call.                          *)
(***************************************************************************)
EXTENDS Naturals, FiniteSets

CONSTANTS Procs,    \* processes
          First,    \* the one that runs at the start
          Threads,  \* threads of a process
          Inner,    \* a hook called from within an initialization
          Ids,      \* numbers of users and groups
          Root,     \* the id in PSEUDOROOT_UID and PSEUDOROOT_GID
          Scenes

Scene == [mode : {"local", "shm", "daemon"},
          threads : SUBSET Threads,
          serial : BOOLEAN,    \* one call at a time in the session
          sets : {"any", "made", "one"},  \* ids are set at any time, in initialized
                               \* processes, or in these and one at a time
          birth : {"none", "fork", "exec"},  \* where other processes come from
          length : BOOLEAN]    \* PSEUDOROOT_SHM_LEN is set

ASSUME CredentialsAssumption ==
    First \in Procs /\ Inner \notin Threads /\ Root \in Ids /\ Scenes \subseteq Scene

VARIABLES scene,
          alive,
          boot,      \* BOOT_UID and BOOT_GID of a process
          local,     \* current ids of its own state
          made,      \* how far its LIBRARY_INIT has come
          joined,    \* and its SESSION_INIT
          loaded,    \* what the initialization has loaded
          attached,  \* SHM_ACTIVE, or DAEMON_CONNECTED
          session,   \* current ids of the session
          pc, call,
          ids,       \* what a call is to store
          half,      \* which of them is next
          want       \* history: the ids last set, for each process

process == <<boot, local, made, joined, loaded, attached>>
thread == <<pc, call, ids, half>>
vars == <<scene, alive, process, session, thread, want>>

Id == {"uid", "gid"}
Pair == [Id -> Ids]
Env == [i \in Id |-> Root]
Other(i) == IF i = "uid" THEN "gid" ELSE "uid"

Calls == [kind : {"set"}, id : Id, value : Ids] \cup [kind : {"use"}]
Use == [kind |-> "use"]
Runs == Procs \X (Threads \cup {Inner})

TypeOK ==
    /\ scene \in Scenes
    /\ alive \subseteq Procs
    /\ boot \in [Procs -> Pair] /\ local \in [Procs -> Pair] /\ session \in Pair
    /\ loaded \in [Procs -> Pair] /\ ids \in [Runs -> Pair] /\ want \in [Procs -> Pair]
    /\ made \in [Procs -> {"no", "load", "store", "done"}]
    /\ joined \in [Procs -> {"no", "stat", "load", "uid", "gid", "yes"}]
    /\ attached \in [Procs -> BOOLEAN]
    /\ pc \in [Runs -> {"idle", "read", "ensure", "once", "join", "boot", "local",
                        "session", "over"}]
    /\ call \in [Runs -> Calls]
    /\ half \in [Runs -> Id]
    /\ \A p \in Procs :
          /\ joined[p] # "no" => made[p] = "done"
          /\ joined[p] = "yes" => (attached[p] <=> scene.mode # "local")

Init ==
    /\ scene \in Scenes
    /\ alive = {First}
    /\ boot = [p \in Procs |-> Env] /\ local = [p \in Procs |-> Env]
    /\ made = [p \in Procs |-> "no"] /\ joined = [p \in Procs |-> "no"]
    /\ loaded = [p \in Procs |-> Env]
    /\ attached = [p \in Procs |-> FALSE]
    /\ session = Env
    /\ pc = [r \in Runs |-> "idle"] /\ call = [r \in Runs |-> Use]
    /\ ids = [r \in Runs |-> Env] /\ half = [r \in Runs |-> "uid"]
    /\ want = [p \in Procs |-> Env]

Resting(r) == pc[r] \in {"idle", "over"}
RestingProc(p) == \A r \in Runs : r[1] = p => Resting(r)
Quiet == \A r \in Runs : Resting(r)

Made(p) == made[p] = "done"
Making(p) == made[p] \in {"load", "store"}    \* LIBRARY_INITIALIZING

\* What getuid and getgid of p report.
Seen(p) == IF ~ Made(p) THEN boot[p] ELSE IF attached[p] THEN session ELSE local[p]
-----------------------------------------------------------------------------
(***************************************************************************)
(* The two initializations.  Each runs once in a process, in the thread    *)
(* that came first; the others wait.                                       *)
(***************************************************************************)
Waits(p, at) == \E r \in Runs : r[1] = p /\ pc[r] = at

\* finish_library_init.  The own state is written under its lock.
Make(p) ==
    /\ Resting(<<p, Inner>>)
    /\ \/ /\ made[p] = "no" /\ Waits(p, "once")
          /\ made' = [made EXCEPT ![p] = "load"]
          /\ UNCHANGED <<local, loaded>>
       \/ /\ made[p] = "load"
          /\ made' = [made EXCEPT ![p] = "store"]
          /\ loaded' = [loaded EXCEPT ![p] = boot[p]]
          /\ UNCHANGED local
       \/ /\ made[p] = "store"
          /\ made' = [made EXCEPT ![p] = "done"]
          /\ local' = [local EXCEPT ![p] = loaded[p]]
          /\ UNCHANGED loaded
    /\ UNCHANGED <<scene, alive, boot, joined, attached, session, thread, want>>

\* SESSION_INIT is entered.  Without the length in the environment, from_fd calls
\* fstat, which is a hook.
JoinStarts(p) ==
    /\ joined[p] = "no" /\ Made(p) /\ Waits(p, "join")
    /\ IF scene.mode = "shm" /\ ~ scene.length
       THEN /\ joined' = [joined EXCEPT ![p] = "stat"]
            /\ pc' = [pc EXCEPT ![<<p, Inner>>] = "ensure"]
       ELSE /\ joined' = [joined EXCEPT ![p] = "load"]
            /\ UNCHANGED pc
    /\ UNCHANGED <<scene, alive, boot, local, made, loaded, attached, session,
                   call, ids, half, want>>

\* Faulty variant: the state of the connection is not looked at.
Attach_Blind(p) ==
    /\ joined[p] = "load"
    /\ attached' = [attached EXCEPT ![p] = TRUE]
    /\ loaded' = [loaded EXCEPT ![p] = boot[p]]
    /\ joined' = [joined EXCEPT ![p] = IF scene.mode = "daemon" THEN "uid" ELSE "yes"]
    /\ UNCHANGED <<scene, alive, boot, local, made, session, thread, want>>

\* init_shm_from_env maps the table, or init_daemon_connection connects.
Attach(p) ==
    /\ \/ joined[p] = "load"
       \/ joined[p] = "stat" /\ pc[<<p, Inner>>] = "over"
    /\ attached' = [attached EXCEPT ![p] = scene.mode # "local"]
    /\ loaded' = [loaded EXCEPT ![p] = boot[p]]
    /\ joined' = [joined EXCEPT ![p] = IF scene.mode = "daemon" THEN "uid" ELSE "yes"]
    /\ UNCHANGED <<scene, alive, boot, local, made, session, thread, want>>

\* The threads of a process share one channel to the daemon.
Channel(r) ==
    scene.mode = "daemon" =>
       /\ joined[r[1]] # "gid"
       /\ \A s \in Runs \ {r} : s[1] = r[1] => ~ (pc[s] = "session" /\ half[s] = "gid")

\* The daemon's answer to Init: set_current stores the two ids one by one.
DaemonInit(p) ==
    /\ joined[p] \in Id
    /\ joined[p] = "uid" => \A r \in Runs : r[1] = p => ~ (pc[r] = "session" /\ half[r] = "gid")
    /\ session' = [session EXCEPT ![joined[p]] = loaded[p][joined[p]]]
    /\ joined' = [joined EXCEPT ![p] = IF @ = "uid" THEN "gid" ELSE "yes"]
    /\ UNCHANGED <<scene, alive, boot, local, made, loaded, attached, thread, want>>
-----------------------------------------------------------------------------
(***************************************************************************)
(* Calls: setuid and setgid (with setreuid and the others, which differ in *)
(* their arguments), and "use", any other hook that initializes.           *)
(***************************************************************************)
store == <<scene, alive, process, session>>

Setting == {r \in Runs : ~ Resting(r) /\ call[r].kind = "set"}

Begin(r, c) ==
    /\ r[1] \in alive /\ r[2] \in scene.threads /\ pc[r] = "idle"
    /\ scene.serial => Quiet
    /\ c.kind = "set" =>
          /\ scene.sets # "any" => Made(r[1]) /\ joined[r[1]] = "yes"
          /\ scene.sets = "one" => Setting = {}
    /\ call' = [call EXCEPT ![r] = c]
    /\ pc' = [pc EXCEPT ![r] = IF c.kind = "set" THEN "read" ELSE "ensure"]
    /\ ids' = IF c.kind = "set" THEN [ids EXCEPT ![r][c.id] = c.value] ELSE ids
    /\ UNCHANGED <<store, half, want>>

\* A hook called by the thread that initializes the library.
Nested(p) ==
    LET r == <<p, Inner>> IN
    /\ Making(p) /\ pc[r] = "idle"
    /\ pc' = [pc EXCEPT ![r] = "ensure"]
    /\ UNCHANGED <<store, call, ids, half, want>>

\* Faulty variant: it reads its process's own state.
Read_Own(r) ==
    /\ pc[r] = "read"
    /\ ids' = [ids EXCEPT ![r][Other(call[r].id)] = local[r[1]][Other(call[r].id)]]
    /\ pc' = [pc EXCEPT ![r] = "ensure"]
    /\ UNCHANGED <<store, call, half, want>>

\* The setter reads the id it is not to change.
Read(r) ==
    /\ pc[r] = "read"
    /\ Made(r[1]) => joined[r[1]] = "yes" /\ Channel(r)
    /\ ids' = [ids EXCEPT ![r][Other(call[r].id)] = Seen(r[1])[Other(call[r].id)]]
    /\ pc' = [pc EXCEPT ![r] = "ensure"]
    /\ UNCHANGED <<store, call, half, want>>

Body(r) == IF call[r].kind = "set" THEN "boot" ELSE IF r[2] = Inner THEN "over" ELSE "idle"

\* Faulty variant: without the look at LIBRARY_INITIALIZING.
Ensure_Waits(r) ==
    /\ pc[r] = "ensure"
    /\ pc' = [pc EXCEPT ![r] = IF Made(r[1]) THEN "join" ELSE "once"]
    /\ UNCHANGED <<store, call, ids, half, want>>

\* ensure_library_init.
Ensure(r) ==
    /\ pc[r] = "ensure"
    /\ pc' = [pc EXCEPT ![r] = IF Made(r[1]) THEN "join"
                               ELSE IF Making(r[1]) THEN Body(r) ELSE "once"]
    /\ UNCHANGED <<store, call, ids, half, want>>

Once(r) ==
    /\ pc[r] = "once" /\ Made(r[1])
    /\ pc' = [pc EXCEPT ![r] = "join"]
    /\ UNCHANGED <<store, call, ids, half, want>>

Joined(r) ==
    /\ pc[r] = "join" /\ joined[r[1]] = "yes"
    /\ pc' = [pc EXCEPT ![r] = Body(r)]
    /\ UNCHANGED <<store, call, ids, half, want>>

\* set_current_ids stores the ids everywhere.
StoreBoot(r) ==
    /\ pc[r] = "boot"
    /\ boot' = [boot EXCEPT ![r[1]][half[r]] = ids[r][half[r]]]
    /\ half' = [half EXCEPT ![r] = Other(@)]
    /\ pc' = IF half[r] = "gid" THEN [pc EXCEPT ![r] = "local"] ELSE pc
    /\ UNCHANGED <<scene, alive, local, made, joined, loaded, attached, session, call, ids, want>>

Shared == scene.mode # "local"

Returns(r) ==
    /\ pc' = [pc EXCEPT ![r] = "idle"]
    /\ call' = [call EXCEPT ![r] = Use]
    /\ ids' = [ids EXCEPT ![r] = Env]
    /\ want' = [p \in Procs |-> IF p = r[1] \/ Shared
                                THEN [want[p] EXCEPT ![call[r].id] = call[r].value]
                                ELSE want[p]]

\* Faulty variant: the process's own state is left alone in a session.
StoreLocal_Alone(r) ==
    /\ pc[r] = "local"
    /\ IF attached[r[1]]
       THEN pc' = [pc EXCEPT ![r] = "session"] /\ UNCHANGED <<local, call, ids, want>>
       ELSE Returns(r) /\ local' = [local EXCEPT ![r[1]] = ids[r]]
    /\ UNCHANGED <<scene, alive, boot, made, joined, loaded, attached, session, half>>

StoreLocal(r) ==
    /\ pc[r] = "local"
    /\ local' = [local EXCEPT ![r[1]] = ids[r]]
    /\ IF attached[r[1]] THEN pc' = [pc EXCEPT ![r] = "session"] /\ UNCHANGED <<call, ids, want>>
                         ELSE Returns(r)
    /\ UNCHANGED <<scene, alive, boot, made, joined, loaded, attached, session, half>>

StoreSession(r) ==
    /\ pc[r] = "session" /\ Channel(r)
    /\ session' = [session EXCEPT ![half[r]] = ids[r][half[r]]]
    /\ half' = [half EXCEPT ![r] = Other(@)]
    /\ IF half[r] = "gid" THEN Returns(r) ELSE UNCHANGED <<pc, call, ids, want>>
    /\ UNCHANGED <<scene, alive, process>>
-----------------------------------------------------------------------------
(***************************************************************************)
(* Processes.                                                              *)
(***************************************************************************)
Fork(p, q) ==
    /\ scene.birth = "fork" /\ p \in alive /\ q \notin alive
    /\ RestingProc(p) /\ joined[p] = "yes"
    /\ alive' = alive \cup {q}
    /\ boot' = [boot EXCEPT ![q] = boot[p]] /\ local' = [local EXCEPT ![q] = local[p]]
    /\ made' = [made EXCEPT ![q] = made[p]] /\ joined' = [joined EXCEPT ![q] = joined[p]]
    /\ loaded' = [loaded EXCEPT ![q] = loaded[p]]
    /\ attached' = [attached EXCEPT ![q] = attached[p]]
    /\ want' = [want EXCEPT ![q] = want[p]]
    /\ UNCHANGED <<scene, session, thread>>

\* A process that starts with the environment of the session.
Exec(q) ==
    /\ scene.birth = "exec" /\ q \notin alive
    /\ alive' = alive \cup {q}
    /\ UNCHANGED <<scene, process, session, thread, want>>

Exit(p) ==
    /\ scene.birth # "none" /\ p \in alive /\ RestingProc(p)
    /\ \E q \in alive : q # p
    /\ alive' = alive \ {p}
    /\ boot' = [boot EXCEPT ![p] = Env] /\ local' = [local EXCEPT ![p] = Env]
    /\ made' = [made EXCEPT ![p] = "no"] /\ joined' = [joined EXCEPT ![p] = "no"]
    /\ loaded' = [loaded EXCEPT ![p] = Env]
    /\ attached' = [attached EXCEPT ![p] = FALSE]
    /\ pc' = [r \in Runs |-> IF r[1] = p THEN "idle" ELSE pc[r]]
    /\ want' = IF Shared THEN want ELSE [want EXCEPT ![p] = Env]
    /\ UNCHANGED <<scene, session, call, ids, half>>
-----------------------------------------------------------------------------
InitStep(p) == Make(p) \/ JoinStarts(p) \/ Attach(p) \/ DaemonInit(p)

CallStep(r) ==
    Read(r) \/ Ensure(r) \/ Once(r) \/ Joined(r)
    \/ StoreBoot(r) \/ StoreLocal(r) \/ StoreSession(r)

Next ==
    \/ \E p \in Procs : InitStep(p) \/ Nested(p) \/ Exec(p) \/ Exit(p)
    \/ \E p, q \in Procs : Fork(p, q)
    \/ \E r \in Runs : CallStep(r) \/ \E c \in Calls : Begin(r, c)

Spec == Init /\ [][Next]_vars

FairSpec ==
    /\ Spec
    /\ \A p \in Procs : WF_vars(InitStep(p))
    /\ \A r \in Runs : WF_vars(CallStep(r))
-----------------------------------------------------------------------------
(***************************************************************************)
(* Properties.                                                             *)
(***************************************************************************)
\* getuid and getgid report what was last set: by the process itself or, in a
\* session, by any process of it.
Reported == Quiet => \A p \in alive : Seen(p) = want[p]

\* stat reports a file nobody has changed as the one who calls stat: it takes the
\* ids of the process's own state.
Mine(p) == Made(p) => local[p] = Seen(p)
StatAgrees ==
    Quiet => \A p \in alive : scene.mode = "local" \/ scene.birth = "none" => Mine(p)

\* The same when the ids of a session were set by another process.
StatAgreesInSession == Quiet => \A p \in alive : Mine(p)

\* Every call returns, those made from within an initialization, too.
CallsReturn == \A r \in Runs : ~ Resting(r) ~> Resting(r)
=============================================================================
