--------------------------- MODULE Session_proofs ---------------------------
(***************************************************************************)
(* Proofs about how sessions start and end: about the daemons and the      *)
(* commands that stop them (DaemonLife), for every number of both, and     *)
(* about the commands that are launched (Launcher), for every number of    *)
(* threads and chunks; both for every set of scenes and settings.  Each    *)
(* theorem is about one of the two.                                        *)
(***************************************************************************)
EXTENDS DaemonLife, Launcher, TLAPS

-----------------------------------------------------------------------------
(***************************************************************************)
(* DaemonLife: type correctness.                                           *)
(***************************************************************************)
\* A connection that is closed has no other end, and its command has failed.
LEMMA DisconnectTyped ==
    ASSUME TypeOK, NEW d \in Daemons, NEW S \in SUBSET Connected, Disconnect(d, S)
    PROVE  /\ pc' \in [Commands -> Connected \cup {"idle", "refused", "failed"}]
           /\ target' \in [Commands -> Daemons \cup {NoDaemon}]
           /\ \A c \in Commands : target'[c] = NoDaemon <=> pc'[c] \notin Connected
           /\ \A c \in Commands : pc'[c] = "refused" => pc[c] = "refused"
  BY DaemonLifeAssumption DEF TypeOK, Disconnect, Connected

\* When accept_loop returns a daemon goes on, is dropped or waits for its drop.
LEMMA LoopEndsTyped ==
    ASSUME TypeOK, NEW d \in Daemons, NEW next \in {"leaving", "exiting"},
           LoopEnds(d, next), killed' \subseteq Daemons
    PROVE  TypeOK'
<1>1. daemon' \in [Daemons -> Starting \cup {"off", "serving", "closing", "ended",
                                            "leaving", "exiting"}]
  BY DEF LoopEnds, TypeOK
<1>2. {"asked"} \in SUBSET Connected
  BY DEF Connected
<1>3. Disconnect(d, {"asked"}) /\ UNCHANGED <<scene, file, flag, told>>
  BY DEF LoopEnds
<1>4. /\ pc' \in [Commands -> Connected \cup {"idle", "refused", "failed"}]
      /\ target' \in [Commands -> Daemons \cup {NoDaemon}]
      /\ \A c \in Commands : target'[c] = NoDaemon <=> pc'[c] \notin Connected
  BY <1>2, <1>3, DisconnectTyped
<1> QED BY <1>1, <1>3, <1>4 DEF TypeOK

\* The same for a daemon that ends.
LEMMA EndTyped ==
    ASSUME TypeOK, NEW d \in Daemons, End(d), killed' \subseteq Daemons,
           file' \in Daemons \cup {NoDaemon}
    PROVE  TypeOK'
<1>1. daemon' \in [Daemons -> Starting \cup {"off", "serving", "closing", "ended",
                                            "leaving", "exiting"}]
  BY DEF End, TypeOK
<1>2. Disconnect(d, Connected) /\ UNCHANGED <<scene, flag, told>>
  BY DEF End
<1>3. /\ pc' \in [Commands -> Connected \cup {"idle", "refused", "failed"}]
      /\ target' \in [Commands -> Daemons \cup {NoDaemon}]
      /\ \A c \in Commands : target'[c] = NoDaemon <=> pc'[c] \notin Connected
  BY <1>2, DisconnectTyped
<1> QED BY <1>1, <1>2, <1>3 DEF TypeOK

\* Nobody runs at the start.
LEMMA TypeInit == Init => TypeOK
  BY DaemonLifeAssumption DEF Init, TypeOK, Connected

\* The steps of a daemon.
LEMMA TypeDaemon ==
    ASSUME TypeOK, NEW d \in Daemons,
           \/ DaemonStep(d) \/ Start(d) \/ ListenFails(d)
           \/ AcceptFails(d) \/ Drop(d) \/ Interrupt(d)
    PROVE  TypeOK'
<1>1. CASE Start(d)
  BY <1>1 DEF Start, TypeOK, Starting
<1>2. CASE RemoveOld(d)
  BY <1>2 DEF RemoveOld, commands, TypeOK, Starting
<1>3. CASE Bind(d)
  BY <1>3 DEF Bind, commands, TypeOK, Starting
<1>4. CASE BindFails(d)
  BY <1>4 DEF BindFails, commands, TypeOK, Starting
<1>5. CASE Listen(d)
  BY <1>5 DEF Listen, commands, TypeOK, Starting
<1>6. CASE LeaveLoop(d)
  <2>1. killed' \subseteq Daemons /\ LoopEnds(d, "leaving")
    BY <1>6 DEF LeaveLoop, TypeOK
  <2> QED BY <2>1, LoopEndsTyped
<1>7. CASE AcceptFails(d)
  <2>1. killed' \subseteq Daemons
    BY <1>7 DEF AcceptFails, TypeOK
  <2>2. LoopEnds(d, "leaving") \/ LoopEnds(d, "exiting")
    BY <1>7 DEF AcceptFails
  <2> QED BY <2>1, <2>2, LoopEndsTyped
<1>8. CASE RemoveOwn(d)
  BY <1>8 DEF RemoveOwn, commands, TypeOK, Starting
<1>9. CASE Exit(d)
  <2>1. killed' \subseteq Daemons /\ file' \in Daemons \cup {NoDaemon} /\ End(d)
    BY <1>9 DEF Exit, TypeOK
  <2> QED BY <2>1, EndTyped
<1>10. CASE Drop(d)
  BY <1>10 DEF Drop, commands, TypeOK, Starting
<1>11. CASE Interrupt(d)
  <2>1. killed' \subseteq Daemons /\ file' \in Daemons \cup {NoDaemon} /\ End(d)
    BY <1>11 DEF Interrupt, TypeOK
  <2> QED BY <2>1, EndTyped
<1>12. CASE ListenFails(d)
  <2>1. killed' \subseteq Daemons /\ file' \in Daemons \cup {NoDaemon} /\ End(d)
    BY <1>12 DEF ListenFails, TypeOK
  <2> QED BY <2>1, EndTyped
<1> QED BY <1>1, <1>2, <1>3, <1>4, <1>5, <1>6, <1>7, <1>8, <1>9, <1>10, <1>11, <1>12
    DEF DaemonStep

\* The steps of a command.
LEMMA TypeCommand ==
    ASSUME TypeOK, NEW c \in Commands, CommandStep(c) \/ Connect(c)
    PROVE  TypeOK'
<1> USE DaemonLifeAssumption DEF daemons, Connected
<1>1. CASE Connect(c)
  <2>1. CASE \E d \in Daemons : /\ pc' = [pc EXCEPT ![c] = "asked"]
                                /\ target' = [target EXCEPT ![c] = d]
    BY <1>1, <2>1 DEF Connect, TypeOK
  <2>2. CASE pc' = [pc EXCEPT ![c] = "refused"] /\ UNCHANGED target
    BY <1>1, <2>2 DEF Connect, TypeOK
  <2> QED BY <1>1, <2>1, <2>2 DEF Connect
<1>2. CASE RemoveStale(c)
  BY <1>2 DEF RemoveStale, TypeOK
<1>3. CASE Accept(c)
  BY <1>3 DEF Accept, TypeOK
<1>4. CASE Shutdown(c)
  BY <1>4 DEF Shutdown, TypeOK
<1>5. CASE Answer(c)
  BY <1>5 DEF Answer, TypeOK
<1>6. CASE Fails(c)
  BY <1>6 DEF Fails, TypeOK
<1> QED BY <1>1, <1>2, <1>3, <1>4, <1>5, <1>6 DEF CommandStep

\* Every step keeps the types.
LEMMA TypeStep == TypeOK /\ [Next]_vars => TypeOK'
<1> SUFFICES ASSUME TypeOK, [Next]_vars PROVE TypeOK'
  OBVIOUS
<1>1. CASE UNCHANGED vars
  BY <1>1 DEF vars, TypeOK
<1> QED BY <1>1, TypeDaemon, TypeCommand DEF Next

\* Every reachable state is well typed: a command is connected to a daemon exactly
\* when it waits for one.
THEOREM TypeCorrect == Spec => []TypeOK
  BY TypeInit, TypeStep, PTL DEF Spec
-----------------------------------------------------------------------------
(***************************************************************************)
(* No file is left behind.                                                 *)
(***************************************************************************)
\* A daemon that is about to bind has no file, and one that is about to exit has
\* removed it, unless it was not told to.
LeftInv ==
    \A d \in Daemons :
       /\ daemon[d] = "binding" => file # d
       /\ daemon[d] = "exiting" /\ file = d => d \in killed
       /\ Off(d) /\ file = d => d \in killed

\* The steps of a daemon e.
LEMMA LeftDaemon ==
    ASSUME TypeOK, LeftInv, NEW e \in Daemons,
           \/ DaemonStep(e) \/ Start(e) \/ ListenFails(e)
           \/ AcceptFails(e) \/ Drop(e) \/ Interrupt(e)
    PROVE  LeftInv'
<1> USE DaemonLifeAssumption DEF LeftInv, Off
<1>1. CASE Start(e)
  BY <1>1 DEF Start, TypeOK
<1>2. CASE RemoveOld(e)
  BY <1>2 DEF RemoveOld, TypeOK
<1>3. CASE Bind(e)
  BY <1>3 DEF Bind, TypeOK
<1>4. CASE BindFails(e)
  BY <1>4 DEF BindFails, TypeOK
<1>5. CASE Listen(e)
  BY <1>5 DEF Listen, TypeOK
<1>6. CASE LeaveLoop(e)
  BY <1>6 DEF LeaveLoop, LoopEnds, TypeOK
<1>7. CASE AcceptFails(e)
  BY <1>7 DEF AcceptFails, LoopEnds, TypeOK
<1>8. CASE RemoveOwn(e)
  BY <1>8 DEF RemoveOwn, TypeOK
<1>9. CASE Exit(e)
  BY <1>9 DEF Exit, End, TypeOK
<1>10. CASE Drop(e)
  BY <1>10 DEF Drop, TypeOK
<1>11. CASE Interrupt(e)
  BY <1>11 DEF Interrupt, End, TypeOK
<1>12. CASE ListenFails(e)
  BY <1>12 DEF ListenFails, End, TypeOK
<1> QED BY <1>1, <1>2, <1>3, <1>4, <1>5, <1>6, <1>7, <1>8, <1>9, <1>10, <1>11, <1>12
    DEF DaemonStep

\* A command may remove a file, and never makes one.
LEMMA CommandKeeps ==
    ASSUME NEW c \in Commands, CommandStep(c) \/ Connect(c)
    PROVE  UNCHANGED <<scene, daemon, killed>> /\ file' \in {file, NoDaemon}
  BY DEF CommandStep, Connect, RemoveStale, Accept, Shutdown, Answer, Fails, daemons

\* Every step keeps it.
LEMMA LeftStep == TypeOK /\ LeftInv /\ [Next]_vars => LeftInv'
<1> SUFFICES ASSUME TypeOK, LeftInv, [Next]_vars PROVE LeftInv'
  OBVIOUS
<1>1. CASE UNCHANGED vars
  BY <1>1 DEF vars, LeftInv, Off
<1>2. ASSUME NEW c \in Commands, CommandStep(c) \/ Connect(c) PROVE LeftInv'
  BY <1>2, CommandKeeps, DaemonLifeAssumption DEF LeftInv, Off
<1> QED BY <1>1, <1>2, LeftDaemon DEF Next

\* A daemon that ends by itself, or because it is told to, never leaves its socket
\* file behind, whatever other daemons and commands do at the same time.
THEOREM CleansUpAlways == Spec => []CleansUp
<1>1. Init => LeftInv
  BY DaemonLifeAssumption DEF Init, LeftInv, Off
<1>2. LeftInv => CleansUp
  BY DEF LeftInv, CleansUp
<1> QED BY <1>1, <1>2, TypeInit, TypeStep, LeftStep, PTL DEF Spec
-----------------------------------------------------------------------------
(***************************************************************************)
(* Daemons that follow each other.                                         *)
(***************************************************************************)
\* One daemon at a time; while it listens and serves the file is its own; and
\* while a command is about to remove the file, no daemon needs it.
OneByOne ==
    /\ \A d, e \in Daemons : d # e => Off(d) \/ Off(e)
    /\ \A d \in Daemons : daemon[d] \in {"listening", "serving", "closing"} => file = d
    /\ \A d \in Daemons : daemon[d] = "binding" => file = NoDaemon
    /\ \A c \in Commands : pc[c] = "refused" =>
          \A d \in Daemons : daemon[d] \in {"off", "ended", "leaving", "exiting"}

ApartInv == scene.starts = "apart" => OneByOne

\* A daemon's step changes no other daemon, and refuses no command.
LEMMA OthersKept ==
    ASSUME TypeOK, NEW d \in Daemons,
           \/ DaemonStep(d) \/ Start(d) \/ ListenFails(d)
           \/ AcceptFails(d) \/ Drop(d) \/ Interrupt(d)
    PROVE  /\ scene' = scene
           /\ \A e \in Daemons \ {d} : daemon'[e] = daemon[e]
           /\ \A c \in Commands : pc'[c] = "refused" => pc[c] = "refused"
<1>1. \A e \in Daemons \ {d} : daemon'[e] = daemon[e]
  BY DEF DaemonStep, Start, ListenFails, AcceptFails, Drop, Interrupt, RemoveOld, Bind, BindFails,
         Listen, LeaveLoop, LoopEnds, RemoveOwn, Exit, End, TypeOK
<1>2. UNCHANGED <<scene, pc>> \/ \E S : Disconnect(d, S) /\ UNCHANGED scene
  BY DEF DaemonStep, Start, ListenFails, AcceptFails, Drop, Interrupt, RemoveOld, Bind, BindFails,
         Listen, LeaveLoop, LoopEnds, RemoveOwn, Exit, End, commands
<1> QED BY <1>1, <1>2 DEF Disconnect

\* The steps of a daemon, while the others are off.
LEMMA ApartDaemon ==
    ASSUME TypeOK, OneByOne, scene.starts = "apart", NEW d \in Daemons,
           \/ DaemonStep(d) \/ Start(d) \/ ListenFails(d)
           \/ AcceptFails(d) \/ Drop(d) \/ Interrupt(d)
    PROVE  OneByOne'
<1>1. \A e \in Daemons \ {d} : Off(e) /\ Off(e)'
  BY OthersKept DEF OneByOne, Off, DaemonStep, Start, MayStart, ListenFails,
     AcceptFails, Drop, Interrupt, RemoveOld, Bind, BindFails, Listen, LeaveLoop, Serving,
     RemoveOwn, Exit
<1>2. \A e, f \in Daemons : e # f => Off(e)' \/ Off(f)'
  BY <1>1
<1>3. SUFFICES /\ daemon'[d] \in {"listening", "serving", "closing"} => file' = d
               /\ daemon'[d] = "binding" => file' = NoDaemon
               /\ \A c \in Commands : pc[c] = "refused" =>
                     daemon'[d] \in {"off", "ended", "leaving", "exiting"}
  BY <1>1, <1>2, <1>3, OthersKept DEF OneByOne, Off
<1>4. CASE Start(d)
  BY <1>4 DEF Start, MayStart, TypeOK
<1>5. CASE RemoveOld(d)
  BY <1>5 DEF RemoveOld, TypeOK, OneByOne
<1>6. CASE Bind(d)
  BY <1>6 DEF Bind, TypeOK, OneByOne
<1>7. CASE BindFails(d)
  BY <1>7 DEF BindFails, TypeOK, OneByOne
<1>8. CASE Listen(d)
  BY <1>8 DEF Listen, TypeOK, OneByOne
<1>9. CASE LeaveLoop(d)
  BY <1>9 DEF LeaveLoop, LoopEnds, TypeOK, OneByOne
<1>10. CASE AcceptFails(d)
  BY <1>10 DEF AcceptFails, LoopEnds, TypeOK, OneByOne
<1>11. CASE RemoveOwn(d)
  BY <1>11 DEF RemoveOwn, TypeOK, OneByOne
<1>12. CASE Exit(d)
  BY <1>12 DEF Exit, End, TypeOK, OneByOne
<1>13. CASE Drop(d)
  BY <1>13 DEF Drop, TypeOK, OneByOne
<1>14. CASE Interrupt(d)
  BY <1>14 DEF Interrupt, End, TypeOK, OneByOne
<1>15. CASE ListenFails(d)
  BY <1>15 DEF ListenFails, End, TypeOK, OneByOne
<1> QED BY <1>4, <1>5, <1>6, <1>7, <1>8, <1>9, <1>10, <1>11, <1>12, <1>13, <1>14, <1>15
    DEF DaemonStep

\* A command finds no daemon only when none serves and none is starting.
LEMMA ApartCommand ==
    ASSUME TypeOK, OneByOne, scene.starts = "apart", NEW c \in Commands,
           CommandStep(c) \/ Connect(c)
    PROVE  OneByOne'
<1>1. UNCHANGED <<scene, daemon>>
  BY CommandKeeps
<1>2. CASE Connect(c)
  <2>1. pc'[c] = "refused" =>
           \A d \in Daemons : daemon[d] \in {"off", "ended", "leaving", "exiting"}
    BY <1>2 DEF Connect, MayStop, Reached, Serving, Starting, TypeOK, OneByOne
  <2>2. \A b \in Commands \ {c} : pc'[b] = pc[b]
    BY <1>2 DEF Connect, TypeOK
  <2>3. file' = file
    BY <1>2 DEF Connect
  <2> QED BY <1>1, <2>1, <2>2, <2>3 DEF OneByOne, Off
<1>3. CASE RemoveStale(c)
  BY <1>1, <1>3 DEF RemoveStale, OneByOne, Off, TypeOK
<1>4. CASE Accept(c)
  BY <1>1, <1>4 DEF Accept, OneByOne, Off, TypeOK
<1>5. CASE Shutdown(c)
  BY <1>1, <1>5 DEF Shutdown, OneByOne, Off, TypeOK
<1>6. CASE Answer(c)
  BY <1>1, <1>6 DEF Answer, OneByOne, Off, TypeOK
<1>7. CASE Fails(c)
  BY <1>1, <1>7 DEF Fails, OneByOne, Off, TypeOK
<1> QED BY <1>2, <1>3, <1>4, <1>5, <1>6, <1>7 DEF CommandStep

\* Every step keeps it.
LEMMA ApartStep == TypeOK /\ ApartInv /\ [Next]_vars => ApartInv'
<1> SUFFICES ASSUME TypeOK, ApartInv, [Next]_vars, scene'.starts = "apart" PROVE OneByOne'
  BY DEF ApartInv
<1>1. CASE UNCHANGED vars
  BY <1>1 DEF vars, ApartInv, OneByOne, Off
<1>2. scene' = scene
  BY <1>1, OthersKept, CommandKeeps DEF Next, vars
<1> QED BY <1>1, <1>2, ApartDaemon, ApartCommand DEF Next, ApartInv

\* The first daemon is still to come.
LEMMA ApartInit == Init => ApartInv
  BY DEF Init, ApartInv, OneByOne, Off

\* A daemon that serves is the one its clients reach, when daemons follow each other.
THEOREM ReachableAlways == Spec => []Reachable
<1>1. ApartInv => Reachable
  BY DEF ApartInv, OneByOne, Reachable, Serving
<1> QED BY <1>1, TypeInit, TypeStep, ApartInit, ApartStep, PTL DEF Spec

\* The path is free when a daemon binds it, whatever earlier ones have left there.
THEOREM FreePathAlways == Spec => []FreePath
<1>1. ApartInv => FreePath
  BY DEF ApartInv, OneByOne, FreePath
<1> QED BY <1>1, TypeInit, TypeStep, ApartInit, ApartStep, PTL DEF Spec

-----------------------------------------------------------------------------
(***************************************************************************)
(* Launcher: type correctness.                                             *)
(***************************************************************************)
\* A file that is open for writing is there: under its temporary name, in the
\* cache, or without a name.
OpenFiles ==
    \A t \in Threads :
       /\ fd[t] # "none" => stage[t] = "write"
       /\ fd[t] = "tmp" => tmp[Pid(t)] # NoFile
       /\ fd[t] = "lib" => lib # NoFile

LaunchInv == LaunchTypeOK /\ OpenFiles

\* A process number stands for the thread's own process or that of the callers.
LEMMA PidTyped ==
    ASSUME NEW t \in Threads
    PROVE  Pid(t) \in Pids
  BY DEF Pid, Pids

\* No chunks are not the same as no file.
LEMMA NoFileIsNoFile == NoFile \notin SUBSET Chunks
  BY LauncherAssumption DEF Chunks

\* Only a new request changes which process a thread extracts from.
LEMMA PidKept ==
    ASSUME NEW t \in Threads, setting' = setting, asked'[t] = asked[t]
    PROVE  Pid(t)' = Pid(t)
  BY DEF Pid, Supervised, HasSocket, HasStandalone

\* Nothing is being written at the start.
LEMMA LaunchTypeInit == LaunchInit => LaunchInv
<1> SUFFICES ASSUME LaunchInit PROVE LaunchInv
  OBVIOUS
<1>1. 1 \in Chunks
  BY LauncherAssumption DEF Chunks
<1>2. LaunchTypeOK
  BY <1>1 DEF LaunchInit, LaunchTypeOK, Requests
<1>3. OpenFiles
  BY DEF LaunchInit, OpenFiles
<1> QED BY <1>2, <1>3 DEF LaunchInv

\* A thread moves on and writes nothing.
LEMMA LaunchTypeMoves ==
    ASSUME LaunchInv, NEW t \in Threads, stage[t] # "write",
           NEW to \in {"idle", "look", "open", "begin", "running"},
           stage' = [stage EXCEPT ![t] = to], UNCHANGED <<setting, asked, lib, tmp, fd, at>>
    PROVE  LaunchInv'
<1>1. LaunchTypeOK'
  BY DEF LaunchInv, LaunchTypeOK
<1>2. ASSUME NEW s \in Threads
      PROVE  /\ fd'[s] # "none" => stage'[s] = "write"
             /\ fd'[s] = "tmp" => tmp'[Pid(s)'] # NoFile
             /\ fd'[s] = "lib" => lib' # NoFile
  <2>1. Pid(s)' = Pid(s)
    BY PidKept
  <2>2. stage'[s] = stage[s] \/ (s = t /\ fd[s] = "none")
    BY DEF LaunchInv, LaunchTypeOK, OpenFiles
  <2> QED BY <2>1, <2>2 DEF LaunchInv, OpenFiles
<1> QED BY <1>1, <1>2 DEF LaunchInv, OpenFiles

\* Every step keeps what is open consistent with where it is.
LEMMA LaunchTypeStep == LaunchInv /\ [LaunchNext]_launchVars => LaunchInv'
<1> SUFFICES ASSUME LaunchInv, [LaunchNext]_launchVars PROVE LaunchInv'
  OBVIOUS
<1> USE DEF LaunchInv
<1>1. CASE UNCHANGED launchVars
  BY <1>1 DEF launchVars, LaunchTypeOK, OpenFiles, Pid, Supervised, HasSocket, HasStandalone
<1>2. ASSUME NEW t \in Threads, NEW r \in Requests, Ask(t, r) PROVE LaunchInv'
  <2>1. LaunchTypeOK'
    BY <1>2 DEF Ask, LaunchTypeOK
  <2>2. ASSUME NEW s \in Threads, fd[s] # "none" PROVE s # t /\ asked'[s] = asked[s]
    BY <1>2, <2>2 DEF Ask, LaunchTypeOK, OpenFiles
  <2>3. OpenFiles'
    BY <1>2, <2>2, PidKept DEF Ask, LaunchTypeOK, OpenFiles
  <2> QED BY <2>1, <2>3
<1>3. ASSUME NEW t \in Threads, Look(t) PROVE LaunchInv'
  BY <1>3, LaunchTypeMoves DEF Look
<1>4. ASSUME NEW t \in Threads, Open(t) PROVE LaunchInv'
  <2>0. 1 \in Chunks /\ {} # NoFile /\ Pid(t) \in Pids
    BY NoFileIsNoFile, PidTyped, LauncherAssumption DEF Chunks
  <2>1. LaunchTypeOK'
    BY <1>4, <2>0 DEF Open, LaunchTypeOK
  <2>2. ASSUME NEW s \in Threads
        PROVE  /\ fd'[s] # "none" => stage'[s] = "write"
               /\ fd'[s] = "tmp" => tmp'[Pid(s)'] # NoFile
               /\ fd'[s] = "lib" => lib' # NoFile
    <3>1. Pid(s)' = Pid(s) /\ Pid(s) \in Pids
      BY <1>4, PidKept, PidTyped DEF Open
    <3>2. tmp'[Pid(s)] = IF Pid(s) = Pid(t) THEN {} ELSE tmp[Pid(s)]
      BY <1>4, <2>0, <3>1 DEF Open, LaunchTypeOK
    <3>3. CASE s = t
      BY <1>4, <2>0, <3>1, <3>2, <3>3 DEF Open, LaunchTypeOK
    <3>4. CASE s # t
      BY <1>4, <2>0, <3>1, <3>2, <3>4 DEF Open, LaunchTypeOK, OpenFiles
    <3> QED BY <3>3, <3>4
  <2> QED BY <2>1, <2>2 DEF OpenFiles
<1>5. ASSUME NEW t \in Threads, Write(t) PROVE LaunchInv'
  <2>0. Pid(t) \in Pids /\ at[t] \in Chunks
    BY PidTyped DEF LaunchTypeOK
  <2>1. at' \in [Threads -> Chunks]
    BY <1>5, LauncherAssumption DEF Write, LaunchTypeOK, Chunks
  <2>2. fd[t] = "tmp" => tmp[Pid(t)] \in SUBSET Chunks
    BY <2>0 DEF LaunchTypeOK, OpenFiles
  <2>3. tmp' \in [Pids -> (SUBSET Chunks) \cup {NoFile}]
    <3>1. CASE fd[t] = "tmp"
      BY <1>5, <2>0, <2>2, <3>1 DEF Write, LaunchTypeOK
    <3> QED BY <1>5, <3>1 DEF Write, LaunchTypeOK
  <2>4. lib' \in (SUBSET Chunks) \cup {NoFile}
    BY <1>5, <2>0 DEF Write, LaunchTypeOK, OpenFiles
  <2>5. LaunchTypeOK'
    BY <1>5, <2>1, <2>3, <2>4 DEF Write, LaunchTypeOK
  <2>6. ASSUME NEW s \in Threads
        PROVE  /\ fd'[s] # "none" => stage'[s] = "write"
               /\ fd'[s] = "tmp" => tmp'[Pid(s)'] # NoFile
               /\ fd'[s] = "lib" => lib' # NoFile
    <3>1. Pid(s)' = Pid(s) /\ Pid(s) \in Pids
      BY <1>5, PidKept, PidTyped DEF Write
    <3>2. (fd'[s] = fd[s] /\ stage'[s] = stage[s]) \/ fd'[s] = "none"
      BY <1>5 DEF Write, LaunchTypeOK
    <3>3. tmp[Pid(s)] # NoFile => tmp'[Pid(s)] # NoFile
      <4>1. tmp[Pid(s)] \cup {at[t]} # NoFile \/ fd[t] # "tmp" \/ Pid(s) # Pid(t)
        BY <2>0, <2>2, NoFileIsNoFile
      <4> QED BY <1>5, <2>0, <3>1, <4>1 DEF Write, LaunchTypeOK
    <3>4. lib # NoFile => lib' # NoFile
      <4>1. lib # NoFile => lib \cup {at[t]} # NoFile
        BY <2>0, NoFileIsNoFile DEF LaunchTypeOK
      <4> QED BY <1>5, <4>1 DEF Write
    <3> QED BY <3>1, <3>2, <3>3, <3>4 DEF OpenFiles
  <2> QED BY <2>5, <2>6 DEF OpenFiles
<1>6. ASSUME NEW t \in Threads, Rename(t) PROVE LaunchInv'
  <2>1. CASE tmp[Pid(t)] # NoFile
    <3>0. Pid(t) \in Pids /\ tmp[Pid(t)] \in (SUBSET Chunks) \cup {NoFile}
      BY PidTyped DEF LaunchTypeOK
    <3>1. /\ lib' = tmp[Pid(t)] /\ tmp' = [tmp EXCEPT ![Pid(t)] = NoFile]
          /\ fd' = Renamed(Pid(t)) /\ stage' = [stage EXCEPT ![t] = "begin"]
          /\ UNCHANGED <<setting, asked, at>>
      BY <1>6, <2>1 DEF Rename
    <3>2. fd' \in [Threads -> {"none", "tmp", "lib", "gone"}]
      BY <3>1 DEF Renamed, LaunchTypeOK
    <3>3. LaunchTypeOK'
      BY <3>0, <3>1, <3>2 DEF LaunchTypeOK
    <3>4. ASSUME NEW s \in Threads
          PROVE  /\ fd'[s] # "none" => stage'[s] = "write"
                 /\ fd'[s] = "tmp" => tmp'[Pid(s)'] # NoFile
                 /\ fd'[s] = "lib" => lib' # NoFile
      <4>1. Pid(s)' = Pid(s) /\ Pid(s) \in Pids
        BY <3>1, PidKept, PidTyped
      <4>2. fd'[s] = IF fd[s] = "tmp" /\ Pid(s) = Pid(t) THEN "lib"
                     ELSE IF fd[s] = "lib" THEN "gone" ELSE fd[s]
        BY <3>1 DEF Renamed
      <4>3. fd'[s] # "none" => stage'[s] = "write"
        BY <1>6, <3>1, <4>2 DEF Rename, LaunchTypeOK, OpenFiles
      <4>4. fd'[s] = "tmp" => fd[s] = "tmp" /\ Pid(s) # Pid(t)
        BY <4>2
      <4>5. fd'[s] = "tmp" => tmp'[Pid(s)'] # NoFile
        BY <3>1, <4>1, <4>4 DEF LaunchTypeOK, OpenFiles
      <4> QED BY <2>1, <3>1, <4>3, <4>5
    <3> QED BY <3>3, <3>4 DEF OpenFiles
  <2>2. CASE tmp[Pid(t)] = NoFile
    BY <1>6, <2>2, LaunchTypeMoves DEF Rename
  <2> QED BY <2>1, <2>2
<1>7. ASSUME NEW t \in Threads, StartCommand(t) PROVE LaunchInv'
  BY <1>7, LaunchTypeMoves DEF StartCommand
<1>8. ASSUME NEW t \in Threads, Kill(t) PROVE LaunchInv'
  <2>0. 1 \in Chunks
    BY LauncherAssumption DEF Chunks
  <2>1. LaunchTypeOK'
    BY <1>8, <2>0 DEF Kill, LaunchTypeOK
  <2>2. ASSUME NEW s \in Threads
        PROVE  /\ Pid(s)' = Pid(s)
               /\ fd'[s] = "none" \/ (fd'[s] = fd[s] /\ stage'[s] = stage[s])
    BY <1>8, PidKept DEF Kill
  <2>3. OpenFiles'
    BY <1>8, <2>2 DEF Kill, OpenFiles
  <2> QED BY <2>1, <2>3
<1>9. ASSUME NEW t \in Threads, EndCommand(t) PROVE LaunchInv'
  BY <1>9, LaunchTypeMoves DEF EndCommand
<1> QED BY <1>1, <1>2, <1>3, <1>4, <1>5, <1>6, <1>7, <1>8, <1>9 DEF LaunchNext, Step

\* Every reachable state is well typed: what a thread writes is a file that is
\* there, wherever it has been renamed to in the meantime.
THEOREM LaunchTypeCorrect == LaunchSpec => []LaunchTypeOK
<1>1. LaunchInv => LaunchTypeOK
  BY DEF LaunchInv
<1> QED BY LaunchTypeInit, LaunchTypeStep, <1>1, PTL DEF LaunchSpec
-----------------------------------------------------------------------------
(***************************************************************************)
(* The library is whole, when no two threads launch from one process.      *)
(***************************************************************************)
\* Threads of one process are launched by supervisors, which are processes of
\* their own: they ask for sessions, and are not told to join another.
Separate(s) ==
    s.together => s.requests \subseteq {"session"} /\ s.outer \in {"none", "shm"}

\* Every thread has a temporary file of its own, which holds what it has written.
OwnPid == \A t \in Threads : Pid(t) = t

Written ==
    \A t \in Threads :
       /\ stage[t] # "write" => fd[t] = "none"
       /\ stage[t] = "write" => fd[t] = "tmp" /\ tmp[t] = {c \in Chunks : c < at[t]}
       /\ stage[t] = "rename" => tmp[t] = Chunks

WholeInv ==
    /\ LaunchTypeOK
    /\ Separate(setting)
    /\ setting.together => \A t \in Threads : asked[t] = "session"
    /\ Written
    /\ Complete

\* A supervisor is named by the thread it works for.
LEMMA PidsApart == LaunchTypeOK /\ WholeInv => OwnPid
  BY DEF WholeInv, Separate, OwnPid, Pid, Supervised, HasSocket, HasStandalone

\* At the start there is no library.
LEMMA WholeInit ==
    ASSUME \A s \in Settings : Separate(s)
    PROVE  LaunchInit => WholeInv
  BY LaunchTypeInit DEF LaunchInit, LaunchInv, WholeInv, Written, Complete

\* A thread moves on, with its file written when it goes on to the renaming.
LEMMA WholeMoves ==
    ASSUME WholeInv, LaunchTypeOK', NEW t \in Threads, stage[t] # "write",
           NEW to \in {"idle", "look", "open", "begin", "running"},
           stage' = [stage EXCEPT ![t] = to], UNCHANGED <<setting, asked, lib, tmp, fd, at>>
    PROVE  WholeInv'
<1>1. Written'
  <2>1. ASSUME NEW s \in Threads, s # t PROVE stage'[s] = stage[s]
    BY <2>1 DEF WholeInv, LaunchTypeOK
  <2>2. stage'[t] = to
    BY DEF WholeInv, LaunchTypeOK
  <2> QED BY <2>1, <2>2 DEF WholeInv, Written
<1> QED BY <1>1 DEF WholeInv, Separate, Complete

\* Every step keeps the library whole, and every temporary file its writer's.
LEMMA WholeStep ==
    LaunchInv /\ LaunchInv' /\ WholeInv /\ [LaunchNext]_launchVars => WholeInv'
<1> SUFFICES ASSUME LaunchInv, LaunchInv', WholeInv, [LaunchNext]_launchVars PROVE WholeInv'
  OBVIOUS
<1>0. LaunchTypeOK /\ LaunchTypeOK' /\ OwnPid
  BY PidsApart DEF LaunchInv
<1>p. Threads \subseteq Pids
  BY DEF Pids
<1>1. CASE UNCHANGED launchVars
  BY <1>0, <1>1 DEF launchVars, WholeInv, Separate, Written, Complete
<1>2. ASSUME NEW t \in Threads, NEW r \in Requests, Ask(t, r) PROVE WholeInv'
  <2>1. Written'
    BY <1>0, <1>2 DEF Ask, LaunchTypeOK, WholeInv, Written
  <2>2. setting.together => \A s \in Threads : asked'[s] = "session"
    BY <1>0, <1>2 DEF Ask, LaunchTypeOK, WholeInv, Separate
  <2> QED BY <1>0, <1>2, <2>1, <2>2 DEF Ask, WholeInv, Separate, Complete
<1>3. ASSUME NEW t \in Threads, Look(t) PROVE WholeInv'
  BY <1>0, <1>3, WholeMoves DEF Look
<1>4. ASSUME NEW t \in Threads, Open(t) PROVE WholeInv'
  <2>1. {c \in Chunks : c < 1} = {}
    BY DEF Chunks
  <2>2. /\ stage' = [stage EXCEPT ![t] = "write"] /\ tmp' = [tmp EXCEPT ![t] = {}]
        /\ fd' = [fd EXCEPT ![t] = "tmp"] /\ at' = [at EXCEPT ![t] = 1]
        /\ UNCHANGED <<setting, asked, lib>>
    BY <1>0, <1>4 DEF Open, OwnPid
  <2>3. ASSUME NEW s \in Threads
        PROVE  /\ stage'[s] # "write" => fd'[s] = "none"
               /\ stage'[s] = "write" => fd'[s] = "tmp" /\ tmp'[s] = {c \in Chunks : c < at'[s]}
               /\ stage'[s] = "rename" => tmp'[s] = Chunks
    <3>1. CASE s = t
      BY <1>0, <1>p, <2>1, <2>2, <3>1 DEF LaunchTypeOK
    <3>2. CASE s # t
      BY <1>0, <1>p, <2>2, <3>2 DEF LaunchTypeOK, WholeInv, Written
    <3> QED BY <3>1, <3>2
  <2>4. Written'
    BY <2>3 DEF Written, Chunks
  <2> QED BY <1>0, <2>2, <2>4 DEF WholeInv, Separate, Complete
<1>5. ASSUME NEW t \in Threads, Write(t) PROVE WholeInv'
  <2>1. /\ stage[t] = "write" /\ fd[t] = "tmp" /\ at[t] \in Chunks
        /\ tmp[t] = {c \in Chunks : c < at[t]}
    BY <1>0, <1>5 DEF Write, WholeInv, Written, LaunchTypeOK
  <2>2. tmp' = [tmp EXCEPT ![t] = @ \cup {at[t]}] /\ UNCHANGED <<setting, asked, lib>>
    BY <1>0, <1>5, <2>1 DEF Write, OwnPid
  <2>3. tmp'[t] = {c \in Chunks : c < at[t] + 1}
    <3>1. tmp'[t] = {c \in Chunks : c < at[t]} \cup {at[t]}
      BY <1>0, <1>p, <2>1, <2>2 DEF LaunchTypeOK
    <3>2. \A c \in Chunks : c < at[t] + 1 <=> c < at[t] \/ c = at[t]
      BY <2>1, LauncherAssumption DEF Chunks
    <3> QED BY <2>1, <3>1, <3>2
  <2>4. ASSUME NEW s \in Threads, s # t
        PROVE  stage'[s] = stage[s] /\ fd'[s] = fd[s] /\ tmp'[s] = tmp[s] /\ at'[s] = at[s]
    BY <1>0, <1>p, <1>5, <2>2, <2>4 DEF Write, LaunchTypeOK
  <2>5. /\ stage'[t] # "write" => fd'[t] = "none"
        /\ stage'[t] = "write" => fd'[t] = "tmp" /\ tmp'[t] = {c \in Chunks : c < at'[t]}
        /\ stage'[t] = "rename" => tmp'[t] = Chunks
    <3>1. CASE at[t] = Last
      <4>1. stage'[t] = "rename" /\ fd'[t] = "none"
        BY <1>0, <1>5, <3>1 DEF Write, LaunchTypeOK
      <4>2. \A c \in Chunks : c < at[t] + 1
        BY <3>1, LauncherAssumption DEF Chunks
      <4> QED BY <2>3, <4>1, <4>2
    <3>2. CASE at[t] # Last
      <4>1. stage'[t] = "write" /\ fd'[t] = "tmp" /\ at'[t] = at[t] + 1
        BY <1>0, <1>5, <2>1, <3>2 DEF Write, LaunchTypeOK
      <4> QED BY <2>3, <4>1
    <3> QED BY <3>1, <3>2
  <2>6. Written'
    BY <2>4, <2>5 DEF WholeInv, Written, Chunks
  <2> QED BY <1>0, <2>2, <2>6 DEF WholeInv, Separate, Complete
<1>6. ASSUME NEW t \in Threads, Rename(t) PROVE WholeInv'
  <2>1. tmp[t] = Chunks /\ Chunks # NoFile /\ Pid(t) = t
    BY <1>0, <1>6, NoFileIsNoFile DEF Rename, WholeInv, Written, OwnPid
  <2>2. /\ lib' = Chunks /\ tmp' = [tmp EXCEPT ![t] = NoFile]
        /\ fd' = Renamed(t) /\ stage' = [stage EXCEPT ![t] = "begin"]
        /\ UNCHANGED <<setting, asked, at>>
    BY <1>6, <2>1 DEF Rename
  <2>3. ASSUME NEW s \in Threads PROVE fd'[s] = fd[s]
    BY <1>0, <1>6, <2>2 DEF Rename, Renamed, OwnPid, WholeInv, Written
  <2>4. ASSUME NEW s \in Threads, s # t PROVE stage'[s] = stage[s] /\ tmp'[s] = tmp[s]
    BY <1>0, <1>p, <2>2, <2>4 DEF LaunchTypeOK
  <2>5. stage'[t] = "begin" /\ fd[t] = "none"
    BY <1>0, <1>6, <2>2 DEF LaunchTypeOK, Rename, WholeInv, Written
  <2>6. Written'
    BY <2>2, <2>3, <2>4, <2>5 DEF WholeInv, Written
  <2> QED BY <1>0, <2>2, <2>6 DEF WholeInv, Separate, Complete
<1>7. ASSUME NEW t \in Threads, StartCommand(t) PROVE WholeInv'
  BY <1>0, <1>7, WholeMoves DEF StartCommand
<1>8. ASSUME NEW t \in Threads, Kill(t) PROVE WholeInv'
  <2>1. ASSUME NEW s \in Threads
        PROVE  \/ stage'[s] = "idle" /\ fd'[s] = "none"
               \/ stage'[s] = stage[s] /\ fd'[s] = fd[s] /\ at'[s] = at[s]
    BY <1>8 DEF Kill
  <2>2. UNCHANGED <<setting, asked, lib, tmp>>
    BY <1>8 DEF Kill
  <2>3. Written'
    BY <2>1, <2>2 DEF WholeInv, Written
  <2> QED BY <1>0, <2>2, <2>3 DEF WholeInv, Separate, Complete
<1>9. ASSUME NEW t \in Threads, EndCommand(t) PROVE WholeInv'
  BY <1>0, <1>9, WholeMoves DEF EndCommand
<1> QED BY <1>1, <1>2, <1>3, <1>4, <1>5, <1>6, <1>7, <1>8, <1>9 DEF LaunchNext, Step

\* Whenever there is a library in the cache it is whole, however many processes
\* extract it at the same time and wherever they are killed.
THEOREM CompleteAlways ==
    ASSUME \A s \in Settings : Separate(s)
    PROVE  LaunchSpec => []Complete
<1>1. WholeInv => Complete
  BY DEF WholeInv
<1> QED BY LaunchTypeInit, LaunchTypeStep, WholeInit, WholeStep, <1>1, PTL DEF LaunchSpec

\* What is renamed is the file of the process that renames it, and all of it.
THEOREM OwnFileAlways ==
    ASSUME \A s \in Settings : Separate(s)
    PROVE  LaunchSpec => []OwnFile
<1>1. LaunchInv /\ WholeInv => OwnFile
  BY PidsApart DEF LaunchInv, WholeInv, Written, OwnFile, OwnPid
<1> QED BY LaunchTypeInit, LaunchTypeStep, WholeInit, WholeStep, <1>1, PTL DEF LaunchSpec
-----------------------------------------------------------------------------
(***************************************************************************)
(* A command gets the backend that was asked for, where what the           *)
(* environment of the caller sets does not stand in the way of the         *)
(* request.                                                                *)
(***************************************************************************)
\* A session is only found behind the memory of an outer one if it has memory of
\* its own, and is not set up at all where a socket or standalone is set; an
\* outer socket is replaced by that of a daemon only.
Suited(s) ==
    /\ s.outer = "shm" => s.shm /\ s.requests \subseteq {"session"}
    /\ s.outer = "socket" => s.requests \subseteq {"daemon"}
    /\ s.outer = "standalone" => s.requests \subseteq {"daemon", "standalone"}

\* Who launches has asked for something the setting has requests for.
Requested == \A t \in Threads : stage[t] # "idle" => asked[t] \in setting.requests

AskedInv == LaunchTypeOK /\ Suited(setting) /\ Requested

\* What the launcher sets for a request gives it the backend of its name.
LEMMA SuitedBackend ==
    ASSUME LaunchTypeOK, Suited(setting), NEW r \in setting.requests
    PROVE  /\ r = "session" => Backend(r) = "own"
           /\ r = "daemon" => Backend(r) = "daemon"
           /\ r = "standalone" => Backend(r) = "none"
<1>0. /\ r \in {"session", "daemon", "standalone"}
      /\ setting.outer \in {"none", "shm", "socket", "standalone"}
  BY LauncherAssumption DEF LaunchTypeOK, Setting, Requests
<1>1. CASE r = "session"
  <2>1. setting.outer \in {"none", "shm"} /\ (setting.outer = "shm" => setting.shm)
    BY <1>0, <1>1 DEF Suited
  <2>2. Supervised(r)
    BY <1>1, <2>1 DEF Supervised, HasSocket, HasStandalone
  <2>3. Backend(r) = "own"
    BY <2>1, <2>2 DEF Backend, ShmFd, Socket
  <2> QED BY <1>1, <2>3
<1>2. CASE r = "daemon"
  <2>1. setting.outer # "shm"
    BY <1>2 DEF Suited
  <2>2. ~ Supervised(r)
    BY <1>2 DEF Supervised, HasSocket
  <2>3. Backend(r) = "daemon"
    BY <1>2, <2>1, <2>2 DEF Backend, ShmFd, Socket
  <2> QED BY <1>2, <2>3
<1>3. CASE r = "standalone"
  <2>1. setting.outer \in {"none", "standalone"}
    BY <1>0, <1>3 DEF Suited
  <2>2. ~ Supervised(r)
    BY <1>3 DEF Supervised, HasStandalone
  <2>3. Backend(r) = "none"
    BY <1>3, <2>1, <2>2 DEF Backend, ShmFd, Socket
  <2> QED BY <1>3, <2>3
<1> QED BY <1>0, <1>1, <1>2, <1>3

\* Nobody launches at the start.
LEMMA AskedInit ==
    ASSUME \A s \in Settings : Suited(s)
    PROVE  LaunchInit => AskedInv
  BY LaunchTypeInit DEF LaunchInit, LaunchInv, AskedInv, Requested

\* Who goes on launches what was asked for.
LEMMA AskedGoesOn ==
    ASSUME AskedInv, LaunchTypeOK', UNCHANGED <<setting, asked>>,
           \A t \in Threads : stage'[t] # "idle" => stage[t] # "idle"
    PROVE  AskedInv'
<1>1. Requested'
  BY DEF AskedInv, Requested
<1> QED BY <1>1 DEF AskedInv, Suited

LEMMA AskedMoves ==
    ASSUME AskedInv, LaunchTypeOK', UNCHANGED <<setting, asked>>, NEW t \in Threads,
           stage[t] # "idle", NEW to, stage' = [stage EXCEPT ![t] = to]
    PROVE  AskedInv'
<1>1. \A s \in Threads : stage'[s] # "idle" => stage[s] # "idle"
  BY DEF AskedInv, LaunchTypeOK
<1> QED BY <1>1, AskedGoesOn

LEMMA AskedStep ==
    LaunchInv /\ LaunchInv' /\ AskedInv /\ [LaunchNext]_launchVars => AskedInv'
<1> SUFFICES ASSUME LaunchInv, LaunchInv', AskedInv, [LaunchNext]_launchVars PROVE AskedInv'
  OBVIOUS
<1>0. LaunchTypeOK /\ LaunchTypeOK'
  BY DEF LaunchInv
<1>1. CASE UNCHANGED launchVars
  BY <1>0, <1>1, AskedGoesOn DEF launchVars
<1>2. ASSUME NEW t \in Threads, NEW r \in Requests, Ask(t, r) PROVE AskedInv'
  <2>1. Requested'
    BY <1>0, <1>2 DEF Ask, LaunchTypeOK, AskedInv, Requested
  <2> QED BY <1>0, <1>2, <2>1 DEF Ask, AskedInv, Suited
<1>3. ASSUME NEW t \in Threads, Look(t) PROVE AskedInv'
  BY <1>0, <1>3, AskedMoves DEF Look
<1>4. ASSUME NEW t \in Threads, Open(t) PROVE AskedInv'
  BY <1>0, <1>4, AskedMoves DEF Open
<1>5. ASSUME NEW t \in Threads, Write(t) PROVE AskedInv'
  <2>1. \A s \in Threads : stage'[s] # "idle" => stage[s] # "idle"
    BY <1>0, <1>5 DEF Write, LaunchTypeOK
  <2> QED BY <1>0, <1>5, <2>1, AskedGoesOn DEF Write
<1>6. ASSUME NEW t \in Threads, Rename(t) PROVE AskedInv'
  <2>1. stage[t] # "idle" /\ UNCHANGED <<setting, asked>>
    BY <1>6 DEF Rename
  <2>2. \E to \in {"begin", "idle"} : stage' = [stage EXCEPT ![t] = to]
    BY <1>6 DEF Rename
  <2> QED BY <1>0, <2>1, <2>2, AskedMoves
<1>7. ASSUME NEW t \in Threads, StartCommand(t) PROVE AskedInv'
  BY <1>0, <1>7, AskedMoves DEF StartCommand
<1>8. ASSUME NEW t \in Threads, Kill(t) PROVE AskedInv'
  <2>1. \A s \in Threads : stage'[s] # "idle" => stage[s] # "idle"
    BY <1>8 DEF Kill
  <2> QED BY <1>0, <1>8, <2>1, AskedGoesOn DEF Kill
<1>9. ASSUME NEW t \in Threads, EndCommand(t) PROVE AskedInv'
  BY <1>0, <1>9, AskedMoves DEF EndCommand
<1> QED BY <1>1, <1>2, <1>3, <1>4, <1>5, <1>6, <1>7, <1>8, <1>9 DEF LaunchNext, Step

\* A command that runs has the backend its caller asked for, whoever else launches
\* or is killed, in every environment that does not stand in the way of the request.
THEOREM AskedAlways ==
    ASSUME \A s \in Settings : Suited(s)
    PROVE  LaunchSpec => []Asked
<1>1. AskedInv => Asked
  <2> SUFFICES ASSUME AskedInv, NEW t \in Threads, stage[t] = "running"
               PROVE  Backend(asked[t]) = CASE asked[t] = "session" -> "own"
                                            [] asked[t] = "daemon" -> "daemon"
                                            [] asked[t] = "standalone" -> "none"
    BY DEF Asked
  <2>1. asked[t] \in setting.requests /\ asked[t] \in Requests
    BY DEF AskedInv, Requested, LaunchTypeOK
  <2>2. PICK r \in setting.requests : r = asked[t]
    BY <2>1
  <2>3. /\ r = "session" => Backend(r) = "own"
        /\ r = "daemon" => Backend(r) = "daemon"
        /\ r = "standalone" => Backend(r) = "none"
    BY SuitedBackend DEF AskedInv
  <2> QED BY <2>1, <2>2, <2>3 DEF Requests
<1> QED BY LaunchTypeInit, LaunchTypeStep, AskedInit, AskedStep, <1>1, PTL DEF LaunchSpec
=============================================================================
