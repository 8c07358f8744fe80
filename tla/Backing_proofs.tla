---------------------------- MODULE Backing_proofs ----------------------------
(***************************************************************************)
(* Proofs about Backing for every number of processes, keys and entries:   *)
(* what the processes of a session record is found by all of them, in      *)
(* every scene in which a copy that a process keeps cannot outlive the     *)
(* entry (Coherent).                                                       *)
(***************************************************************************)
EXTENDS Backing, FiniteSetTheorems, TLAPS

\* With a daemon, processes that remove entries run one after the other, and none
\* leaves a chown to a daemon that may end.
Coherent(s) ==
    s.backend = "daemon" =>
       /\ "remove" \in s.operations => s.running <= 1
       /\ s.dies => "chown" \notin s.operations

-----------------------------------------------------------------------------
(***************************************************************************)
(* Type correctness.                                                       *)
(***************************************************************************)
LEMMA SceneTyped ==
    ASSUME NEW s \in Scenes
    PROVE  /\ s \in Scene
           /\ s.running \in Nat
           /\ s.dies => s.running <= 1
  BY BackingAssumption DEF Scene

\* Setting the mode of an entry, or of none, gives an entry.
LEMMA ModeTyped ==
    ASSUME NEW inode \in FakeInode \cup {Absent}, NEW m \in Modes
    PROVE  [Old(inode) EXCEPT !.mode = m] \in FakeInode
<1>1. New(Current[1], Current[2]) \in FakeInode
  BY BackingAssumption, FakeInodesAssumption DEF New, FakeInode, Owners
<1>2. Old(inode) \in FakeInode
  BY <1>1 DEF Old
<1> QED BY <1>2 DEF FakeInode

\* And so does a chown.
LEMMA ChownTyped ==
    ASSUME NEW inode \in FakeInode \cup {Absent}, NEW ids \in Chowns
    PROVE  MergeChown(Old(inode), ids[1], ids[2]) \in FakeInode
<1>1. New(Current[1], Current[2]) \in FakeInode
  BY BackingAssumption, FakeInodesAssumption DEF New, FakeInode, Owners
<1>2. Old(inode) \in FakeInode
  BY <1>1 DEF Old
<1>3. ids[1] \in Ids \cup {Unchanged} /\ ids[2] \in Ids \cup {Unchanged}
  BY BackingAssumption DEF ChownIds
<1>4. Old(inode).uid \in Ids /\ Old(inode).gid \in Ids
  BY <1>2 DEF FakeInode
<1>5. IdOr(ids[1], Old(inode).uid) \in Ids /\ IdOr(ids[2], Old(inode).gid) \in Ids
  BY <1>3, <1>4 DEF IdOr
<1> QED BY <1>2, <1>5 DEF MergeChown, FakeInode

\* A lookup returns an entry or none.
LEMMA GetTyped ==
    ASSUME TypeOK, NEW p \in Procs, NEW k \in Keys
    PROVE  GetInode(p, k) \in FakeInode \cup {Absent}
  BY DEF TypeOK, Map, GetInode

\* A store changes one entry of maps.
LEMMA StoreTyped ==
    ASSUME TypeOK, NEW p \in Procs, NEW k \in Keys,
           NEW inode \in FakeInode \cup {Absent}, Store(p, k, inode)
    PROVE  session' \in Map /\ local' \in [Procs -> Map]
<1>1. [session EXCEPT ![k] = inode] \in Map
  BY DEF TypeOK, Map
<1>2. [local EXCEPT ![p][k] = inode] \in [Procs -> Map]
  BY DEF TypeOK, Map
<1> QED BY <1>1, <1>2 DEF Store, TypeOK

LEMMA TypeInit == Init => TypeOK
<1>1. Nothing \in Map
  BY DEF Nothing, Map
<1> QED BY <1>1 DEF Init, TypeOK

LEMMA TypeStep == TypeOK /\ [Next]_vars => TypeOK'
<1> SUFFICES ASSUME TypeOK, [Next]_vars PROVE TypeOK'
  OBVIOUS
<1>0. Nothing \in Map
  BY DEF Nothing, Map
<1>1. ASSUME NEW p \in Procs, NEW k \in Keys, NEW m \in Modes, UpdateInode(p, k, m)
      PROVE  TypeOK'
  <2>1. session' \in Map /\ local' \in [Procs -> Map]
    BY <1>1, GetTyped, ModeTyped, StoreTyped DEF UpdateInode, SetInode
  <2>2. truth' \in Map
    <3>1. truth[k] \in FakeInode \cup {Absent}
      BY DEF TypeOK, Map
    <3>2. [Old(truth[k]) EXCEPT !.mode = m] \in FakeInode
      BY <3>1, ModeTyped
    <3> QED BY <1>1, <3>2 DEF UpdateInode, TypeOK, Map
  <2> QED BY <1>1, <2>1, <2>2 DEF UpdateInode, TypeOK
<1>2. ASSUME NEW p \in Procs, NEW k \in Keys, NEW ids \in Chowns, RecordChown(p, k, ids)
      PROVE  TypeOK'
  <2>1. /\ MergeChown(Old(session[k]), ids[1], ids[2]) \in FakeInode
        /\ MergeChown(Old(local[p][k]), ids[1], ids[2]) \in FakeInode
        /\ MergeChown(Old(truth[k]), ids[1], ids[2]) \in FakeInode
    <3>1. /\ session[k] \in FakeInode \cup {Absent}
          /\ local[p][k] \in FakeInode \cup {Absent}
          /\ truth[k] \in FakeInode \cup {Absent}
      BY DEF TypeOK, Map
    <3> QED BY <3>1, ChownTyped
  <2>2. session' \in Map /\ local' \in [Procs -> Map] /\ truth' \in Map
    BY <1>2, <2>1 DEF RecordChown, TypeOK, Map
  <2> QED BY <1>2, <2>2 DEF RecordChown, TypeOK
<1>3. ASSUME NEW p \in Procs, NEW k \in Keys, Remove(p, k) PROVE TypeOK'
  <2>1. session' \in Map /\ local' \in [Procs -> Map]
    BY <1>3, StoreTyped DEF Remove, RemoveInode
  <2>2. truth' \in Map
    BY <1>3 DEF Remove, TypeOK, Map
  <2> QED BY <1>3, <2>1, <2>2 DEF Remove, TypeOK
<1>4. ASSUME NEW p \in Procs, Start(p) PROVE TypeOK'
  BY <1>0, <1>4 DEF Start, TypeOK
<1>5. ASSUME NEW p \in Procs, Exit(p) PROVE TypeOK'
  BY <1>0, <1>5 DEF Exit, TypeOK
<1>6. ASSUME NEW p \in Procs, NEW q \in Procs, Fork(p, q) PROVE TypeOK'
  BY <1>6 DEF Fork, TypeOK
<1>7. ASSUME DaemonEnds PROVE TypeOK'
  <2>1. truth' \in Map
    BY <1>7 DEF DaemonEnds, TypeOK, Map
  <2> QED BY <1>0, <1>7, <2>1 DEF DaemonEnds, TypeOK
<1>8. CASE UNCHANGED vars
  BY <1>8 DEF vars, TypeOK
<1> QED BY <1>1, <1>2, <1>3, <1>4, <1>5, <1>6, <1>7, <1>8 DEF Next

\* Every store holds entries, whoever keeps it.
THEOREM TypeCorrect == Spec => []TypeOK
  BY TypeInit, TypeStep, PTL DEF Spec
-----------------------------------------------------------------------------
(***************************************************************************)
(* What the stores and the copies say about each other.                    *)
(***************************************************************************)
\* The processes: one at a time where that is all the scene has, all of them with a
\* connection while the daemon runs, and a broken one only after it has ended.
Few ==
    /\ IsFiniteSet(running)
    /\ scene.running <= 1 => \A p, q \in running : p = q
    /\ up => scene.backend = "daemon" /\ \A p \in running : conn[p] = "up"
    /\ ~ up => \A p \in running : conn[p] # "up"
    /\ \A p \in running : conn[p] = "broken" => scene.dies /\ scene.backend = "daemon"

\* The table has what was recorded.
TableHas == scene.backend = "shm" => session = truth

\* So does a daemon that runs; an entry it does not have has no copy, and if it may end,
\* the one process that uses it has copies of all entries it has changed.
DaemonHas ==
    up =>
       /\ session = truth
       /\ \A p \in running, k \in Keys : session[k] = Absent => local[p][k] = Absent
       /\ scene.dies => \A p \in running, k \in Keys :
             local[p][k] = IF k \in touched THEN truth[k] ELSE Absent

\* Without table and daemon there is one process, which has all there is.
ProcessHas ==
    scene.backend # "shm" /\ ~ up =>
       /\ \A p, q \in running : p = q
       /\ \A p \in running : local[p] = truth

Inv == TypeOK /\ Few /\ TableHas /\ DaemonHas /\ ProcessHas

\* A lookup finds what was recorded, through whichever store.
LEMMA InvRecorded == Inv => Recorded
<1> SUFFICES ASSUME Inv, NEW p \in running, NEW k \in Keys
             PROVE  GetInode(p, k) = truth[k]
  BY DEF Recorded
<1>1. CASE scene.backend = "shm"
  BY <1>1 DEF Inv, TableHas, GetInode
<1>2. CASE scene.backend # "shm" /\ up
  BY <1>2 DEF Inv, Few, DaemonHas, GetInode, Answered
<1>3. CASE scene.backend # "shm" /\ ~ up
  BY <1>3 DEF Inv, Few, ProcessHas, GetInode, Answered
<1> QED BY <1>1, <1>2, <1>3

LEMMA InvInit == Init => Inv
<1> SUFFICES ASSUME Init PROVE Inv
  OBVIOUS
<1>1. TypeOK
  BY TypeInit
<1>2. Few
  BY FS_EmptySet, SceneTyped DEF Init, Few, Scene
<1>3. TableHas /\ DaemonHas /\ ProcessHas
  BY DEF Init, TableHas, DaemonHas, ProcessHas
<1> QED BY <1>1, <1>2, <1>3 DEF Inv

\* No process runs where at most one may and another one can start.
LEMMA NoneRuns ==
    ASSUME Few, scene.running <= 1, Cardinality(running) < scene.running,
           scene \in Scenes
    PROVE  running = {}
<1>1. Cardinality(running) \in Nat /\ scene.running \in Nat
  BY FS_CardinalityType, SceneTyped DEF Few
<1>2. Cardinality(running) = 0
  BY <1>1
<1> QED BY <1>2, FS_EmptySet DEF Few

\* An operation on an entry keeps what the stores say.
LEMMA InvUpdate ==
    ASSUME Inv, TypeOK',
           NEW p \in Procs, NEW k \in Keys, NEW m \in Modes, UpdateInode(p, k, m)
    PROVE  Inv'
<1> DEFINE new == [Old(truth[k]) EXCEPT !.mode = m]
<1>0. new \in FakeInode /\ new # Absent
  BY ModeTyped, ReplyAssumption DEF Inv, TypeOK, Map
<1>1. /\ p \in running /\ Store(p, k, new)
      /\ truth' = [truth EXCEPT ![k] = new]
      /\ touched' = touched \cup {k}
      /\ UNCHANGED <<scene, up, running, conn>>
  BY InvRecorded DEF UpdateInode, SetInode, Recorded
<1> HIDE DEF new
<1>2. Few'
  BY <1>1 DEF Inv, Few
<1>3. TableHas'
  BY <1>1 DEF Store, Inv, TableHas
<1>4. DaemonHas'
  <2> SUFFICES ASSUME up PROVE DaemonHas'
    BY <1>1 DEF DaemonHas
  <2>1. /\ session' = [session EXCEPT ![k] = new]
        /\ local' = [local EXCEPT ![p][k] = new]
    BY <1>1 DEF Store, Answered, Inv, Few
  <2>2. session' = truth'
    BY <1>1, <2>1 DEF Inv, DaemonHas
  <2>3. \A q \in running, j \in Keys : session'[j] = Absent => local'[q][j] = Absent
    BY <1>0, <1>1, <2>1 DEF Inv, TypeOK, Map, DaemonHas
  <2>4. ASSUME scene.dies, NEW q \in running, NEW j \in Keys
        PROVE  local'[q][j] = IF j \in touched' THEN truth'[j] ELSE Absent
    <3>1. q = p
      BY <1>1, <2>4, SceneTyped DEF Inv, TypeOK, Few
    <3> QED BY <1>1, <2>1, <2>4, <3>1 DEF Inv, TypeOK, Map, DaemonHas
  <2> QED BY <1>1, <2>2, <2>3, <2>4 DEF DaemonHas
<1>5. ProcessHas'
  <2> SUFFICES ASSUME scene.backend # "shm", ~ up PROVE ProcessHas'
    BY <1>1 DEF ProcessHas
  <2>1. local' = [local EXCEPT ![p][k] = new]
    BY <1>1 DEF Store
  <2>2. local'[p] = truth'
    BY <1>1, <2>1 DEF Inv, TypeOK, Map, ProcessHas
  <2> QED BY <1>1, <2>2 DEF Inv, ProcessHas
<1> QED BY <1>2, <1>3, <1>4, <1>5 DEF Inv

LEMMA InvRemove ==
    ASSUME Inv, TypeOK', Coherent(scene), NEW p \in Procs, NEW k \in Keys, Remove(p, k)
    PROVE  Inv'
<1>1. /\ p \in running /\ Store(p, k, Absent) /\ "remove" \in scene.operations
      /\ truth' = [truth EXCEPT ![k] = Absent]
      /\ touched' = touched \cup {k}
      /\ UNCHANGED <<scene, up, running, conn>>
  BY DEF Remove, RemoveInode
<1>2. Few'
  BY <1>1 DEF Inv, Few
<1>3. TableHas'
  BY <1>1 DEF Store, Inv, TableHas
<1>4. DaemonHas'
  <2> SUFFICES ASSUME up PROVE DaemonHas'
    BY <1>1 DEF DaemonHas
  <2>1. /\ session' = [session EXCEPT ![k] = Absent]
        /\ local' = [local EXCEPT ![p][k] = Absent]
    BY <1>1 DEF Store, Answered, Inv, Few
  <2>2. \A q \in running : q = p
    BY <1>1 DEF Inv, Few, Coherent
  <2>3. session' = truth'
    BY <1>1, <2>1 DEF Inv, DaemonHas
  <2>4. \A q \in running, j \in Keys : session'[j] = Absent => local'[q][j] = Absent
    BY <1>1, <2>1, <2>2 DEF Inv, TypeOK, Map, DaemonHas
  <2>5. scene.dies => \A q \in running, j \in Keys :
           local'[q][j] = IF j \in touched' THEN truth'[j] ELSE Absent
    BY <1>1, <2>1, <2>2 DEF Inv, TypeOK, Map, DaemonHas
  <2> QED BY <1>1, <2>3, <2>4, <2>5 DEF DaemonHas
<1>5. ProcessHas'
  <2> SUFFICES ASSUME scene.backend # "shm", ~ up PROVE ProcessHas'
    BY <1>1 DEF ProcessHas
  <2>1. local' = [local EXCEPT ![p][k] = Absent]
    BY <1>1 DEF Store
  <2>2. local'[p] = truth'
    BY <1>1, <2>1 DEF Inv, TypeOK, Map, ProcessHas
  <2> QED BY <1>1, <2>2 DEF Inv, ProcessHas
<1> QED BY <1>2, <1>3, <1>4, <1>5 DEF Inv

LEMMA InvChown ==
    ASSUME Inv, TypeOK', Coherent(scene),
           NEW p \in Procs, NEW k \in Keys, NEW ids \in Chowns, RecordChown(p, k, ids)
    PROVE  Inv'
<1> DEFINE Chowned(inode) == MergeChown(Old(inode), ids[1], ids[2])
<1>0. Chowned(truth[k]) # Absent
  BY ChownTyped, ReplyAssumption DEF Inv, TypeOK, Map
<1>1. /\ p \in running /\ "chown" \in scene.operations
      /\ truth' = [truth EXCEPT ![k] = Chowned(truth[k])]
      /\ touched' = touched \cup {k}
      /\ UNCHANGED <<scene, up, running, conn>>
  BY DEF RecordChown
<1>2. \/ /\ scene.backend = "shm" \/ up
         /\ session' = [session EXCEPT ![k] = Chowned(session[k])]
         /\ local' = local
      \/ /\ scene.backend # "shm" /\ ~ up /\ conn[p] = "broken"
      \/ /\ scene.backend # "shm" /\ ~ up
         /\ local' = [local EXCEPT ![p][k] = Chowned(local[p][k])]
  <2>1. p \in running /\ Few /\ conn[p] \in {"none", "up", "broken"}
    BY DEF RecordChown, Inv, TypeOK
  <2>2. (Answered(p) => up) /\ (up => Answered(p))
    BY <2>1 DEF Few, Answered
  <2>3. Active(p) /\ ~ Answered(p) => conn[p] = "broken"
    BY <2>1 DEF Active, Answered
  <2>4. ~ Active(p) => ~ Answered(p)
    BY DEF Active, Answered
  <2> QED BY <2>2, <2>3, <2>4 DEF RecordChown
<1>3. ~ (~ up /\ conn[p] = "broken")
  BY <1>1 DEF Inv, Few, Coherent
<1> HIDE DEF Chowned
<1>4. Few'
  BY <1>1 DEF Inv, Few
<1>5. TableHas'
  BY <1>1, <1>2 DEF Inv, TableHas
<1>6. DaemonHas'
  <2> SUFFICES ASSUME up PROVE DaemonHas'
    BY <1>1 DEF DaemonHas
  <2>1. session' = [session EXCEPT ![k] = Chowned(session[k])] /\ local' = local
    BY <1>2
  <2>2. session' = truth'
    BY <1>1, <2>1 DEF Inv, DaemonHas
  <2>3. \A q \in running, j \in Keys : session'[j] = Absent => local'[q][j] = Absent
    BY <1>0, <1>1, <2>1, <2>2 DEF Inv, TypeOK, Map, DaemonHas
  <2>4. ~ scene.dies
    BY <1>1 DEF Inv, Few, Coherent
  <2> QED BY <1>1, <2>2, <2>3, <2>4 DEF DaemonHas
<1>7. ProcessHas'
  <2> SUFFICES ASSUME scene.backend # "shm", ~ up PROVE ProcessHas'
    BY <1>1 DEF ProcessHas
  <2>1. local' = [local EXCEPT ![p][k] = Chowned(local[p][k])]
    BY <1>2, <1>3
  <2>2. local'[p] = truth'
    BY <1>1, <2>1 DEF Inv, TypeOK, Map, ProcessHas
  <2> QED BY <1>1, <2>2 DEF Inv, ProcessHas
<1> QED BY <1>4, <1>5, <1>6, <1>7 DEF Inv

\* A program starts with an empty state, and with the daemon's connection or as a
\* session of its own.
LEMMA InvStart ==
    ASSUME Inv, TypeOK', NEW p \in Procs, Start(p)
    PROVE  Inv'
<1>1. /\ running' = running \cup {p} /\ p \notin running
      /\ conn' = [conn EXCEPT ![p] = IF up THEN "up" ELSE "none"]
      /\ local' = [local EXCEPT ![p] = Nothing]
      /\ UNCHANGED <<scene, up, session>>
  BY DEF Start
<1>2. scene.running <= 1 => running = {}
  BY NoneRuns DEF Start, Inv, TypeOK
<1>3. scene.backend # "shm" /\ ~ up => running = {} /\ truth' = Nothing
  BY DEF Start
<1>4. scene.backend = "shm" \/ up => truth' = truth
  BY DEF Start
<1>5. scene.dies => running = {} /\ touched' = {}
  BY <1>2, SceneTyped DEF Start, Inv, TypeOK
<1>6. Few'
  <2>1. IsFiniteSet(running')
    BY <1>1, FS_AddElement DEF Inv, Few
  <2> QED BY <1>1, <1>2, <2>1 DEF Inv, TypeOK, Few
<1>7. TableHas'
  BY <1>1, <1>4 DEF Inv, TableHas
<1>8. DaemonHas'
  BY <1>1, <1>4, <1>5 DEF Inv, TypeOK, DaemonHas, Nothing
<1>9. ProcessHas'
  BY <1>1, <1>3 DEF Inv, TypeOK, ProcessHas
<1> QED BY <1>6, <1>7, <1>8, <1>9 DEF Inv

LEMMA InvExit ==
    ASSUME Inv, TypeOK', NEW p \in Procs, Exit(p)
    PROVE  Inv'
<1>1. /\ running' = running \ {p}
      /\ conn' = [conn EXCEPT ![p] = "none"]
      /\ local' = [local EXCEPT ![p] = Nothing]
      /\ UNCHANGED <<scene, up, session, truth, touched>>
  BY DEF Exit
<1>2. Few'
  <2>1. IsFiniteSet(running')
    BY <1>1, FS_RemoveElement DEF Inv, Few
  <2> QED BY <1>1, <2>1 DEF Inv, TypeOK, Few
<1>3. TableHas'
  BY <1>1 DEF Inv, TableHas
<1>4. DaemonHas'
  BY <1>1 DEF Inv, TypeOK, DaemonHas
<1>5. ProcessHas'
  BY <1>1 DEF Inv, TypeOK, ProcessHas
<1> QED BY <1>2, <1>3, <1>4, <1>5 DEF Inv

\* A child has its parent's copies; where one process is all there is, none is forked.
LEMMA InvFork ==
    ASSUME Inv, TypeOK', NEW p \in Procs, NEW q \in Procs, Fork(p, q)
    PROVE  Inv'
<1>1. /\ p \in running /\ q \notin running /\ running' = running \cup {q}
      /\ conn' = [conn EXCEPT ![q] = conn[p]]
      /\ local' = [local EXCEPT ![q] = local[p]]
      /\ UNCHANGED <<scene, up, session, truth, touched>>
  BY DEF Fork
<1>2. ~ scene.running <= 1
  BY <1>1, NoneRuns DEF Fork, Inv, TypeOK
<1>3. ~ scene.dies
  BY <1>2, SceneTyped DEF Inv, TypeOK
<1>4. scene.backend # "shm" => up
  BY <1>1, <1>3 DEF Fork, Active, Inv, TypeOK, Few
<1>5. Few'
  <2>1. IsFiniteSet(running')
    BY <1>1, FS_AddElement DEF Inv, Few
  <2> QED BY <1>1, <1>2, <2>1 DEF Inv, TypeOK, Few
<1>6. TableHas'
  BY <1>1 DEF Inv, TableHas
<1>7. DaemonHas'
  BY <1>1, <1>3 DEF Inv, TypeOK, DaemonHas
<1>8. ProcessHas'
  BY <1>1, <1>4 DEF ProcessHas
<1> QED BY <1>5, <1>6, <1>7, <1>8 DEF Inv

\* What the daemon had is gone; the process that used it goes on with its copies.
LEMMA InvEnds ==
    ASSUME Inv, TypeOK', DaemonEnds
    PROVE  Inv'
<1>1. /\ scene.dies /\ up /\ up' = FALSE
      /\ conn' = [p \in Procs |-> IF conn[p] = "up" THEN "broken" ELSE conn[p]]
      /\ truth' = [k \in Keys |-> IF running # {} /\ k \in touched THEN truth[k] ELSE Absent]
      /\ UNCHANGED <<scene, running, local, touched>>
  BY DEF DaemonEnds
<1>2. scene.backend = "daemon" /\ scene.running <= 1
  BY <1>1, SceneTyped DEF Inv, TypeOK, Few
<1>3. Few'
  BY <1>1, <1>2 DEF Inv, TypeOK, Few
<1>4. TableHas' /\ DaemonHas'
  BY <1>1, <1>2 DEF TableHas, DaemonHas
<1>5. ProcessHas'
  <2>1. ASSUME NEW p \in running PROVE local[p] = truth'
    <3>1. \A k \in Keys : local[p][k] = truth'[k]
      BY <1>1 DEF Inv, DaemonHas
    <3> QED BY <1>1, <3>1 DEF Inv, TypeOK, Map
  <2> QED BY <1>1, <1>2, <2>1 DEF Inv, Few, ProcessHas
<1> QED BY <1>3, <1>4, <1>5 DEF Inv

LEMMA InvStep ==
    ASSUME \A s \in Scenes : Coherent(s)
    PROVE  Inv /\ [Next]_vars => Inv'
<1> SUFFICES ASSUME Inv, [Next]_vars PROVE Inv'
  OBVIOUS
<1>0. TypeOK' /\ Coherent(scene)
  BY TypeStep DEF Inv, TypeOK
<1>1. CASE UNCHANGED vars
  BY <1>1 DEF vars, Inv, TypeOK, Few, TableHas, DaemonHas, ProcessHas
<1> QED BY <1>0, <1>1, InvUpdate, InvRemove, InvChown, InvStart, InvExit, InvFork, InvEnds
        DEF Next

\* Every process of a session finds what all of them have recorded: in the table, with
\* the daemon, in its own state, or, once the daemon has ended, in its own copies.
THEOREM RecordedAlways ==
    ASSUME \A s \in Scenes : Coherent(s)
    PROVE  Spec => []Recorded
<1>1. Init => Inv
  BY InvInit
<1>2. Inv /\ [Next]_vars => Inv'
  BY InvStep
<1>3. Inv => Recorded
  BY InvRecorded
<1> QED BY <1>1, <1>2, <1>3, PTL DEF Spec
=============================================================================
