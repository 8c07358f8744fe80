-------------------------- MODULE Credentials_proofs --------------------------
(***************************************************************************)
(* Proofs about Credentials for every number of processes, threads and     *)
(* ids: types, and that getuid and stat report the ids that were set last  *)
(* where one call at a time sets ids and no process starts inside a        *)
(* session.                                                                *)
(***************************************************************************)
EXTENDS Credentials, TLAPS

-----------------------------------------------------------------------------
(***************************************************************************)
(* Type correctness.                                                       *)
(***************************************************************************)
\* A run is a thread of a process, or a hook within its initialization.
LEMMA RunTyped ==
    ASSUME NEW r \in Runs
    PROVE  r[1] \in Procs
  BY DEF Runs

LEMMA InnerRun ==
    ASSUME NEW p \in Procs
    PROVE  <<p, Inner>> \in Runs /\ <<p, Inner>>[1] = p /\ <<p, Inner>>[2] = Inner
  BY DEF Runs

\* Two runs of one process that are both hooks within it are the same.
LEMMA InnerOnly ==
    ASSUME NEW r \in Runs, r[2] = Inner
    PROVE  r = <<r[1], Inner>>
  BY DEF Runs

LEMMA EnvTyped == Env \in Pair
  BY CredentialsAssumption DEF Env, Pair

LEMMA OtherTyped ==
    ASSUME NEW i \in Id
    PROVE  Other(i) \in Id
  BY DEF Other, Id

LEMMA CallTyped ==
    ASSUME NEW c \in Calls
    PROVE  /\ c.kind \in {"set", "use"}
           /\ c.kind = "set" => c.id \in Id /\ c.value \in Ids
  BY DEF Calls

LEMMA UseTyped == Use \in Calls /\ Use.kind = "use"
  BY DEF Use, Calls

\* An id of a pair is replaced.
LEMMA PairSet ==
    ASSUME NEW pair \in Pair, NEW i \in Id, NEW v \in Ids
    PROVE  [pair EXCEPT ![i] = v] \in Pair
  BY DEF Pair

LEMMA PairAt ==
    ASSUME NEW pair \in Pair, NEW i \in Id
    PROVE  pair[i] \in Ids
  BY DEF Pair

\* The variables apart from what links them.
Typed ==
    /\ scene \in Scenes
    /\ alive \subseteq Procs
    /\ boot \in [Procs -> Pair] /\ local \in [Procs -> Pair] /\ session \in Pair
    /\ loaded \in [Procs -> Pair] /\ ids \in [Runs -> Pair] /\ want \in [Procs -> Pair]
    /\ made \in [Procs -> {"no", "load", "store", "done"}]
    /\ joined \in [Procs -> {"no", "stat", "load", "uid", "gid", "yes"}]
    /\ attached \in [Procs -> BOOLEAN]
    /\ pc \in [Runs -> {"idle", "read", "ensure", "once", "join", "boot", "local",
                        "session", "over"}]
    /\ call \in [Runs -> Calls]
    /\ half \in [Runs -> Id]

\* A process is attached to a session from the moment it sends its ids to it.
Linked(p) ==
    /\ joined[p] # "no" => made[p] = "done"
    /\ joined[p] \in {"uid", "gid", "yes"} => (attached[p] <=> Shared)
    /\ attached[p] \/ joined[p] \in {"uid", "gid"} => Shared

TypeInv == Typed /\ \A p \in Procs : Linked(p)

LEMMA TypeParts == TypeInv => TypeOK
  BY DEF TypeInv, TypeOK, Typed, Linked, Shared

LEMMA TypeInit == Init => TypeInv
  BY EnvTyped, UseTyped, CredentialsAssumption DEF Init, TypeInv, Typed, Linked, Id

LEMMA SeenTyped ==
    ASSUME TypeInv, NEW p \in Procs
    PROVE  Seen(p) \in Pair
  BY DEF Seen, TypeInv, Typed

\* What returns from a call leaves.
LEMMA ReturnsTyped ==
    ASSUME TypeInv, NEW r \in Runs, call[r].kind = "set", Returns(r)
    PROVE  /\ pc' \in [Runs -> {"idle", "read", "ensure", "once", "join", "boot", "local",
                                "session", "over"}]
           /\ call' \in [Runs -> Calls] /\ ids' \in [Runs -> Pair]
           /\ want' \in [Procs -> Pair]
<1>1. call[r].id \in Id /\ call[r].value \in Ids
  BY CallTyped DEF TypeInv, Typed
<1>2. \A p \in Procs : [want[p] EXCEPT ![call[r].id] = call[r].value] \in Pair
  BY <1>1, PairSet DEF TypeInv, Typed
<1>3. want' \in [Procs -> Pair]
  BY <1>2 DEF Returns, TypeInv, Typed
<1>4. pc' = [pc EXCEPT ![r] = "idle"] /\ call' = [call EXCEPT ![r] = Use]
      /\ ids' = [ids EXCEPT ![r] = Env]
  BY DEF Returns
<1> QED BY <1>3, <1>4, EnvTyped, UseTyped DEF TypeInv, Typed

\* The steps of the initializations.
LEMMA TypeInitStep ==
    ASSUME TypeInv, NEW p \in Procs, InitStep(p)
    PROVE  TypeInv'
<1>t. Typed /\ \A q \in Procs : Linked(q)
  BY DEF TypeInv
<1>1. CASE Make(p)
  <2>1. made' \in [Procs -> {"no", "load", "store", "done"}]
        /\ local' \in [Procs -> Pair] /\ loaded' \in [Procs -> Pair]
    BY <1>t, <1>1 DEF Make, Typed
  <2>2. UNCHANGED <<scene, alive, boot, joined, attached, session, thread, want>>
    BY <1>1 DEF Make
  <2>3. Typed'
    BY <1>t, <2>1, <2>2 DEF Typed, thread
  <2>4. \A q \in Procs : made[q] = "done" => made'[q] = "done"
    BY <1>t, <1>1 DEF Make, Typed
  <2>5. \A q \in Procs : Linked(q)'
    BY <1>t, <2>2, <2>4 DEF Linked, Shared
  <2> QED BY <2>3, <2>5 DEF TypeInv
<1>2. CASE JoinStarts(p)
  <2>1. joined' \in [Procs -> {"no", "stat", "load", "uid", "gid", "yes"}]
        /\ pc' \in [Runs -> {"idle", "read", "ensure", "once", "join", "boot", "local",
                             "session", "over"}]
    BY <1>t, <1>2, InnerRun DEF JoinStarts, Typed
  <2>2. UNCHANGED <<scene, alive, boot, local, made, loaded, attached, session,
                    call, ids, half, want>>
    BY <1>2 DEF JoinStarts
  <2>3. Typed'
    BY <1>t, <2>1, <2>2 DEF Typed
  <2>4. \A q \in Procs : joined'[q] = joined[q]
                         \/ (made[q] = "done" /\ joined'[q] \in {"stat", "load"})
    BY <1>t, <1>2 DEF JoinStarts, Typed, Made
  <2>5. \A q \in Procs : Linked(q)'
    BY <1>t, <2>2, <2>4 DEF Linked, Shared
  <2> QED BY <2>3, <2>5 DEF TypeInv
<1>3. CASE Attach(p)
  <2>1. /\ attached' = [attached EXCEPT ![p] = scene.mode # "local"]
        /\ loaded' = [loaded EXCEPT ![p] = boot[p]]
        /\ joined' = [joined EXCEPT ![p] = IF scene.mode = "daemon" THEN "uid" ELSE "yes"]
        /\ joined[p] # "no"
    BY <1>3 DEF Attach
  <2>2. UNCHANGED <<scene, alive, boot, local, made, session, thread, want>>
    BY <1>3 DEF Attach
  <2>3. Typed'
    BY <1>t, <2>1, <2>2 DEF Typed, thread
  <2>4. Linked(p)'
    BY <1>t, <2>1, <2>2 DEF Linked, Typed, Shared
  <2>5. \A q \in Procs \ {p} : Linked(q)'
    BY <1>t, <2>1, <2>2 DEF Linked, Typed, Shared
  <2> QED BY <2>3, <2>4, <2>5 DEF TypeInv
<1>4. CASE DaemonInit(p)
  <2>1. joined[p] \in Id
        /\ session' = [session EXCEPT ![joined[p]] = loaded[p][joined[p]]]
        /\ joined' = [joined EXCEPT ![p] = IF @ = "uid" THEN "gid" ELSE "yes"]
    BY <1>4 DEF DaemonInit
  <2>2. UNCHANGED <<scene, alive, boot, local, made, loaded, attached, thread, want>>
    BY <1>4 DEF DaemonInit
  <2>3. session' \in Pair
    BY <1>t, <2>1, PairSet, PairAt DEF Typed
  <2>4. Typed'
    BY <1>t, <2>1, <2>2, <2>3 DEF Typed, thread
  <2>5. ASSUME NEW q \in Procs PROVE Linked(q)'
    <3>1. joined'[q] = joined[q] \/ joined[q] \in {"uid", "gid"}
      BY <1>t, <2>1 DEF Typed, Id
    <3> QED BY <1>t, <2>2, <3>1 DEF Linked, Shared
  <2> QED BY <2>4, <2>5 DEF TypeInv
<1> QED BY <1>1, <1>2, <1>3, <1>4 DEF InitStep

\* A step that moves a run on and may note ids for it.
LEMMA TypeMoves ==
    ASSUME TypeInv, NEW r \in Runs, UNCHANGED <<store, want>>,
           NEW to \in {"idle", "read", "ensure", "once", "join", "boot", "local",
                       "session", "over"},
           pc' = [pc EXCEPT ![r] = to], call' \in [Runs -> Calls],
           ids' \in [Runs -> Pair], half' \in [Runs -> Id]
    PROVE  TypeInv'
<1>1. Typed'
  BY DEF TypeInv, Typed, store, process
<1>2. \A p \in Procs : Linked(p)'
  BY DEF TypeInv, Linked, Shared, store, process
<1> QED BY <1>1, <1>2 DEF TypeInv

\* A call of the ids of which one is replaced.
LEMMA IdsTyped ==
    ASSUME TypeInv, NEW r \in Runs, NEW i \in Id, NEW v \in Ids
    PROVE  [ids EXCEPT ![r][i] = v] \in [Runs -> Pair]
<1>1. [ids[r] EXCEPT ![i] = v] \in Pair
  BY PairSet DEF TypeInv, Typed
<1> QED BY <1>1 DEF TypeInv, Typed

\* Who sets ids has a call to do so.
Setter ==
    \A r \in Runs : pc[r] \in {"read", "boot", "local", "session"} => call[r].kind = "set"

\* The steps of a call.
LEMMA TypeBegin ==
    ASSUME TypeInv, NEW r \in Runs, NEW c \in Calls, Begin(r, c)
    PROVE  TypeInv'
<1>1. ids' \in [Runs -> Pair]
  <2>1. CASE c.kind = "set"
    <3>1. c.id \in Id /\ c.value \in Ids
      BY <2>1, CallTyped
    <3>2. ids' = [ids EXCEPT ![r][c.id] = c.value]
      BY <2>1 DEF Begin
    <3> QED BY <3>1, <3>2, IdsTyped
  <2>2. CASE c.kind # "set"
    BY <2>2 DEF Begin, TypeInv, Typed
  <2> QED BY <2>1, <2>2
<1>2. call' \in [Runs -> Calls] /\ half' \in [Runs -> Id] /\ UNCHANGED <<store, want>>
  BY DEF Begin, TypeInv, Typed
<1>3. PICK to \in {"read", "ensure"} : pc' = [pc EXCEPT ![r] = to]
  BY DEF Begin
<1> QED BY <1>1, <1>2, <1>3, TypeMoves

LEMMA TypeNested ==
    ASSUME TypeInv, NEW p \in Procs, Nested(p)
    PROVE  TypeInv'
<1>1. pc' = [pc EXCEPT ![<<p, Inner>>] = "ensure"] /\ UNCHANGED <<store, call, ids, half, want>>
  BY DEF Nested
<1> QED BY <1>1, InnerRun, TypeMoves DEF TypeInv, Typed

LEMMA BodyTyped ==
    ASSUME NEW r \in Runs
    PROVE  Body(r) \in {"boot", "over", "idle"}
  BY DEF Body

LEMMA TypeCallStep ==
    ASSUME TypeInv, Setter, NEW r \in Runs, CallStep(r)
    PROVE  TypeInv'
<1>t. Typed /\ r[1] \in Procs
  BY RunTyped DEF TypeInv
<1>c. call[r].kind = "set" => call[r].id \in Id /\ call[r].value \in Ids
  BY <1>t, CallTyped DEF Typed
<1>1. CASE Read(r)
  <2>1. Other(call[r].id) \in Id /\ Seen(r[1])[Other(call[r].id)] \in Ids
    <3>1. call[r].id \in Id
      BY <1>1, <1>c DEF Read, Setter
    <3>2. Other(call[r].id) \in Id
      BY <3>1, OtherTyped
    <3> QED BY <1>t, <3>2, SeenTyped, PairAt
  <2>2. ids' = [ids EXCEPT ![r][Other(call[r].id)] = Seen(r[1])[Other(call[r].id)]]
        /\ pc' = [pc EXCEPT ![r] = "ensure"] /\ UNCHANGED <<store, call, half, want>>
    BY <1>1 DEF Read
  <2>3. ids' \in [Runs -> Pair]
    BY <2>1, <2>2, IdsTyped
  <2> QED BY <1>t, <2>2, <2>3, TypeMoves DEF Typed
<1>2. CASE Ensure(r)
  <2>1. PICK to \in {"join", "once", "boot", "over", "idle"} : pc' = [pc EXCEPT ![r] = to]
    BY <1>2, BodyTyped DEF Ensure
  <2>2. UNCHANGED <<store, call, ids, half, want>>
    BY <1>2 DEF Ensure
  <2> QED BY <1>t, <2>1, <2>2, TypeMoves DEF Typed
<1>3. CASE Once(r)
  BY <1>t, <1>3, TypeMoves DEF Once, Typed
<1>4. CASE Joined(r)
  <2>1. Body(r) \in {"boot", "over", "idle"}
    BY BodyTyped
  <2>2. pc' = [pc EXCEPT ![r] = Body(r)] /\ UNCHANGED <<store, call, ids, half, want>>
    BY <1>4 DEF Joined
  <2> QED BY <1>t, <2>1, <2>2, TypeMoves DEF Typed
<1>5. CASE StoreBoot(r)
  <2>0. half[r] \in Id /\ ids[r] \in Pair /\ Other(half[r]) \in Id
    BY <1>t, OtherTyped DEF Typed
  <2>1. [boot[r[1]] EXCEPT ![half[r]] = ids[r][half[r]]] \in Pair
    BY <1>t, <2>0, PairAt, PairSet DEF Typed
  <2>2. boot' = [boot EXCEPT ![r[1]] = [boot[r[1]] EXCEPT ![half[r]] = ids[r][half[r]]]]
    BY <1>5 DEF StoreBoot
  <2>3. boot' \in [Procs -> Pair]
    BY <1>t, <2>1, <2>2 DEF Typed
  <2>4. half' = [half EXCEPT ![r] = Other(half[r])]
        /\ (pc' = pc \/ pc' = [pc EXCEPT ![r] = "local"])
        /\ UNCHANGED <<scene, alive, local, made, joined, loaded, attached, session, call,
                       ids, want>>
    BY <1>5 DEF StoreBoot
  <2>5. Typed'
    BY <1>t, <2>0, <2>3, <2>4 DEF Typed
  <2>6. \A p \in Procs : Linked(p)'
    BY <2>4 DEF TypeInv, Linked, Shared
  <2> QED BY <2>5, <2>6 DEF TypeInv
<1>6. CASE StoreLocal(r)
  <2>1. local' = [local EXCEPT ![r[1]] = ids[r]]
        /\ UNCHANGED <<scene, alive, boot, made, joined, loaded, attached, session, half>>
        /\ call[r].kind = "set"
    BY <1>6 DEF StoreLocal, Setter
  <2>2. local' \in [Procs -> Pair]
    BY <1>t, <2>1 DEF Typed
  <2>3. /\ pc' \in [Runs -> {"idle", "read", "ensure", "once", "join", "boot", "local",
                             "session", "over"}]
        /\ call' \in [Runs -> Calls] /\ ids' \in [Runs -> Pair]
        /\ want' \in [Procs -> Pair]
    <3>1. CASE Returns(r)
      BY <2>1, <3>1, ReturnsTyped
    <3>2. CASE pc' = [pc EXCEPT ![r] = "session"] /\ UNCHANGED <<call, ids, want>>
      BY <1>t, <3>2 DEF Typed
    <3> QED BY <1>6, <3>1, <3>2 DEF StoreLocal
  <2>5. Typed'
    BY <1>t, <2>1, <2>2, <2>3 DEF Typed
  <2>6. \A p \in Procs : Linked(p)'
    BY <2>1 DEF TypeInv, Linked, Shared
  <2> QED BY <2>5, <2>6 DEF TypeInv
<1>7. CASE StoreSession(r)
  <2>0. half[r] \in Id /\ ids[r] \in Pair /\ Other(half[r]) \in Id
    BY <1>t, OtherTyped DEF Typed
  <2>1. session' = [session EXCEPT ![half[r]] = ids[r][half[r]]]
        /\ half' = [half EXCEPT ![r] = Other(half[r])]
        /\ UNCHANGED <<scene, alive, process>> /\ call[r].kind = "set"
    BY <1>7 DEF StoreSession, Setter
  <2>2. session' \in Pair
    BY <1>t, <2>0, <2>1, PairAt, PairSet DEF Typed
  <2>3. /\ pc' \in [Runs -> {"idle", "read", "ensure", "once", "join", "boot", "local",
                             "session", "over"}]
        /\ call' \in [Runs -> Calls] /\ ids' \in [Runs -> Pair]
        /\ want' \in [Procs -> Pair]
    <3>1. CASE Returns(r)
      BY <2>1, <3>1, ReturnsTyped
    <3>2. CASE UNCHANGED <<pc, call, ids, want>>
      BY <1>t, <3>2 DEF Typed
    <3> QED BY <1>7, <3>1, <3>2 DEF StoreSession
  <2>5. Typed'
    BY <1>t, <2>0, <2>1, <2>2, <2>3 DEF Typed, process
  <2>6. \A p \in Procs : Linked(p)'
    BY <2>1 DEF TypeInv, Linked, Shared, process
  <2> QED BY <2>5, <2>6 DEF TypeInv
<1> QED BY <1>1, <1>2, <1>3, <1>4, <1>5, <1>6, <1>7 DEF CallStep

\* Processes come and go.
LEMMA TypeFork ==
    ASSUME TypeInv, NEW p \in Procs, NEW q \in Procs, Fork(p, q)
    PROVE  TypeInv'
<1>1. Typed'
  BY DEF TypeInv, Typed, Fork, thread
<1>2. Linked(q)'
  BY DEF TypeInv, Typed, Linked, Shared, Fork
<1>3. \A o \in Procs \ {q} : Linked(o)'
  BY DEF TypeInv, Typed, Linked, Shared, Fork
<1> QED BY <1>1, <1>2, <1>3 DEF TypeInv

LEMMA TypeExec ==
    ASSUME TypeInv, NEW q \in Procs, Exec(q)
    PROVE  TypeInv'
<1>1. Typed'
  BY DEF TypeInv, Typed, Exec, thread, process
<1>2. \A o \in Procs : Linked(o)'
  BY DEF TypeInv, Linked, Shared, Exec, process
<1> QED BY <1>1, <1>2 DEF TypeInv

LEMMA TypeExit ==
    ASSUME TypeInv, NEW p \in Procs, Exit(p)
    PROVE  TypeInv'
<1>1. pc' \in [Runs -> {"idle", "read", "ensure", "once", "join", "boot", "local",
                        "session", "over"}]
  BY DEF TypeInv, Typed, Exit
<1>2. want' \in [Procs -> Pair]
  BY EnvTyped DEF TypeInv, Typed, Exit
<1>3. Typed'
  BY EnvTyped, <1>1, <1>2 DEF TypeInv, Typed, Exit
<1>4. Linked(p)'
  BY DEF TypeInv, Typed, Linked, Shared, Exit
<1>5. \A o \in Procs \ {p} : Linked(o)'
  BY DEF TypeInv, Typed, Linked, Shared, Exit
<1> QED BY <1>3, <1>4, <1>5 DEF TypeInv

LEMMA TypeStutter == TypeInv /\ UNCHANGED vars => TypeInv'
  BY DEF TypeInv, Typed, Linked, Shared, vars, process, thread

\* Only Begin takes a call on, and only for a run that rests.
LEMMA SetterMoves ==
    ASSUME TypeInv, Setter, NEW r \in Runs, NEW to, pc' = [pc EXCEPT ![r] = to],
           call' = call, to \in {"read", "boot", "local", "session"} => call[r].kind = "set"
    PROVE  Setter'
<1>1. \A s \in Runs : pc'[s] = IF s = r THEN to ELSE pc[s]
  BY DEF TypeInv, Typed
<1> QED BY <1>1 DEF Setter

LEMMA SetterReturns ==
    ASSUME TypeInv, Setter, NEW r \in Runs, Returns(r)
    PROVE  Setter'
<1>1. \A s \in Runs \ {r} : pc'[s] = pc[s] /\ call'[s] = call[s]
  BY DEF TypeInv, Typed, Returns
<1>2. pc'[r] = "idle"
  BY DEF TypeInv, Typed, Returns
<1> QED BY <1>1, <1>2 DEF Setter

LEMMA SetterStep == TypeInv /\ Setter /\ [Next]_vars => Setter'
<1> SUFFICES ASSUME TypeInv, Setter, [Next]_vars PROVE Setter'
  OBVIOUS
<1>1. CASE UNCHANGED vars
  BY <1>1 DEF vars, thread, Setter
<1>2. ASSUME NEW p \in Procs, InitStep(p) PROVE Setter'
  <2>1. CASE JoinStarts(p)
    <3>1. call' = call /\ (pc' = pc \/ pc' = [pc EXCEPT ![<<p, Inner>>] = "ensure"])
      BY <2>1 DEF JoinStarts
    <3> QED BY <3>1, InnerRun, SetterMoves DEF Setter
  <2>2. CASE ~ JoinStarts(p)
    <3>1. UNCHANGED thread
      BY <1>2, <2>2 DEF InitStep, Make, Attach, DaemonInit
    <3> QED BY <3>1 DEF thread, Setter
  <2> QED BY <2>1, <2>2
<1>3. ASSUME NEW p \in Procs, Nested(p) PROVE Setter'
  BY <1>3, InnerRun, SetterMoves DEF Nested
<1>4. ASSUME NEW q \in Procs, Exec(q) PROVE Setter'
  BY <1>4 DEF Exec, thread, Setter
<1>5. ASSUME NEW p \in Procs, Exit(p) PROVE Setter'
  BY <1>5 DEF Exit, Setter
<1>6. ASSUME NEW p \in Procs, NEW q \in Procs, Fork(p, q) PROVE Setter'
  BY <1>6 DEF Fork, thread, Setter
<1>7. ASSUME NEW r \in Runs, CallStep(r) PROVE Setter'
  <2>1. CASE Read(r)
    BY <2>1, SetterMoves DEF Read
  <2>2. CASE Ensure(r)
    <3>1. PICK to \in {"join", "once", Body(r)} : pc' = [pc EXCEPT ![r] = to]
      BY <2>2 DEF Ensure
    <3>2. to = "boot" => call[r].kind = "set"
      BY <3>1 DEF Body
    <3>3. to \notin {"read", "local", "session"} /\ call' = call
      BY <2>2, <3>1, BodyTyped DEF Ensure
    <3> QED BY <3>1, <3>2, <3>3, SetterMoves
  <2>3. CASE Once(r)
    BY <2>3, SetterMoves DEF Once
  <2>4. CASE Joined(r)
    <3>1. Body(r) = "boot" => call[r].kind = "set"
      BY DEF Body
    <3> QED BY <2>4, <3>1, BodyTyped, SetterMoves DEF Joined
  <2>5. CASE StoreBoot(r)
    <3>1. call[r].kind = "set" /\ call' = call
      BY <2>5 DEF StoreBoot, Setter
    <3> QED BY <2>5, <3>1, SetterMoves DEF StoreBoot, Setter
  <2>6. CASE StoreLocal(r)
    <3>1. CASE Returns(r)
      BY <3>1, SetterReturns
    <3>2. CASE pc' = [pc EXCEPT ![r] = "session"] /\ call' = call
      <4>1. call[r].kind = "set"
        BY <2>6 DEF StoreLocal, Setter
      <4> QED BY <3>2, <4>1, SetterMoves
    <3> QED BY <2>6, <3>1, <3>2 DEF StoreLocal
  <2>7. CASE StoreSession(r)
    <3>1. CASE Returns(r)
      BY <3>1, SetterReturns
    <3>2. CASE pc' = pc /\ call' = call
      BY <3>2 DEF Setter
    <3> QED BY <2>7, <3>1, <3>2 DEF StoreSession
  <2> QED BY <1>7, <2>1, <2>2, <2>3, <2>4, <2>5, <2>6, <2>7 DEF CallStep
<1>8. ASSUME NEW r \in Runs, NEW c \in Calls, Begin(r, c) PROVE Setter'
  <2>1. \A s \in Runs \ {r} : pc'[s] = pc[s] /\ call'[s] = call[s]
    BY <1>8 DEF TypeInv, Typed, Begin
  <2>2. pc'[r] = (IF c.kind = "set" THEN "read" ELSE "ensure") /\ call'[r] = c
    BY <1>8 DEF TypeInv, Typed, Begin
  <2> QED BY <2>1, <2>2 DEF Setter
<1> QED BY <1>1, <1>2, <1>3, <1>4, <1>5, <1>6, <1>7, <1>8 DEF Next

LEMMA TypeStep == TypeInv /\ Setter /\ [Next]_vars => TypeInv'
<1> SUFFICES ASSUME TypeInv, Setter, [Next]_vars PROVE TypeInv'
  OBVIOUS
<1>1. CASE UNCHANGED vars
  BY <1>1, TypeStutter
<1>2. ASSUME NEW p \in Procs, InitStep(p) \/ Nested(p) \/ Exec(p) \/ Exit(p) PROVE TypeInv'
  BY <1>2, TypeInitStep, TypeNested, TypeExec, TypeExit
<1>3. ASSUME NEW p \in Procs, NEW q \in Procs, Fork(p, q) PROVE TypeInv'
  BY <1>3, TypeFork
<1>4. ASSUME NEW r \in Runs, CallStep(r) PROVE TypeInv'
  BY <1>4, TypeCallStep
<1>5. ASSUME NEW r \in Runs, NEW c \in Calls, Begin(r, c) PROVE TypeInv'
  BY <1>5, TypeBegin
<1> QED BY <1>1, <1>2, <1>3, <1>4, <1>5 DEF Next

\* The ids, the two initializations and the calls keep their types in every scene; a
\* process that has entered the second initialization has been through the first, and
\* one that has joined is attached to the session there is.
THEOREM TypeCorrect == Spec => []TypeOK
<1>1. Init => Setter
  BY DEF Init, Setter
<1> QED BY TypeInit, <1>1, SetterStep, TypeStep, TypeParts, PTL DEF Spec
-----------------------------------------------------------------------------
(***************************************************************************)
(* Who waits for whom, where no two calls set ids at the same time.        *)
(***************************************************************************)
\* One call at a time sets ids, and no process starts inside a session.
Orderly(s) ==
    /\ s.serial \/ s.sets = "one"
    /\ s.birth = "exec" => s.mode = "local"

Outer(r) == r[2] # Inner

\* A hook called from within an initialization sets nothing, and is there only while
\* the initialization is.
InnerOK(p) ==
    /\ call[<<p, Inner>>] = Use
    /\ pc[<<p, Inner>>] \in {"idle", "ensure", "join", "over"}
    /\ pc[<<p, Inner>>] = "ensure" => Making(p) \/ joined[p] # "no"
    /\ pc[<<p, Inner>>] = "join" => joined[p] # "no"

\* A process that is not there does nothing.
AwayOK(p) ==
    p \notin alive => /\ made[p] = "no" /\ joined[p] = "no" /\ ~ attached[p]
                      /\ RestingProc(p)

\* An initialization that is under way has somebody waiting for it.
WaitOK(p) ==
    /\ Making(p) => Waits(p, "once")
    /\ joined[p] \in {"stat", "load", "uid", "gid"} => Waits(p, "join")

\* Where a call that sets ids stands.
CallOK(r) ==
    /\ pc[r] \in {"read", "boot", "local", "session"} => call[r].kind = "set"
    /\ call[r].kind = "set" /\ scene.sets # "any" => joined[r[1]] = "yes"
    /\ pc[r] \in {"boot", "local", "session"} => joined[r[1]] = "yes"
    /\ pc[r] = "session" => attached[r[1]]
    /\ pc[r] \notin {"boot", "session"} => half[r] = "uid"
    /\ Resting(r) => call[r] = Use

\* Calls that set ids come one after the other; with one call at a time, all do.
Turns ==
    /\ \A r, s \in Runs : call[r].kind = "set" /\ call[s].kind = "set" => r = s
    /\ scene.serial => \A r, s \in Runs :
          Outer(r) /\ Outer(s) /\ ~ Resting(r) /\ ~ Resting(s) => r = s

Control ==
    /\ TypeInv /\ Orderly(scene) /\ Turns
    /\ \A p \in Procs : InnerOK(p) /\ AwayOK(p) /\ WaitOK(p)
    /\ \A r \in Runs : CallOK(r)

\* Who is in a call is there.
LEMMA BusyAlive ==
    ASSUME Control, NEW r \in Runs, ~ Resting(r)
    PROVE  r[1] \in alive /\ r[1] \in Procs
  BY RunTyped DEF Control, AwayOK, RestingProc

LEMMA WaiterAlive ==
    ASSUME Control, NEW p \in Procs, NEW at \in {"once", "join"}, Waits(p, at)
    PROVE  p \in alive
<1>1. PICK r \in Runs : r[1] = p /\ pc[r] = at
  BY DEF Waits
<1>2. ~ Resting(r)
  BY <1>1 DEF Resting
<1> QED BY <1>1, <1>2, BusyAlive

\* Nobody who sets ids finds the first initialization under way.
LEMMA NotMaking ==
    ASSUME Control, NEW r \in Runs, call[r].kind = "set", pc[r] \in {"read", "ensure"}
    PROVE  ~ Making(r[1])
<1> SUFFICES ASSUME Making(r[1]) PROVE FALSE
  OBVIOUS
<1>1. r[1] \in Procs
  BY RunTyped
<1>2. CASE scene.serial
  <2>1. PICK s \in Runs : s[1] = r[1] /\ pc[s] = "once"
    BY <1>1 DEF Control, WaitOK, Waits
  <2>2. Outer(s)
    BY <2>1, InnerOnly, RunTyped DEF Control, InnerOK, Outer
  <2>3. Outer(r)
    BY <1>1, InnerOnly, UseTyped DEF Control, InnerOK, Outer
  <2>4. ~ Resting(s) /\ ~ Resting(r)
    BY <2>1 DEF Resting
  <2> QED BY <1>2, <2>1, <2>2, <2>3, <2>4 DEF Control, Turns
<1>3. CASE scene.sets = "one"
  <2>1. joined[r[1]] = "yes"
    BY <1>3 DEF Control, CallOK
  <2>2. made[r[1]] = "done"
    BY <1>1, <2>1 DEF Control, TypeInv, Linked
  <2> QED BY <2>2 DEF Making
<1> QED BY <1>2, <1>3 DEF Control, Orderly

LEMMA ControlInit ==
    ASSUME \A s \in Scenes : Orderly(s), Init
    PROVE  Control
<1>0. scene \in Scenes /\ TypeInv
  BY TypeInit DEF Init
<1>1. ASSUME NEW p \in Procs PROVE InnerOK(p) /\ AwayOK(p) /\ WaitOK(p)
  <2>1. InnerOK(p)
    BY InnerRun DEF Init, InnerOK
  <2>2. AwayOK(p)
    BY DEF Init, AwayOK, RestingProc, Resting
  <2>3. WaitOK(p)
    BY DEF Init, WaitOK, Making
  <2> QED BY <2>1, <2>2, <2>3
<1>2. ASSUME NEW r \in Runs PROVE CallOK(r)
  BY UseTyped, RunTyped DEF Init, CallOK
<1>3. Turns
  BY UseTyped DEF Init, Turns, Resting
<1> QED BY <1>0, <1>1, <1>2, <1>3 DEF Control

\* A step of one run.
LEMMA ControlMoves ==
    ASSUME Control, TypeInv', NEW r \in Runs, r[1] \in alive,
           UNCHANGED <<scene, alive, made, joined, attached>>,
           \A s \in Runs \ {r} : pc'[s] = pc[s] /\ call'[s] = call[s] /\ half'[s] = half[s],
           pc[r] = "once" => ~ Making(r[1]), pc[r] = "join" => joined[r[1]] = "yes",
           CallOK(r)',
           ~ Outer(r) => /\ call'[r] = Use
                         /\ \/ pc'[r] = "ensure" /\ (Making(r[1]) \/ joined[r[1]] # "no")
                            \/ pc'[r] = "join" /\ joined[r[1]] # "no"
                            \/ pc'[r] \in {"idle", "over"},
           call'[r].kind = "set" =>
               call[r].kind = "set" \/ \A s \in Runs : call[s].kind # "set",
           scene.serial /\ Outer(r) => ~ Resting(r) \/ Quiet
    PROVE  Control'
<1>1. Turns'
  <2>1. ASSUME NEW s \in Runs, NEW t \in Runs, call'[s].kind = "set", call'[t].kind = "set"
        PROVE  s = t
    BY <2>1 DEF Control, Turns
  <2>2. ASSUME scene.serial, NEW s \in Runs, NEW t \in Runs, Outer(s), Outer(t),
               ~ Resting(s)', ~ Resting(t)'
        PROVE  s = t
    BY <2>2 DEF Control, Turns, Resting, Quiet
  <2> QED BY <2>1, <2>2 DEF Turns
<1>2. ASSUME NEW p \in Procs PROVE InnerOK(p)'
  <2>0. InnerOK(p) /\ <<p, Inner>> \in Runs
    BY InnerRun DEF Control
  <2>1. CASE r = <<p, Inner>>
    <3>1. r[1] = p /\ ~ Outer(r)
      BY <2>1 DEF Outer
    <3> QED BY <2>1, <3>1 DEF InnerOK, Making
  <2>2. CASE r # <<p, Inner>>
    BY <2>0, <2>2 DEF InnerOK, Making
  <2> QED BY <2>1, <2>2
<1>3. ASSUME NEW p \in Procs PROVE AwayOK(p)'
  <2>1. ASSUME NEW s \in Runs, s[1] = p, p \notin alive PROVE pc'[s] = pc[s]
    BY <2>1
  <2> QED BY <2>1 DEF Control, AwayOK, RestingProc, Resting
<1>4. ASSUME NEW p \in Procs PROVE WaitOK(p)'
  <2>0. WaitOK(p)
    BY DEF Control
  <2>1. ASSUME Making(p) PROVE Waits(p, "once")'
    <3>1. PICK s \in Runs : s[1] = p /\ pc[s] = "once"
      BY <2>0, <2>1 DEF WaitOK, Waits
    <3>2. s # r
      BY <2>1, <3>1
    <3> QED BY <3>1, <3>2 DEF Waits
  <2>2. ASSUME joined[p] \in {"stat", "load", "uid", "gid"} PROVE Waits(p, "join")'
    <3>1. PICK s \in Runs : s[1] = p /\ pc[s] = "join"
      BY <2>0, <2>2 DEF WaitOK, Waits
    <3>2. s # r
      BY <2>2, <3>1
    <3> QED BY <3>1, <3>2 DEF Waits
  <2> QED BY <2>1, <2>2 DEF WaitOK, Making
<1>5. ASSUME NEW s \in Runs \ {r} PROVE CallOK(s)'
  BY <1>5 DEF Control, CallOK, Resting
<1>6. Orderly(scene)'
  BY DEF Control, Orderly
<1> QED BY <1>1, <1>2, <1>3, <1>4, <1>5, <1>6 DEF Control

LEMMA ControlBegin ==
    ASSUME Control, TypeInv', NEW r \in Runs, NEW c \in Calls, Begin(r, c)
    PROVE  Control'
<1>1. /\ r[1] \in alive /\ r[2] \in scene.threads /\ pc[r] = "idle"
      /\ scene.serial => Quiet
      /\ c.kind = "set" =>
            /\ scene.sets # "any" => joined[r[1]] = "yes"
            /\ scene.sets = "one" => Setting = {}
      /\ call' = [call EXCEPT ![r] = c]
      /\ pc' = [pc EXCEPT ![r] = IF c.kind = "set" THEN "read" ELSE "ensure"]
      /\ UNCHANGED <<store, half>>
  BY DEF Begin
<1>2. Outer(r)
  BY <1>1, CredentialsAssumption DEF Outer, Scene, Control, TypeInv, Typed
<1>3. UNCHANGED <<scene, alive, made, joined, attached>>
  BY <1>1 DEF store, process
<1>4. \A s \in Runs \ {r} : pc'[s] = pc[s] /\ call'[s] = call[s] /\ half'[s] = half[s]
  BY <1>1 DEF Control, TypeInv, Typed
<1>5. pc'[r] = (IF c.kind = "set" THEN "read" ELSE "ensure") /\ call'[r] = c
      /\ half'[r] = half[r]
  BY <1>1 DEF Control, TypeInv, Typed
<1>6. CallOK(r)'
  <2>1. half[r] = "uid"
    BY <1>1 DEF Control, CallOK
  <2> QED BY <1>1, <1>3, <1>5, <2>1 DEF CallOK, Resting
<1>7. call'[r].kind = "set" => \A s \in Runs : call[s].kind # "set"
  <2> SUFFICES ASSUME c.kind = "set", NEW s \in Runs, call[s].kind = "set" PROVE FALSE
    BY <1>5
  <2>1. ~ Resting(s)
    BY UseTyped DEF Control, CallOK
  <2>2. Setting # {} /\ ~ Quiet
    BY <2>1 DEF Setting, Quiet
  <2> QED BY <1>1, <2>2 DEF Control, Orderly
<1> QED BY <1>1, <1>2, <1>3, <1>4, <1>6, <1>7, ControlMoves

LEMMA ControlNested ==
    ASSUME Control, TypeInv', NEW p \in Procs, Nested(p)
    PROVE  Control'
<1> DEFINE r == <<p, Inner>>
<1>0. r \in Runs /\ r[1] = p /\ ~ Outer(r) /\ call[r] = Use
  BY InnerRun DEF Control, InnerOK, Outer
<1>1. Making(p) /\ pc[r] = "idle" /\ pc' = [pc EXCEPT ![r] = "ensure"]
      /\ UNCHANGED <<store, call, ids, half, want>>
  BY DEF Nested
<1>2. p \in alive
  BY <1>1 DEF Control, AwayOK, Making
<1>3. UNCHANGED <<scene, alive, made, joined, attached>>
  BY <1>1 DEF store, process
<1>4. pc'[r] = "ensure" /\ \A s \in Runs \ {r} : pc'[s] = pc[s]
  BY <1>0, <1>1 DEF Control, TypeInv, Typed
<1>5. CallOK(r)'
  <2>1. half[r] = "uid"
    BY <1>0, <1>1 DEF Control, CallOK
  <2> QED BY <1>0, <1>1, <1>3, <1>4, <2>1, UseTyped DEF CallOK, Resting
<1> QED BY <1>0, <1>1, <1>2, <1>3, <1>4, <1>5, ControlMoves

\* A step of a call that only moves on.
LEMMA ControlGoesOn ==
    ASSUME Control, TypeInv', NEW r \in Runs, ~ Resting(r),
           UNCHANGED <<scene, alive, made, joined, attached, call, half>>,
           NEW to, pc' = [pc EXCEPT ![r] = to],
           pc[r] = "once" => ~ Making(r[1]), pc[r] = "join" => joined[r[1]] = "yes",
           pc[r] # "boot" /\ pc[r] # "session",
           \/ to \in {"once", "ensure", "join"}
           \/ to = Body(r) /\ (call[r].kind = "set" => joined[r[1]] = "yes")
              /\ (call[r].kind = "use" => call[r] = Use),
           ~ Outer(r) => to = "over" \/ (to = "join" /\ joined[r[1]] # "no")
    PROVE  Control'
<1>1. r[1] \in alive
  BY BusyAlive
<1>2. pc'[r] = to /\ \A s \in Runs \ {r} : pc'[s] = pc[s]
  BY DEF Control, TypeInv, Typed
<1>3. half[r] = "uid"
  BY DEF Control, CallOK
<1>4. call[r].kind \in {"set", "use"}
  BY CallTyped DEF Control, TypeInv, Typed
<1>5. /\ to \in {"once", "ensure", "join", "boot", "over", "idle"}
      /\ to = "boot" => call[r].kind = "set" /\ joined[r[1]] = "yes"
      /\ to \in {"over", "idle"} => call[r] = Use
  BY <1>4 DEF Body
<1>6. call[r].kind = "set" /\ scene.sets # "any" => joined[r[1]] = "yes"
  BY DEF Control, CallOK
<1>7. CallOK(r)'
  BY <1>2, <1>3, <1>5, <1>6 DEF CallOK, Resting
<1>8. ~ Outer(r) => call[r] = Use
  BY InnerOnly, RunTyped DEF Control, InnerOK, Outer
<1> QED BY <1>1, <1>2, <1>5, <1>7, <1>8, ControlMoves

\* A call that sets ids goes on, or returns, after it has joined.
LEMMA ControlStores ==
    ASSUME Control, TypeInv', NEW r \in Runs, pc[r] \in {"boot", "local", "session"},
           UNCHANGED <<scene, alive, made, joined, attached>>,
           \A s \in Runs \ {r} : pc'[s] = pc[s] /\ call'[s] = call[s] /\ half'[s] = half[s],
           \/ /\ pc'[r] \in {"boot", "local", "session"} /\ call'[r] = call[r]
              /\ pc'[r] = "session" => attached[r[1]]
              /\ pc'[r] = "local" => half'[r] = "uid"
           \/ pc'[r] = "idle" /\ call'[r] = Use /\ half'[r] = "uid"
    PROVE  Control'
<1>0. ~ Resting(r)
  BY DEF Resting
<1>1. r[1] \in alive
  BY <1>0, BusyAlive
<1>2. joined[r[1]] = "yes" /\ call[r].kind = "set"
  BY DEF Control, CallOK
<1>3. Outer(r)
  BY InnerOnly, RunTyped DEF Control, InnerOK, Outer
<1>4. CallOK(r)'
  BY <1>2, UseTyped DEF CallOK, Resting
<1> QED BY <1>0, <1>1, <1>2, <1>3, <1>4, ControlMoves

\* What Returns does to the runs.
LEMMA ReturnsIs ==
    ASSUME TypeInv, NEW r \in Runs, Returns(r)
    PROVE  /\ pc'[r] = "idle" /\ call'[r] = Use
           /\ \A s \in Runs \ {r} : pc'[s] = pc[s] /\ call'[s] = call[s] /\ ids'[s] = ids[s]
           /\ \A p \in Procs : want'[p] =
                 IF p = r[1] \/ Shared THEN [want[p] EXCEPT ![call[r].id] = call[r].value]
                 ELSE want[p]
  BY DEF Returns, TypeInv, Typed

LEMMA ControlCallStep ==
    ASSUME Control, TypeInv', NEW r \in Runs, CallStep(r)
    PROVE  Control'
<1>t. TypeInv /\ CallOK(r)
  BY DEF Control
<1>i. ~ Outer(r) => pc[r] \in {"idle", "ensure", "join", "over"} /\ call[r] = Use
                    /\ (pc[r] = "ensure" => Making(r[1]) \/ joined[r[1]] # "no")
  BY InnerOnly, RunTyped DEF Control, InnerOK, Outer
<1>1. CASE Read(r)
  <2>1. /\ pc[r] = "read" /\ pc' = [pc EXCEPT ![r] = "ensure"]
        /\ UNCHANGED <<store, call, half, want>>
    BY <1>1 DEF Read
  <2>2. ~ Resting(r) /\ Outer(r)
    BY <1>i, <2>1 DEF Resting
  <2> QED BY <2>1, <2>2, ControlGoesOn DEF store, process
<1>2. CASE Ensure(r)
  <2>1. /\ pc[r] = "ensure"
        /\ pc' = [pc EXCEPT ![r] = IF Made(r[1]) THEN "join"
                                   ELSE IF Making(r[1]) THEN Body(r) ELSE "once"]
        /\ UNCHANGED <<scene, alive, made, joined, attached, call, half>>
    BY <1>2 DEF Ensure, store, process
  <2>2. ~ Resting(r)
    BY <2>1 DEF Resting
  <2>3. CASE Made(r[1])
    <3>1. ~ Making(r[1])
      BY <2>3 DEF Made, Making
    <3> QED BY <1>i, <2>1, <2>2, <2>3, <3>1, ControlGoesOn
  <2>4. CASE Making(r[1])
    <3>1. call[r].kind # "set"
      BY <2>1, <2>4, NotMaking
    <3>2. call[r].kind = "use" /\ call[r] = Use
      <4>1. call[r] \in Calls
        BY <1>t DEF TypeInv, Typed
      <4> QED BY <3>1, <4>1 DEF Calls, Use
    <3>3. ~ Made(r[1])
      BY <2>4 DEF Made, Making
    <3>4. ~ Outer(r) => Body(r) = "over"
      BY <3>2 DEF Body, Outer
    <3>5. pc' = [pc EXCEPT ![r] = Body(r)]
      BY <2>1, <2>4, <3>3
    <3>6. PICK to : to = Body(r)
      OBVIOUS
    <3>7. pc' = [pc EXCEPT ![r] = to] /\ (~ Outer(r) => to = "over")
      BY <3>4, <3>5, <3>6
    <3> QED BY <2>1, <2>2, <3>1, <3>2, <3>6, <3>7, ControlGoesOn
  <2>5. CASE ~ Made(r[1]) /\ ~ Making(r[1])
    <3>1. Outer(r)
      <4>1. made[r[1]] = "no"
        BY <1>t, <2>5, RunTyped DEF TypeInv, Typed, Made, Making
      <4>2. joined[r[1]] = "no"
        BY <1>t, <4>1, RunTyped DEF TypeInv, Linked
      <4> QED BY <1>i, <2>1, <2>5, <4>2
    <3> QED BY <2>1, <2>2, <2>5, <3>1, ControlGoesOn
  <2> QED BY <2>3, <2>4, <2>5
<1>3. CASE Once(r)
  <2>1. /\ pc[r] = "once" /\ Made(r[1]) /\ pc' = [pc EXCEPT ![r] = "join"]
        /\ UNCHANGED <<scene, alive, made, joined, attached, call, half>>
    BY <1>3 DEF Once, store, process
  <2>2. ~ Resting(r) /\ Outer(r) /\ ~ Making(r[1])
    BY <1>i, <2>1 DEF Resting, Made, Making
  <2> QED BY <2>1, <2>2, ControlGoesOn
<1>4. CASE Joined(r)
  <2>1. /\ pc[r] = "join" /\ joined[r[1]] = "yes" /\ pc' = [pc EXCEPT ![r] = Body(r)]
        /\ UNCHANGED <<scene, alive, made, joined, attached, call, half>>
    BY <1>4 DEF Joined, store, process
  <2>2. ~ Resting(r)
    BY <2>1 DEF Resting
  <2>3. call[r].kind = "use" => call[r] = Use
    <3>1. call[r] \in Calls
      BY <1>t DEF TypeInv, Typed
    <3> QED BY <3>1 DEF Calls, Use
  <2>4. ~ Outer(r) => Body(r) = "over"
    BY <1>i, UseTyped DEF Body, Outer
  <2> QED BY <2>1, <2>2, <2>3, <2>4, ControlGoesOn
<1>5. CASE StoreBoot(r)
  <2>1. /\ pc[r] = "boot" /\ half' = [half EXCEPT ![r] = Other(half[r])]
        /\ pc' = IF half[r] = "gid" THEN [pc EXCEPT ![r] = "local"] ELSE pc
        /\ UNCHANGED <<scene, alive, made, joined, attached, call>>
    BY <1>5 DEF StoreBoot
  <2>2. \A s \in Runs \ {r} : pc'[s] = pc[s] /\ half'[s] = half[s]
    BY <1>t, <2>1 DEF TypeInv, Typed
  <2>3. pc'[r] = (IF half[r] = "gid" THEN "local" ELSE "boot") /\ half'[r] = Other(half[r])
    BY <1>t, <2>1 DEF TypeInv, Typed
  <2>4. pc'[r] = "local" => half'[r] = "uid"
    BY <2>3 DEF Other
  <2> QED BY <2>1, <2>2, <2>3, <2>4, ControlStores
<1>6. CASE StoreLocal(r)
  <2>1. pc[r] = "local" /\ UNCHANGED <<scene, alive, made, joined, attached, half>>
    BY <1>6 DEF StoreLocal
  <2>2. half[r] = "uid"
    BY <1>t, <2>1 DEF CallOK
  <2>3. CASE attached[r[1]]
    <3>1. pc' = [pc EXCEPT ![r] = "session"] /\ call' = call
      BY <1>6, <2>3 DEF StoreLocal
    <3>2. pc'[r] = "session" /\ \A s \in Runs \ {r} : pc'[s] = pc[s]
      BY <1>t, <3>1 DEF TypeInv, Typed
    <3> QED BY <2>1, <2>3, <3>1, <3>2, ControlStores
  <2>4. CASE ~ attached[r[1]]
    <3>1. Returns(r)
      BY <1>6, <2>4 DEF StoreLocal
    <3> QED BY <1>t, <2>1, <2>2, <3>1, ReturnsIs, ControlStores
  <2> QED BY <2>3, <2>4
<1>7. CASE StoreSession(r)
  <2>1. /\ pc[r] = "session" /\ half' = [half EXCEPT ![r] = Other(half[r])]
        /\ UNCHANGED <<scene, alive, made, joined, attached>>
    BY <1>7 DEF StoreSession, process
  <2>2. half'[r] = Other(half[r]) /\ \A s \in Runs \ {r} : half'[s] = half[s]
    BY <1>t, <2>1 DEF TypeInv, Typed
  <2>3. CASE half[r] = "gid"
    <3>1. Returns(r) /\ half'[r] = "uid"
      BY <1>7, <2>2, <2>3 DEF StoreSession, Other
    <3> QED BY <1>t, <2>1, <2>2, <3>1, ReturnsIs, ControlStores
  <2>4. CASE half[r] # "gid"
    <3>1. UNCHANGED <<pc, call>> /\ attached[r[1]]
      BY <1>7, <1>t, <2>4 DEF StoreSession, CallOK
    <3> QED BY <2>1, <2>2, <3>1, ControlStores
  <2> QED BY <2>3, <2>4
<1> QED BY <1>1, <1>2, <1>3, <1>4, <1>5, <1>6, <1>7 DEF CallStep

\* The steps of the initializations.
LEMMA ControlMake ==
    ASSUME Control, TypeInv', NEW p \in Procs, Make(p)
    PROVE  Control'
<1>0. TypeInv /\ InnerOK(p) /\ WaitOK(p) /\ AwayOK(p)
  BY DEF Control
<1>1. /\ Resting(<<p, Inner>>)
      /\ \/ made[p] = "no" /\ Waits(p, "once") /\ made' = [made EXCEPT ![p] = "load"]
         \/ made[p] = "load" /\ made' = [made EXCEPT ![p] = "store"]
         \/ made[p] = "store" /\ made' = [made EXCEPT ![p] = "done"]
      /\ UNCHANGED <<scene, alive, joined, attached, pc, call, half>>
  BY DEF Make, thread
<1>2. \A q \in Procs \ {p} : made'[q] = made[q]
  BY <1>0, <1>1 DEF TypeInv, Typed
<1>3. p \in alive
  BY <1>0, <1>1, WaiterAlive DEF AwayOK
<1>4. Waits(p, "once")
  BY <1>0, <1>1 DEF WaitOK, Making
<1>5. pc[<<p, Inner>>] \in {"idle", "over"}
  BY <1>1 DEF Resting
<1>6. ASSUME NEW q \in Procs PROVE InnerOK(q)' /\ AwayOK(q)' /\ WaitOK(q)'
  <2>0. InnerOK(q) /\ AwayOK(q) /\ WaitOK(q)
    BY DEF Control
  <2>1. InnerOK(q)'
    BY <1>1, <1>2, <1>5, <2>0 DEF InnerOK, Making
  <2>2. AwayOK(q)'
    BY <1>1, <1>2, <1>3, <2>0 DEF AwayOK, RestingProc, Resting
  <2>3. WaitOK(q)'
    BY <1>1, <1>2, <1>4, <2>0 DEF WaitOK, Making, Waits
  <2> QED BY <2>1, <2>2, <2>3
<1>7. ASSUME NEW r \in Runs PROVE CallOK(r)'
  BY <1>1 DEF Control, CallOK, Resting
<1>8. Turns' /\ Orderly(scene)'
  BY <1>1 DEF Control, Turns, Orderly, Resting
<1> QED BY <1>6, <1>7, <1>8 DEF Control

\* A process goes on with its second initialization.
LEMMA ControlJoins ==
    ASSUME Control, TypeInv', NEW p \in Procs, p \in alive, joined[p] # "yes",
           UNCHANGED <<scene, alive, made, call, half>>,
           \A q \in Procs \ {p} : joined'[q] = joined[q] /\ attached'[q] = attached[q],
           joined'[p] # "no", Waits(p, "join")',
           \A r \in Runs : pc'[r] = pc[r] \/ (r = <<p, Inner>> /\ pc'[r] = "ensure")
    PROVE  Control'
<1>1. ASSUME NEW q \in Procs PROVE InnerOK(q)' /\ AwayOK(q)' /\ WaitOK(q)'
  <2>0. InnerOK(q) /\ AwayOK(q) /\ WaitOK(q) /\ <<q, Inner>> \in Runs
    BY InnerRun DEF Control
  <2>1. InnerOK(q)'
    BY <2>0 DEF InnerOK, Making
  <2>2. AwayOK(q)'
    <3>1. \A r \in Runs : q \notin alive /\ r[1] = q => pc'[r] = pc[r]
      BY InnerRun
    <3> QED BY <2>0, <3>1 DEF AwayOK, RestingProc, Resting
  <2>3. Making(q) => Waits(q, "once")'
    <3> SUFFICES ASSUME Making(q) PROVE Waits(q, "once")'
      OBVIOUS
    <3>1. PICK r \in Runs : r[1] = q /\ pc[r] = "once"
      BY <2>0 DEF WaitOK, Waits
    <3>2. pc'[r] = "once"
      BY <3>1, InnerRun DEF Control, InnerOK
    <3> QED BY <3>1, <3>2 DEF Waits
  <2>4. joined[q] \in {"stat", "load", "uid", "gid"} /\ q # p => Waits(q, "join")'
    <3> SUFFICES ASSUME joined[q] \in {"stat", "load", "uid", "gid"}, q # p
                 PROVE  Waits(q, "join")'
      OBVIOUS
    <3>1. PICK r \in Runs : r[1] = q /\ pc[r] = "join"
      BY <2>0 DEF WaitOK, Waits
    <3>2. pc'[r] = "join"
      BY <3>1, InnerRun
    <3> QED BY <3>1, <3>2 DEF Waits
  <2>5. WaitOK(q)'
    BY <2>3, <2>4 DEF WaitOK, Making
  <2> QED BY <2>1, <2>2, <2>5
<1>2. ASSUME NEW r \in Runs PROVE CallOK(r)'
  <2>0. CallOK(r) /\ r[1] \in Procs
    BY RunTyped DEF Control
  <2>1. CASE pc'[r] = pc[r]
    BY <2>0, <2>1 DEF CallOK, Resting
  <2>2. CASE pc'[r] # pc[r]
    <3>1. call[r] = Use /\ pc[r] \notin {"boot", "session"} /\ pc'[r] = "ensure"
      BY <2>2 DEF Control, InnerOK
    <3> QED BY <2>0, <3>1, UseTyped DEF CallOK, Resting
  <2> QED BY <2>1, <2>2
<1>3. Turns'
  <2>1. \A r \in Runs : Outer(r) => pc'[r] = pc[r]
    BY InnerRun DEF Outer
  <2> QED BY <2>1 DEF Control, Turns, Resting
<1>4. Orderly(scene)'
  BY DEF Control, Orderly
<1> QED BY <1>1, <1>2, <1>3, <1>4 DEF Control

LEMMA ControlInitStep ==
    ASSUME Control, TypeInv', NEW p \in Procs, InitStep(p)
    PROVE  Control'
<1>t. TypeInv
  BY DEF Control
<1>1. CASE Make(p)
  BY <1>1, ControlMake
<1>2. CASE JoinStarts(p)
  <2>1. /\ joined[p] = "no" /\ Waits(p, "join")
        /\ \E to \in {"stat", "load"} : joined' = [joined EXCEPT ![p] = to]
        /\ pc' = pc \/ pc' = [pc EXCEPT ![<<p, Inner>>] = "ensure"]
        /\ UNCHANGED <<scene, alive, made, attached, call, half>>
    BY <1>2 DEF JoinStarts
  <2>2. \A r \in Runs : pc'[r] = pc[r] \/ (r = <<p, Inner>> /\ pc'[r] = "ensure")
    BY <1>t, <2>1 DEF TypeInv, Typed
  <2>3. Waits(p, "join")'
    <3>1. PICK r \in Runs : r[1] = p /\ pc[r] = "join"
      BY <2>1 DEF Waits
    <3>2. r # <<p, Inner>>
      BY <2>1, <3>1 DEF Control, InnerOK
    <3> QED BY <2>2, <3>1, <3>2 DEF Waits
  <2>4. joined'[p] # "no" /\ \A q \in Procs \ {p} : joined'[q] = joined[q]
    BY <1>t, <2>1 DEF TypeInv, Typed
  <2>5. p \in alive
    BY <2>1, WaiterAlive
  <2> QED BY <2>1, <2>2, <2>3, <2>4, <2>5, ControlJoins
<1>3. CASE Attach(p)
  <2>1. /\ joined[p] \in {"load", "stat"}
        /\ attached' = [attached EXCEPT ![p] = scene.mode # "local"]
        /\ joined' = [joined EXCEPT ![p] = IF scene.mode = "daemon" THEN "uid" ELSE "yes"]
        /\ UNCHANGED <<scene, alive, made, pc, call, half>>
    BY <1>3 DEF Attach, thread
  <2>2. Waits(p, "join")'
    BY <2>1 DEF Control, WaitOK, Waits
  <2>3. joined'[p] # "no"
        /\ \A q \in Procs \ {p} : joined'[q] = joined[q] /\ attached'[q] = attached[q]
    BY <1>t, <2>1 DEF TypeInv, Typed
  <2>4. p \in alive
    BY <2>1 DEF Control, AwayOK
  <2> QED BY <2>1, <2>2, <2>3, <2>4, ControlJoins
<1>4. CASE DaemonInit(p)
  <2>1. /\ joined[p] \in {"uid", "gid"}
        /\ joined' = [joined EXCEPT ![p] = IF joined[p] = "uid" THEN "gid" ELSE "yes"]
        /\ UNCHANGED <<scene, alive, made, attached, pc, call, half>>
    BY <1>4 DEF DaemonInit, thread, Id
  <2>2. Waits(p, "join")'
    BY <2>1 DEF Control, WaitOK, Waits
  <2>3. joined'[p] # "no"
        /\ \A q \in Procs \ {p} : joined'[q] = joined[q]
    BY <1>t, <2>1 DEF TypeInv, Typed
  <2>4. p \in alive
    BY <2>1 DEF Control, AwayOK
  <2> QED BY <2>1, <2>2, <2>3, <2>4, ControlJoins
<1> QED BY <1>1, <1>2, <1>3, <1>4 DEF InitStep

\* A process is copied, whole and at rest.
LEMMA ForkIs ==
    ASSUME TypeInv, NEW p \in Procs, NEW q \in Procs, Fork(p, q)
    PROVE  /\ scene.birth = "fork" /\ p \in alive /\ q \notin alive /\ joined[p] = "yes"
           /\ alive' = alive \cup {q} /\ UNCHANGED <<scene, session, pc, call, ids, half>>
           /\ made'[q] = made[p] /\ joined'[q] = joined[p] /\ attached'[q] = attached[p]
           /\ boot'[q] = boot[p] /\ local'[q] = local[p] /\ loaded'[q] = loaded[p]
           /\ want'[q] = want[p]
           /\ \A o \in Procs \ {q} :
                 /\ made'[o] = made[o] /\ joined'[o] = joined[o]
                 /\ attached'[o] = attached[o] /\ boot'[o] = boot[o]
                 /\ local'[o] = local[o] /\ loaded'[o] = loaded[o] /\ want'[o] = want[o]
  BY DEF TypeInv, Typed, Fork, thread

LEMMA ControlFork ==
    ASSUME Control, TypeInv', NEW p \in Procs, NEW q \in Procs, Fork(p, q)
    PROVE  Control'
<1>0. TypeInv
  BY DEF Control
<1>1. /\ p \in alive /\ q \notin alive /\ joined[p] = "yes"
      /\ alive' = alive \cup {q} /\ UNCHANGED <<scene, pc, call, half>>
      /\ made'[q] = made[p] /\ joined'[q] = joined[p]
      /\ \A o \in Procs \ {q} : /\ made'[o] = made[o] /\ joined'[o] = joined[o]
                                /\ attached'[o] = attached[o]
  BY <1>0, ForkIs
<1>2. made[p] = "done"
  BY <1>0, <1>1 DEF TypeInv, Linked
<1>3. RestingProc(q)
  BY <1>1 DEF Control, AwayOK
<1>4. ASSUME NEW o \in Procs PROVE InnerOK(o)' /\ AwayOK(o)' /\ WaitOK(o)'
  <2>0. InnerOK(o) /\ AwayOK(o) /\ WaitOK(o)
    BY DEF Control
  <2>1. InnerOK(o)'
    BY <1>1, <1>2, <2>0 DEF InnerOK, Making
  <2>2. AwayOK(o)'
    BY <1>1, <2>0 DEF AwayOK, RestingProc, Resting
  <2>3. WaitOK(o)'
    BY <1>1, <1>2, <2>0 DEF WaitOK, Making, Waits
  <2> QED BY <2>1, <2>2, <2>3
<1>5. ASSUME NEW r \in Runs PROVE CallOK(r)'
  <2>0. CallOK(r) /\ r[1] \in Procs
    BY RunTyped DEF Control
  <2>1. CASE r[1] = q
    <3>1. Resting(r) /\ call[r] = Use
      BY <1>3, <2>0, <2>1 DEF RestingProc, CallOK
    <3> QED BY <1>1, <2>0, <3>1, UseTyped DEF CallOK, Resting
  <2>2. CASE r[1] # q
    BY <1>1, <2>0, <2>2 DEF CallOK, Resting
  <2> QED BY <2>1, <2>2
<1>6. Turns' /\ Orderly(scene)'
  BY <1>1 DEF Control, Turns, Orderly, Resting
<1> QED BY <1>4, <1>5, <1>6 DEF Control

LEMMA ControlExec ==
    ASSUME Control, TypeInv', NEW q \in Procs, Exec(q)
    PROVE  Control'
<1>1. alive' = alive \cup {q} /\ UNCHANGED <<scene, made, joined, attached, pc, call, half>>
  BY DEF Exec, process, thread
<1>2. ASSUME NEW o \in Procs PROVE InnerOK(o)' /\ AwayOK(o)' /\ WaitOK(o)'
  <2>0. InnerOK(o) /\ AwayOK(o) /\ WaitOK(o)
    BY DEF Control
  <2>1. InnerOK(o)' /\ WaitOK(o)'
    BY <1>1, <2>0 DEF InnerOK, WaitOK, Making, Waits
  <2>2. AwayOK(o)'
    BY <1>1, <2>0 DEF AwayOK, RestingProc, Resting
  <2> QED BY <2>1, <2>2
<1>3. ASSUME NEW r \in Runs PROVE CallOK(r)'
  BY <1>1 DEF Control, CallOK, Resting
<1>4. Turns' /\ Orderly(scene)'
  BY <1>1 DEF Control, Turns, Orderly, Resting
<1> QED BY <1>2, <1>3, <1>4 DEF Control

\* A process goes, with nothing left of it.
LEMMA ExitIs ==
    ASSUME TypeInv, NEW p \in Procs, Exit(p)
    PROVE  /\ p \in alive /\ RestingProc(p) /\ scene.birth # "none"
           /\ alive' = alive \ {p} /\ UNCHANGED <<scene, session, call, ids, half>>
           /\ made'[p] = "no" /\ joined'[p] = "no" /\ ~ attached'[p]
           /\ boot'[p] = Env /\ local'[p] = Env /\ loaded'[p] = Env
           /\ want'[p] = IF Shared THEN want[p] ELSE Env
           /\ \A o \in Procs \ {p} :
                 /\ made'[o] = made[o] /\ joined'[o] = joined[o]
                 /\ attached'[o] = attached[o] /\ boot'[o] = boot[o]
                 /\ local'[o] = local[o] /\ loaded'[o] = loaded[o] /\ want'[o] = want[o]
           /\ \A r \in Runs : pc'[r] = IF r[1] = p THEN "idle" ELSE pc[r]
<1>1. /\ p \in alive /\ RestingProc(p) /\ scene.birth # "none"
      /\ alive' = alive \ {p} /\ UNCHANGED <<scene, session, call, ids, half>>
      /\ boot' = [boot EXCEPT ![p] = Env] /\ local' = [local EXCEPT ![p] = Env]
      /\ made' = [made EXCEPT ![p] = "no"] /\ joined' = [joined EXCEPT ![p] = "no"]
      /\ loaded' = [loaded EXCEPT ![p] = Env]
      /\ attached' = [attached EXCEPT ![p] = FALSE]
      /\ pc' = [r \in Runs |-> IF r[1] = p THEN "idle" ELSE pc[r]]
      /\ want' = IF Shared THEN want ELSE [want EXCEPT ![p] = Env]
  BY DEF Exit
<1>2. TypeInv
  OBVIOUS
<1>3. made'[p] = "no" /\ joined'[p] = "no" /\ ~ attached'[p]
      /\ boot'[p] = Env /\ local'[p] = Env /\ loaded'[p] = Env
  BY <1>1, <1>2 DEF TypeInv, Typed
<1>4. want'[p] = IF Shared THEN want[p] ELSE Env
  BY <1>1, <1>2 DEF TypeInv, Typed
<1>5. \A o \in Procs \ {p} :
         /\ made'[o] = made[o] /\ joined'[o] = joined[o]
         /\ attached'[o] = attached[o] /\ boot'[o] = boot[o]
         /\ local'[o] = local[o] /\ loaded'[o] = loaded[o] /\ want'[o] = want[o]
  BY <1>1, <1>2 DEF TypeInv, Typed
<1> QED BY <1>1, <1>3, <1>4, <1>5

LEMMA ControlExit ==
    ASSUME Control, TypeInv', NEW p \in Procs, Exit(p)
    PROVE  Control'
<1>1. /\ RestingProc(p) /\ alive' = alive \ {p} /\ UNCHANGED <<scene, call, half>>
      /\ made'[p] = "no" /\ joined'[p] = "no" /\ ~ attached'[p]
      /\ \A o \in Procs \ {p} : /\ made'[o] = made[o] /\ joined'[o] = joined[o]
                                /\ attached'[o] = attached[o]
      /\ \A r \in Runs : pc'[r] = IF r[1] = p THEN "idle" ELSE pc[r]
  BY ExitIs DEF Control
<1>2. ASSUME NEW o \in Procs PROVE InnerOK(o)' /\ AwayOK(o)' /\ WaitOK(o)'
  <2>0. InnerOK(o) /\ AwayOK(o) /\ WaitOK(o) /\ <<o, Inner>> \in Runs /\ <<o, Inner>>[1] = o
    BY InnerRun DEF Control
  <2>1. CASE o = p
    <3>1. \A r \in Runs : r[1] = o => pc'[r] = "idle"
      BY <1>1, <2>1
    <3>2. InnerOK(o)'
      BY <1>1, <2>0, <3>1 DEF InnerOK
    <3>3. AwayOK(o)' /\ WaitOK(o)'
      BY <1>1, <2>1, <3>1 DEF AwayOK, RestingProc, Resting, WaitOK, Making
    <3> QED BY <3>2, <3>3
  <2>2. CASE o # p
    <3>1. \A r \in Runs : r[1] = o => pc'[r] = pc[r]
      BY <1>1, <2>2
    <3>2. InnerOK(o)'
      BY <1>1, <2>0, <2>2, <3>1 DEF InnerOK, Making
    <3>3. AwayOK(o)'
      BY <1>1, <2>0, <2>2, <3>1 DEF AwayOK, RestingProc, Resting
    <3>4. WaitOK(o)'
      BY <1>1, <2>0, <2>2, <3>1 DEF WaitOK, Making, Waits
    <3> QED BY <3>2, <3>3, <3>4
  <2> QED BY <2>1, <2>2
<1>3. ASSUME NEW r \in Runs PROVE CallOK(r)'
  <2>0. CallOK(r) /\ r[1] \in Procs
    BY RunTyped DEF Control
  <2>1. CASE r[1] = p
    <3>1. Resting(r) /\ call[r] = Use /\ half[r] = "uid"
      BY <1>1, <2>0, <2>1 DEF RestingProc, CallOK, Resting
    <3> QED BY <1>1, <2>1, <3>1, UseTyped DEF CallOK
  <2>2. CASE r[1] # p
    BY <1>1, <2>0, <2>2 DEF CallOK, Resting
  <2> QED BY <2>1, <2>2
<1>4. Turns'
  BY <1>1 DEF Control, Turns, Resting
<1>5. Orderly(scene)'
  BY <1>1 DEF Control, Orderly
<1> QED BY <1>2, <1>3, <1>4, <1>5 DEF Control

LEMMA ControlStutter == Control /\ UNCHANGED vars => Control'
<1> SUFFICES ASSUME Control, UNCHANGED vars PROVE Control'
  OBVIOUS
<1>1. TypeInv'
  BY TypeStutter DEF Control
<1>2. ASSUME NEW p \in Procs PROVE InnerOK(p)' /\ AwayOK(p)' /\ WaitOK(p)'
  BY DEF Control, InnerOK, AwayOK, WaitOK, Making, Waits, RestingProc, Resting, vars,
         process, thread
<1>3. ASSUME NEW r \in Runs PROVE CallOK(r)'
  BY DEF Control, CallOK, Resting, vars, process, thread
<1>4. Turns' /\ Orderly(scene)'
  BY DEF Control, Turns, Orderly, Resting, vars, thread
<1> QED BY <1>1, <1>2, <1>3, <1>4 DEF Control

LEMMA ControlStep == Control /\ [Next]_vars => Control'
<1> SUFFICES ASSUME Control, [Next]_vars PROVE Control'
  OBVIOUS
<1>1. Setter
  BY DEF Control, CallOK, Setter
<1>2. TypeInv'
  BY <1>1, TypeStep DEF Control
<1>3. CASE UNCHANGED vars
  BY <1>3, ControlStutter
<1>4. ASSUME NEW p \in Procs, InitStep(p) \/ Nested(p) \/ Exec(p) \/ Exit(p) PROVE Control'
  BY <1>2, <1>4, ControlInitStep, ControlNested, ControlExec, ControlExit
<1>5. ASSUME NEW p \in Procs, NEW q \in Procs, Fork(p, q) PROVE Control'
  BY <1>2, <1>5, ControlFork
<1>6. ASSUME NEW r \in Runs, CallStep(r) PROVE Control'
  BY <1>2, <1>6, ControlCallStep
<1>7. ASSUME NEW r \in Runs, NEW c \in Calls, Begin(r, c) PROVE Control'
  BY <1>2, <1>7, ControlBegin
<1> QED BY <1>3, <1>4, <1>5, <1>6, <1>7 DEF Next
-----------------------------------------------------------------------------
(***************************************************************************)
(* What the copies of the ids hold.                                        *)
(***************************************************************************)
\* Until a process has joined its session its ids are those of the environment,
FreshOK(p) ==
    joined[p] # "yes" => /\ boot[p] = Env /\ local[p] = Env /\ loaded[p] = Env
                         /\ ~ Shared => want[p] = Env

\* and so are those of the session it joins: it is alone in it.
AloneOK ==
    Shared => \A p \in alive : joined[p] # "yes" =>
        session = Env /\ want[p] = Env /\ alive = {p}

\* What a call is to store: the new id, and the other one as it was.
IdsOK(r) ==
    call[r].kind = "set" => \A i \in Id :
       IF i = call[r].id THEN ids[r][i] = call[r].value
       ELSE pc[r] # "read" => ids[r][i] = want[r[1]][i]

\* It has stored the user in the session, and not yet the group.
Halfway(r) == pc[r] = "session" /\ half[r] = "gid"

HalfOK(r) == Halfway(r) => session["uid"] = ids[r]["uid"]

SeenOK(p) ==
    p \in alive => \A i \in Id :
        i = "gid" \/ (\A r \in Runs : ~ Halfway(r)) => Seen(p)[i] = want[p][i]

WantOK == Shared => \A p, q \in Procs : want[p] = want[q]

\* The own state of the only process of a session is set before the session is.
OwnOK ==
    Shared /\ scene.birth = "none" =>
       /\ alive = {First}
       /\ (\A r \in Runs : pc[r] # "session") => local[First] = want[First]
       /\ \A r \in Runs : pc[r] = "session" => r[1] = First /\ local[First] = ids[r]

Values ==
    /\ AloneOK /\ WantOK /\ OwnOK
    /\ \A p \in Procs : FreshOK(p) /\ SeenOK(p)
    /\ \A r \in Runs : IdsOK(r) /\ HalfOK(r)

LEMMA PairSame ==
    ASSUME NEW a \in Pair, NEW b \in Pair, \A i \in Id : a[i] = b[i]
    PROVE  a = b
  BY DEF Pair

\* Only one call sets ids.
LEMMA OneSets ==
    ASSUME Control, NEW r \in Runs, call[r].kind = "set"
    PROVE  /\ \A s \in Runs \ {r} : /\ call[s].kind # "set" /\ pc[s] # "session"
                                    /\ ~ Halfway(s)
           /\ pc[r] # "session" => \A s \in Runs : ~ Halfway(s)
<1>1. \A s \in Runs \ {r} : call[s].kind # "set"
  BY DEF Control, Turns
<1>2. \A s \in Runs \ {r} : pc[s] # "session"
  BY <1>1 DEF Control, CallOK
<1> QED BY <1>1, <1>2 DEF Halfway

LEMMA ValuesInit ==
    ASSUME \A s \in Scenes : Orderly(s), Init
    PROVE  Values
<1>1. /\ boot = [p \in Procs |-> Env] /\ local = [p \in Procs |-> Env]
      /\ loaded = [p \in Procs |-> Env] /\ want = [p \in Procs |-> Env]
      /\ joined = [p \in Procs |-> "no"] /\ made = [p \in Procs |-> "no"]
      /\ session = Env /\ alive = {First} /\ First \in Procs
      /\ pc = [r \in Runs |-> "idle"] /\ call = [r \in Runs |-> Use]
  BY CredentialsAssumption DEF Init
<1>2. AloneOK /\ WantOK
  BY <1>1 DEF AloneOK, WantOK
<1>3. OwnOK
  BY <1>1 DEF OwnOK
<1>4. ASSUME NEW p \in Procs PROVE FreshOK(p) /\ SeenOK(p)
  BY <1>1 DEF FreshOK, SeenOK, Seen, Made
<1>5. ASSUME NEW r \in Runs PROVE IdsOK(r) /\ HalfOK(r)
  BY <1>1, UseTyped DEF IdsOK, HalfOK, Halfway
<1> QED BY <1>2, <1>3, <1>4, <1>5 DEF Values

data == <<scene, alive, boot, local, made, joined, loaded, attached, session, want>>

\* A step of a run that stores nothing yet.
LEMMA ValuesMove ==
    ASSUME Values, NEW r \in Runs, UNCHANGED data,
           \A s \in Runs \ {r} : /\ pc'[s] = pc[s] /\ call'[s] = call[s]
                                 /\ half'[s] = half[s] /\ ids'[s] = ids[s],
           pc[r] # "session", pc'[r] # "session", IdsOK(r)'
    PROVE  Values'
<1>d. UNCHANGED <<scene, alive, boot, local, made, joined, loaded, attached, session, want>>
  BY DEF data
<1>1. \A s \in Runs : (pc'[s] = "session") <=> (pc[s] = "session")
  OBVIOUS
<1>2. \A s \in Runs : Halfway(s)' <=> Halfway(s)
  BY DEF Halfway
<1>3. AloneOK' /\ WantOK'
  BY <1>d DEF Values, AloneOK, WantOK, Shared
<1>4. OwnOK'
  BY <1>d, <1>1 DEF Values, OwnOK, Shared
<1>5. ASSUME NEW p \in Procs PROVE FreshOK(p)' /\ SeenOK(p)'
  BY <1>d, <1>2 DEF Values, FreshOK, SeenOK, Shared, Seen, Made
<1>6. ASSUME NEW s \in Runs PROVE HalfOK(s)'
  BY <1>d, <1>2 DEF Values, HalfOK, Halfway
<1>7. ASSUME NEW s \in Runs \ {r} PROVE IdsOK(s)'
  BY <1>d DEF Values, IdsOK
<1> QED BY <1>3, <1>4, <1>5, <1>6, <1>7 DEF Values

LEMMA ValuesBegin ==
    ASSUME Control, Values, NEW r \in Runs, NEW c \in Calls, Begin(r, c)
    PROVE  Values'
<1>t. TypeInv
  BY DEF Control
<1>1. /\ pc[r] = "idle" /\ call' = [call EXCEPT ![r] = c]
      /\ pc' = [pc EXCEPT ![r] = IF c.kind = "set" THEN "read" ELSE "ensure"]
      /\ ids' = IF c.kind = "set" THEN [ids EXCEPT ![r][c.id] = c.value] ELSE ids
      /\ UNCHANGED <<store, half, want>>
  BY DEF Begin
<1>2. \A s \in Runs \ {r} : /\ pc'[s] = pc[s] /\ call'[s] = call[s]
                            /\ half'[s] = half[s] /\ ids'[s] = ids[s]
  BY <1>t, <1>1 DEF TypeInv, Typed
<1>3. pc'[r] = (IF c.kind = "set" THEN "read" ELSE "ensure") /\ call'[r] = c
  BY <1>t, <1>1 DEF TypeInv, Typed
<1>4. IdsOK(r)'
  <2> SUFFICES ASSUME c.kind = "set" PROVE ids'[r][c.id] = c.value
    BY <1>3 DEF IdsOK
  <2>1. c.id \in Id
    BY CallTyped
  <2> QED BY <1>t, <1>1, <2>1 DEF TypeInv, Typed, Pair
<1> QED BY <1>1, <1>2, <1>3, <1>4, ValuesMove DEF data, store, process

LEMMA ValuesNested ==
    ASSUME Control, Values, NEW p \in Procs, Nested(p)
    PROVE  Values'
<1> DEFINE r == <<p, Inner>>
<1>1. r \in Runs /\ call[r].kind # "set"
  BY InnerRun, UseTyped DEF Control, InnerOK
<1>2. pc[r] = "idle" /\ pc' = [pc EXCEPT ![r] = "ensure"]
      /\ UNCHANGED <<store, call, ids, half, want>>
  BY DEF Nested
<1>3. pc'[r] = "ensure" /\ \A s \in Runs \ {r} : pc'[s] = pc[s]
  BY <1>1, <1>2 DEF Control, TypeInv, Typed
<1>4. IdsOK(r)'
  BY <1>1, <1>2 DEF IdsOK
<1> HIDE DEF r
<1> QED BY <1>1, <1>2, <1>3, <1>4, ValuesMove DEF data, store, process

\* The id that a call is not to change is read as it was last set.
LEMMA ValuesRead ==
    ASSUME Control, Values, NEW r \in Runs, Read(r)
    PROVE  Values'
<1>t. TypeInv /\ r[1] \in Procs
  BY RunTyped DEF Control
<1> DEFINE i == Other(call[r].id)
<1>1. /\ pc[r] = "read" /\ ids' = [ids EXCEPT ![r][i] = Seen(r[1])[i]]
      /\ pc' = [pc EXCEPT ![r] = "ensure"] /\ UNCHANGED <<store, call, half, want>>
  BY DEF Read
<1>2. call[r].kind = "set" /\ call[r].id \in Id /\ i \in Id /\ i # call[r].id
  <2>1. call[r].kind = "set"
    BY <1>1 DEF Control, CallOK
  <2>2. call[r].id \in Id
    BY <1>t, <2>1, CallTyped DEF TypeInv, Typed
  <2> QED BY <2>1, <2>2 DEF Other, Id
<1>3. Seen(r[1])[i] = want[r[1]][i]
  <2>1. r[1] \in alive
    BY <1>1, BusyAlive DEF Resting
  <2>2. \A s \in Runs : ~ Halfway(s)
    BY <1>1, <1>2, OneSets
  <2> QED BY <1>t, <1>2, <2>1, <2>2 DEF Values, SeenOK
<1> HIDE DEF i
<1>4. pc'[r] = "ensure" /\ \A s \in Runs \ {r} : pc'[s] = pc[s] /\ ids'[s] = ids[s]
  BY <1>t, <1>1 DEF TypeInv, Typed
<1>5. ids'[r][i] = want[r[1]][i] /\ ids'[r][call[r].id] = ids[r][call[r].id]
  BY <1>t, <1>1, <1>2, <1>3 DEF TypeInv, Typed, Pair
<1>6. \A j \in Id : j = i \/ j = call[r].id
  BY <1>2 DEF Id
<1>7. ids[r][call[r].id] = call[r].value
  BY <1>2 DEF Values, IdsOK
<1>8. IdsOK(r)'
  <2>1. ASSUME NEW j \in Id
        PROVE  IF j = call[r].id THEN ids'[r][j] = call[r].value
               ELSE ids'[r][j] = want[r[1]][j]
    BY <1>2, <1>5, <1>6, <1>7
  <2> QED BY <1>1, <2>1 DEF IdsOK
<1> QED BY <1>1, <1>4, <1>8, ValuesMove DEF data, store, process

\* Where a call goes on, it knows what it is to store.
LEMMA ValuesGoesOn ==
    ASSUME Control, Values, NEW r \in Runs, pc[r] \notin {"read", "session"},
           UNCHANGED <<data, call, ids, half>>,
           NEW to, pc' = [pc EXCEPT ![r] = to], to # "session"
    PROVE  Values'
<1>1. pc'[r] = to /\ \A s \in Runs \ {r} : pc'[s] = pc[s]
  BY DEF Control, TypeInv, Typed
<1>2. IdsOK(r)'
  BY DEF Values, IdsOK, data
<1> QED BY <1>1, <1>2, ValuesMove

\* Until it has joined, a process sees the ids of the environment.
LEMMA FreshSeen ==
    ASSUME TypeInv, AloneOK, NEW p \in Procs, p \in alive, FreshOK(p), joined[p] # "yes"
    PROVE  Seen(p) = Env
  BY DEF TypeInv, Linked, AloneOK, FreshOK, Seen

\* A process goes on with its initializations, which store what is there already.
LEMMA ValuesJoin ==
    ASSUME Control, Values, TypeInv', NEW p \in Procs, p \in alive, joined[p] # "yes",
           UNCHANGED <<scene, alive, boot, local, loaded, session, want, call, ids, half>>,
           \A q \in Procs \ {p} : /\ made'[q] = made[q] /\ joined'[q] = joined[q]
                                  /\ attached'[q] = attached[q],
           Seen(p)' = Env,
           \A r \in Runs : pc'[r] = pc[r] \/ (call[r] = Use /\ pc[r] # "session"
                                              /\ pc'[r] = "ensure")
    PROVE  Values'
<1>1. \A r \in Runs : (pc'[r] = "session") <=> (pc[r] = "session")
  OBVIOUS
<1>2. \A r \in Runs : Halfway(r)' <=> Halfway(r)
  BY <1>1 DEF Halfway
<1>3. ASSUME NEW q \in Procs PROVE FreshOK(q)'
  BY DEF Values, FreshOK, Shared
<1>4. AloneOK'
  BY DEF Values, AloneOK, Shared
<1>5. WantOK'
  BY DEF Values, WantOK, Shared
<1>6. OwnOK'
  BY <1>1 DEF Values, OwnOK, Shared
<1>7. ASSUME NEW q \in Procs PROVE SeenOK(q)'
  <2>1. CASE q = p
    <3>1. Seen(p) = Env
      BY FreshSeen DEF Control, Values
    <3>2. SeenOK(p)
      BY DEF Values
    <3> QED BY <1>2, <2>1, <3>1, <3>2 DEF SeenOK
  <2>2. CASE q # p
    <3>1. Seen(q)' = Seen(q)
      BY <2>2 DEF Seen, Made
    <3>2. SeenOK(q)
      BY DEF Values
    <3> QED BY <1>2, <3>1, <3>2 DEF SeenOK
  <2> QED BY <2>1, <2>2
<1>8. ASSUME NEW r \in Runs PROVE HalfOK(r)'
  BY <1>2 DEF Values, HalfOK
<1>9. ASSUME NEW r \in Runs PROVE IdsOK(r)'
  BY UseTyped DEF Values, IdsOK
<1> QED BY <1>3, <1>4, <1>5, <1>6, <1>7, <1>8, <1>9 DEF Values

LEMMA ValuesInitStep ==
    ASSUME Control, Values, TypeInv', NEW p \in Procs, InitStep(p)
    PROVE  Values'
<1>t. TypeInv /\ Linked(p) /\ AwayOK(p) /\ FreshOK(p)
  BY DEF Control, TypeInv, Values
<1>f. p \in alive /\ joined[p] # "yes" => Seen(p) = Env /\ (Shared => session = Env)
  BY <1>t, FreshSeen DEF Values, AloneOK
<1>1. CASE Make(p)
  <2>1. UNCHANGED <<scene, alive, boot, joined, attached, session, thread, want>>
    BY <1>1 DEF Make
  <2>2. made[p] # "done" /\ (made[p] = "no" => Waits(p, "once"))
    BY <1>1 DEF Make
  <2>3. p \in alive /\ joined[p] # "yes"
    BY <1>t, <2>2, WaiterAlive DEF AwayOK, Linked
  <2>4. boot[p] = Env /\ local[p] = Env /\ loaded[p] = Env
    BY <1>t, <2>3 DEF FreshOK
  <2>5. loaded' = loaded
    <3>1. loaded' = loaded \/ loaded' = [loaded EXCEPT ![p] = boot[p]]
      BY <1>1 DEF Make
    <3> QED BY <1>t, <2>4, <3>1 DEF TypeInv, Typed
  <2>6. local' = local
    <3>1. local' = local \/ local' = [local EXCEPT ![p] = loaded[p]]
      BY <1>1 DEF Make
    <3> QED BY <1>t, <2>4, <3>1 DEF TypeInv, Typed
  <2>7. \A q \in Procs \ {p} : made'[q] = made[q]
    BY <1>t, <1>1 DEF Make, TypeInv, Typed
  <2>8. Seen(p)' = Env
    <3>1. attached[p] => session = Env
      BY <1>f, <1>t, <2>3 DEF Linked
    <3> QED BY <2>1, <2>4, <2>6, <3>1 DEF Seen
  <2> QED BY <2>1, <2>3, <2>5, <2>6, <2>7, <2>8, ValuesJoin DEF thread
<1>2. CASE JoinStarts(p)
  <2>1. /\ joined[p] = "no" /\ Waits(p, "join")
        /\ \E to \in {"stat", "load"} : joined' = [joined EXCEPT ![p] = to]
        /\ pc' = pc \/ pc' = [pc EXCEPT ![<<p, Inner>>] = "ensure"]
        /\ UNCHANGED <<scene, alive, boot, local, made, loaded, attached, session,
                       call, ids, half, want>>
    BY <1>2 DEF JoinStarts
  <2>2. p \in alive
    BY <2>1, WaiterAlive
  <2>3. \A r \in Runs : pc'[r] = pc[r] \/ (r = <<p, Inner>> /\ pc'[r] = "ensure")
    BY <1>t, <2>1 DEF TypeInv, Typed
  <2>4. call[<<p, Inner>>] = Use /\ pc[<<p, Inner>>] # "session"
    BY DEF Control, InnerOK
  <2>5. Seen(p)' = Env
    BY <1>f, <2>1, <2>2 DEF Seen, Made
  <2>6. \A q \in Procs \ {p} : joined'[q] = joined[q]
    BY <1>t, <2>1 DEF TypeInv, Typed
  <2> QED BY <2>1, <2>2, <2>3, <2>4, <2>5, <2>6, ValuesJoin
<1>3. CASE Attach(p)
  <2>1. /\ joined[p] \in {"load", "stat"}
        /\ attached' = [attached EXCEPT ![p] = scene.mode # "local"]
        /\ loaded' = [loaded EXCEPT ![p] = boot[p]]
        /\ joined' = [joined EXCEPT ![p] = IF scene.mode = "daemon" THEN "uid" ELSE "yes"]
        /\ UNCHANGED <<scene, alive, boot, local, made, session, thread, want>>
    BY <1>3 DEF Attach
  <2>2. p \in alive
    BY <1>t, <2>1 DEF AwayOK
  <2>3. boot[p] = Env /\ local[p] = Env /\ loaded[p] = Env
    BY <1>t, <2>1 DEF FreshOK
  <2>4. loaded' = loaded
    BY <1>t, <2>1, <2>3 DEF TypeInv, Typed
  <2>5. \A q \in Procs \ {p} : joined'[q] = joined[q] /\ attached'[q] = attached[q]
    BY <1>t, <2>1 DEF TypeInv, Typed
  <2>6. Seen(p)' = Env
    <3>0. attached \in [Procs -> BOOLEAN] /\ attached' = [attached EXCEPT ![p] = Shared]
      BY <1>t, <2>1 DEF TypeInv, Typed, Shared
    <3>1. attached'[p] => Shared
      BY <3>0
    <3>2. attached'[p] => session' = Env
      BY <1>f, <2>1, <2>2, <3>1
    <3>3. boot'[p] = Env /\ local'[p] = Env
      BY <2>1, <2>3
    <3> QED BY <3>2, <3>3 DEF Seen
  <2> QED BY <2>1, <2>2, <2>4, <2>5, <2>6, ValuesJoin DEF thread
<1>4. CASE DaemonInit(p)
  <2>1. /\ joined[p] \in {"uid", "gid"}
        /\ session' = [session EXCEPT ![joined[p]] = loaded[p][joined[p]]]
        /\ joined' = [joined EXCEPT ![p] = IF joined[p] = "uid" THEN "gid" ELSE "yes"]
        /\ UNCHANGED <<scene, alive, boot, local, made, loaded, attached, thread, want>>
    BY <1>4 DEF DaemonInit, Id
  <2>2. p \in alive
    BY <1>t, <2>1 DEF AwayOK
  <2>3. loaded[p] = Env /\ joined[p] \in Id
    BY <1>t, <2>1 DEF FreshOK, Id
  <2>5. session = Env
    BY <1>f, <1>t, <2>1, <2>2 DEF Linked
  <2>6. session' = session
    BY <2>1, <2>3, <2>5 DEF Env
  <2>7. \A q \in Procs \ {p} : joined'[q] = joined[q]
    BY <1>t, <2>1 DEF TypeInv, Typed
  <2>8. Seen(p)' = Env
    BY <1>f, <2>1, <2>2, <2>6 DEF Seen, Made
  <2> QED BY <2>1, <2>2, <2>6, <2>7, <2>8, ValuesJoin DEF thread
<1> QED BY <1>1, <1>2, <1>3, <1>4 DEF InitStep

\* The ids that the library's constructor took are not looked at any more.
LEMMA ValuesStoreBoot ==
    ASSUME Control, Values, NEW r \in Runs, StoreBoot(r)
    PROVE  Values'
<1>t. TypeInv /\ r[1] \in Procs
  BY RunTyped DEF Control
<1>1. /\ pc[r] = "boot"
      /\ boot' = [boot EXCEPT ![r[1]][half[r]] = ids[r][half[r]]]
      /\ half' = [half EXCEPT ![r] = Other(half[r])]
      /\ pc' = IF half[r] = "gid" THEN [pc EXCEPT ![r] = "local"] ELSE pc
      /\ UNCHANGED <<scene, alive, local, made, joined, loaded, attached, session, call, ids,
                     want>>
  BY DEF StoreBoot
<1>2. joined[r[1]] = "yes" /\ made[r[1]] = "done"
  BY <1>t, <1>1 DEF Control, CallOK, TypeInv, Linked
<1>3. \A q \in Procs \ {r[1]} : boot'[q] = boot[q]
  BY <1>t, <1>1 DEF TypeInv, Typed
<1>4. /\ pc'[r] \in {"boot", "local"}
      /\ \A s \in Runs \ {r} : pc'[s] = pc[s] /\ half'[s] = half[s]
  BY <1>t, <1>1 DEF TypeInv, Typed
<1>5. \A s \in Runs : (pc'[s] = "session") <=> (pc[s] = "session")
  BY <1>1, <1>4
<1>6. \A s \in Runs : Halfway(s)' <=> Halfway(s)
  BY <1>1, <1>4 DEF Halfway
<1>7. AloneOK' /\ WantOK'
  BY <1>1 DEF Values, AloneOK, WantOK, Shared
<1>8. OwnOK'
  BY <1>1, <1>5 DEF Values, OwnOK, Shared
<1>9. ASSUME NEW p \in Procs PROVE FreshOK(p)'
  BY <1>1, <1>2, <1>3 DEF Values, FreshOK, Shared
<1>10. ASSUME NEW p \in Procs PROVE SeenOK(p)'
  <2>1. Seen(p)' = Seen(p)
    BY <1>1, <1>2, <1>3 DEF Seen, Made
  <2> QED BY <1>1, <1>6, <2>1 DEF Values, SeenOK
<1>11. ASSUME NEW s \in Runs PROVE HalfOK(s)'
  BY <1>1, <1>6 DEF Values, HalfOK
<1>12. ASSUME NEW s \in Runs PROVE IdsOK(s)'
  BY <1>1, <1>4 DEF Values, IdsOK
<1> QED BY <1>7, <1>8, <1>9, <1>10, <1>11, <1>12 DEF Values

\* In no session, the own state is what a process sees, and the call returns.
LEMMA ValuesStoreOwn ==
    ASSUME Control, Values, TypeInv', NEW r \in Runs, StoreLocal(r), ~ attached[r[1]]
    PROVE  Values'
<1>t. TypeInv /\ r[1] \in Procs
  BY RunTyped DEF Control
<1>1. /\ pc[r] = "local" /\ local' = [local EXCEPT ![r[1]] = ids[r]] /\ Returns(r)
      /\ UNCHANGED <<scene, alive, boot, made, joined, loaded, attached, session, half>>
  BY DEF StoreLocal
<1>2. /\ joined[r[1]] = "yes" /\ made[r[1]] = "done" /\ ~ Shared
      /\ call[r].kind = "set" /\ call[r].id \in Id
  <2>1. call[r].kind = "set" /\ joined[r[1]] = "yes"
    BY <1>1 DEF Control, CallOK
  <2>2. call[r].id \in Id
    BY <1>t, <2>1, CallTyped DEF TypeInv, Typed
  <2> QED BY <1>t, <2>1, <2>2 DEF TypeInv, Linked
<1>3. /\ local'[r[1]] = ids[r]
      /\ \A q \in Procs \ {r[1]} : local'[q] = local[q]
  BY <1>t, <1>1 DEF TypeInv, Typed
<1>4. /\ pc'[r] = "idle" /\ call'[r] = Use
      /\ \A s \in Runs \ {r} : pc'[s] = pc[s] /\ call'[s] = call[s] /\ ids'[s] = ids[s]
      /\ want'[r[1]] = [want[r[1]] EXCEPT ![call[r].id] = call[r].value]
      /\ \A q \in Procs \ {r[1]} : want'[q] = want[q]
  BY <1>t, <1>1, <1>2, ReturnsIs
<1>5. \A i \in Id : ids[r][i] = want'[r[1]][i]
  <2>1. IdsOK(r) /\ want[r[1]] \in Pair
    BY <1>t DEF Values, TypeInv, Typed
  <2> QED BY <1>1, <1>2, <1>4, <2>1 DEF IdsOK, Pair
<1>6. \A s \in Runs : ~ Halfway(s)
  BY <1>1, <1>2, OneSets
<1>7. ~ Shared' /\ AloneOK' /\ WantOK' /\ OwnOK'
  BY <1>1, <1>2 DEF AloneOK, WantOK, OwnOK, Shared
<1>8. ASSUME NEW p \in Procs PROVE FreshOK(p)'
  BY <1>1, <1>2, <1>3, <1>4 DEF Values, FreshOK, Shared
<1>9. ASSUME NEW p \in Procs PROVE SeenOK(p)'
  <2>1. CASE p = r[1]
    <3>1. Seen(p)' = local'[p]
      BY <1>1, <1>2, <2>1 DEF Seen, Made
    <3> QED BY <1>3, <1>5, <2>1, <3>1 DEF SeenOK
  <2>2. CASE p # r[1]
    <3>1. Seen(p)' = Seen(p)
      BY <1>1, <1>3, <2>2 DEF Seen, Made
    <3>2. SeenOK(p)
      BY DEF Values
    <3> QED BY <1>1, <1>4, <1>6, <2>2, <3>1, <3>2 DEF SeenOK
  <2> QED BY <2>1, <2>2
<1>10. \A s \in Runs \ {r} : call[s].kind # "set" /\ pc[s] # "session"
  BY <1>2, OneSets
<1>11. ASSUME NEW s \in Runs PROVE HalfOK(s)' /\ IdsOK(s)'
  BY <1>4, <1>10, UseTyped DEF HalfOK, Halfway, IdsOK
<1> QED BY <1>7, <1>8, <1>9, <1>11 DEF Values

\* In a session it is set first.
LEMMA ValuesStoreFirst ==
    ASSUME Control, Values, NEW r \in Runs, StoreLocal(r), attached[r[1]]
    PROVE  Values'
<1>t. TypeInv /\ r[1] \in Procs
  BY RunTyped DEF Control
<1>1. /\ pc[r] = "local" /\ local' = [local EXCEPT ![r[1]] = ids[r]]
      /\ pc' = [pc EXCEPT ![r] = "session"]
      /\ UNCHANGED <<scene, alive, boot, made, joined, loaded, attached, session, half, call,
                     ids, want>>
  BY DEF StoreLocal
<1>2. /\ joined[r[1]] = "yes" /\ Shared /\ half[r] = "uid" /\ call[r].kind = "set"
  BY <1>t, <1>1 DEF Control, CallOK, TypeInv, Linked
<1>3. /\ local'[r[1]] = ids[r]
      /\ \A q \in Procs \ {r[1]} : local'[q] = local[q]
  BY <1>t, <1>1 DEF TypeInv, Typed
<1>4. pc'[r] = "session" /\ \A s \in Runs \ {r} : pc'[s] = pc[s]
  BY <1>t, <1>1 DEF TypeInv, Typed
<1>5. \A s \in Runs : ~ Halfway(s) /\ ~ Halfway(s)'
  BY <1>1, <1>2, <1>4, OneSets DEF Halfway
<1>6. r[1] \in alive
  BY <1>1, BusyAlive DEF Resting
<1>7. AloneOK' /\ WantOK'
  BY <1>1 DEF Values, AloneOK, WantOK, Shared
<1>8. OwnOK'
  <2>1. \A s \in Runs \ {r} : pc[s] # "session"
    BY <1>2, OneSets
  <2> QED BY <1>1, <1>3, <1>4, <1>6, <2>1 DEF Values, OwnOK, Shared
<1>9. ASSUME NEW p \in Procs PROVE FreshOK(p)'
  BY <1>1, <1>2, <1>3 DEF Values, FreshOK, Shared
<1>10. ASSUME NEW p \in Procs PROVE SeenOK(p)'
  <2>1. Seen(p)' = Seen(p)
    BY <1>1, <1>3 DEF Seen, Made
  <2> QED BY <1>1, <1>5, <2>1 DEF Values, SeenOK
<1>11. ASSUME NEW s \in Runs PROVE HalfOK(s)' /\ IdsOK(s)'
  BY <1>1, <1>4, <1>5 DEF Values, HalfOK, IdsOK
<1> QED BY <1>7, <1>8, <1>9, <1>10, <1>11 DEF Values

\* Who stores ids in a session finds every process of it there.
LEMMA AllThere ==
    ASSUME Control, Values, NEW r \in Runs, pc[r] = "session"
    PROVE  /\ Shared /\ call[r].kind = "set" /\ call[r].id \in Id
           /\ \A p \in alive : joined[p] = "yes" /\ Seen(p) = session
<1>t. TypeInv /\ r[1] \in Procs
  BY RunTyped DEF Control
<1>1. joined[r[1]] = "yes" /\ attached[r[1]] /\ call[r].kind = "set"
  BY DEF Control, CallOK
<1>2. call[r].id \in Id
  BY <1>t, <1>1, CallTyped DEF TypeInv, Typed
<1>3. Shared
  BY <1>t, <1>1 DEF TypeInv, Linked
<1>4. r[1] \in alive
  BY BusyAlive DEF Resting
<1>5. ASSUME NEW p \in alive PROVE joined[p] = "yes" /\ Seen(p) = session
  <2>1. p \in Procs
    BY <1>t DEF TypeInv, Typed
  <2>2. joined[p] = "yes"
    BY <1>1, <1>3, <1>4 DEF Values, AloneOK
  <2>3. made[p] = "done" /\ attached[p]
    BY <1>t, <1>3, <2>1, <2>2 DEF TypeInv, Linked
  <2> QED BY <2>2, <2>3 DEF Seen, Made
<1> QED BY <1>1, <1>2, <1>3, <1>5

\* The user is stored.
LEMMA ValuesStoreUser ==
    ASSUME Control, Values, TypeInv', NEW r \in Runs, StoreSession(r), half[r] # "gid"
    PROVE  Values'
<1>t. TypeInv /\ r[1] \in Procs
  BY RunTyped DEF Control
<1>1. pc[r] = "session" /\ half[r] = "uid"
  BY <1>t DEF StoreSession, TypeInv, Typed, Id
<1>2. /\ session' = [session EXCEPT !["uid"] = ids[r]["uid"]]
      /\ half' = [half EXCEPT ![r] = "gid"]
      /\ UNCHANGED <<scene, alive, boot, local, made, joined, loaded, attached, pc, call, ids,
                     want>>
  BY <1>1 DEF StoreSession, process, Other
<1>3. /\ Shared /\ call[r].kind = "set"
      /\ \A p \in alive : joined[p] = "yes" /\ Seen(p) = session
  BY <1>1, AllThere
<1>4. session'["uid"] = ids[r]["uid"] /\ session'["gid"] = session["gid"]
  BY <1>t, <1>2 DEF TypeInv, Typed, Pair, Id
<1>5. half'[r] = "gid" /\ \A s \in Runs \ {r} : ~ Halfway(s)' /\ half'[s] = half[s]
  BY <1>t, <1>2, <1>3, OneSets DEF TypeInv, Typed, Halfway
<1>6. AloneOK' /\ WantOK'
  BY <1>2, <1>3 DEF Values, AloneOK, WantOK, Shared
<1>7. OwnOK'
  BY <1>2 DEF Values, OwnOK, Shared
<1>8. ASSUME NEW p \in Procs PROVE FreshOK(p)'
  BY <1>2 DEF Values, FreshOK, Shared
<1>9. ASSUME NEW p \in Procs PROVE SeenOK(p)'
  <2> SUFFICES ASSUME p \in alive PROVE Seen(p)'["gid"] = want[p]["gid"]
    BY <1>1, <1>2, <1>5 DEF SeenOK, Halfway, Id
  <2>1. Seen(p)' = session'
    <3>1. made[p] = "done" /\ attached[p]
      BY <1>t, <1>3 DEF TypeInv, Linked
    <3> QED BY <1>2, <3>1 DEF Seen, Made
  <2>2. Seen(p)["gid"] = want[p]["gid"]
    BY DEF Values, SeenOK, Id
  <2> QED BY <1>3, <1>4, <2>1, <2>2
<1>10. ASSUME NEW s \in Runs PROVE HalfOK(s)' /\ IdsOK(s)'
  <2>1. IdsOK(s)'
    BY <1>2 DEF Values, IdsOK
  <2> QED BY <1>2, <1>4, <1>5, <2>1 DEF HalfOK
<1> QED BY <1>6, <1>7, <1>8, <1>9, <1>10 DEF Values

\* The group is, and the call returns: what it stored is what all of them see.
LEMMA ValuesStoreGroup ==
    ASSUME Control, Values, TypeInv', NEW r \in Runs, StoreSession(r), half[r] = "gid"
    PROVE  Values'
<1>t. TypeInv /\ r[1] \in Procs
  BY RunTyped DEF Control
<1>1. /\ pc[r] = "session" /\ session' = [session EXCEPT !["gid"] = ids[r]["gid"]]
      /\ Returns(r)
      /\ UNCHANGED <<scene, alive, boot, local, made, joined, loaded, attached>>
  BY DEF StoreSession, process
<1>3. /\ Shared /\ call[r].kind = "set" /\ call[r].id \in Id
      /\ \A p \in alive : joined[p] = "yes" /\ Seen(p) = session
  BY <1>1, AllThere
<1>4. /\ pc'[r] = "idle" /\ call'[r] = Use
      /\ \A s \in Runs \ {r} : pc'[s] = pc[s] /\ call'[s] = call[s]
      /\ \A p \in Procs : want'[p] = [want[p] EXCEPT ![call[r].id] = call[r].value]
  BY <1>t, <1>1, <1>3, ReturnsIs
<1>5. session' = ids[r]
  <2>1. session["uid"] = ids[r]["uid"]
    BY <1>1 DEF Values, HalfOK, Halfway
  <2>2. session'["uid"] = ids[r]["uid"] /\ session'["gid"] = ids[r]["gid"]
    BY <1>t, <1>1, <2>1 DEF TypeInv, Typed, Pair, Id
  <2>3. session' \in Pair /\ ids[r] \in Pair
    BY <1>t DEF TypeInv, Typed
  <2> QED BY <2>2, <2>3, PairSame DEF Id
<1>6. ASSUME NEW p \in Procs PROVE want'[p] = ids[r]
  <2>1. want[p] = want[r[1]] /\ want[p] \in Pair /\ ids[r] \in Pair /\ want'[p] \in Pair
    BY <1>t, <1>3 DEF Values, WantOK, TypeInv, Typed
  <2>2. IdsOK(r)
    BY DEF Values
  <2>3. \A i \in Id : want'[p][i] = ids[r][i]
    BY <1>1, <1>3, <1>4, <2>1, <2>2 DEF IdsOK, Pair
  <2> QED BY <2>1, <2>3, PairSame
<1>7. \A s \in Runs : pc'[s] # "session" /\ call'[s].kind # "set"
  BY <1>3, <1>4, OneSets, UseTyped
<1>8. AloneOK' /\ WantOK'
  BY <1>1, <1>3, <1>6 DEF AloneOK, WantOK, Shared
<1>9. OwnOK'
  <2> SUFFICES ASSUME scene.birth = "none" PROVE alive = {First} /\ local[First] = want'[First]
    BY <1>1, <1>7 DEF OwnOK
  <2>1. alive = {First} /\ local[First] = ids[r]
    BY <1>1, <1>3 DEF Values, OwnOK
  <2> QED BY <1>6, <2>1, CredentialsAssumption
<1>10. ASSUME NEW p \in Procs PROVE FreshOK(p)'
  BY <1>1, <1>3 DEF Values, FreshOK, Shared
<1>11. ASSUME NEW p \in Procs PROVE SeenOK(p)'
  <2> SUFFICES ASSUME p \in alive PROVE Seen(p)' = want'[p]
    BY <1>1 DEF SeenOK
  <2>1. made[p] = "done" /\ attached[p]
    BY <1>t, <1>3 DEF TypeInv, Linked
  <2>2. Seen(p)' = session'
    BY <1>1, <2>1 DEF Seen, Made
  <2> QED BY <1>5, <1>6, <2>2
<1>12. ASSUME NEW s \in Runs PROVE HalfOK(s)' /\ IdsOK(s)'
  BY <1>7 DEF HalfOK, Halfway, IdsOK
<1> QED BY <1>8, <1>9, <1>10, <1>11, <1>12 DEF Values

LEMMA ValuesCallStep ==
    ASSUME Control, Values, TypeInv', NEW r \in Runs, CallStep(r)
    PROVE  Values'
<1>1. CASE Read(r)
  BY <1>1, ValuesRead
<1>2. CASE Ensure(r)
  <2>1. PICK to \in {"join", "once", "boot", "over", "idle"} : pc' = [pc EXCEPT ![r] = to]
    BY <1>2, BodyTyped DEF Ensure
  <2>2. pc[r] = "ensure" /\ UNCHANGED <<data, call, ids, half>>
    BY <1>2 DEF Ensure, data, store, process
  <2> QED BY <2>1, <2>2, ValuesGoesOn
<1>3. CASE Once(r)
  BY <1>3, ValuesGoesOn DEF Once, data, store, process
<1>4. CASE Joined(r)
  <2>1. PICK to \in {"boot", "over", "idle"} : pc' = [pc EXCEPT ![r] = to]
    BY <1>4, BodyTyped DEF Joined
  <2>2. pc[r] = "join" /\ UNCHANGED <<data, call, ids, half>>
    BY <1>4 DEF Joined, data, store, process
  <2> QED BY <2>1, <2>2, ValuesGoesOn
<1>5. CASE StoreBoot(r)
  BY <1>5, ValuesStoreBoot
<1>6. CASE StoreLocal(r)
  BY <1>6, ValuesStoreOwn, ValuesStoreFirst
<1>7. CASE StoreSession(r)
  BY <1>7, ValuesStoreUser, ValuesStoreGroup
<1> QED BY <1>1, <1>2, <1>3, <1>4, <1>5, <1>6, <1>7 DEF CallStep

\* A child has its parent's ids.
LEMMA ValuesFork ==
    ASSUME Control, Values, NEW p \in Procs, NEW q \in Procs, Fork(p, q)
    PROVE  Values'
<1>0. TypeInv
  BY DEF Control
<1>1. /\ scene.birth = "fork" /\ p \in alive /\ q \notin alive /\ joined[p] = "yes"
      /\ alive' = alive \cup {q} /\ UNCHANGED <<scene, session, pc, call, ids, half>>
      /\ made'[q] = made[p] /\ joined'[q] = joined[p] /\ attached'[q] = attached[p]
      /\ boot'[q] = boot[p] /\ local'[q] = local[p] /\ want'[q] = want[p]
      /\ \A o \in Procs \ {q} :
            /\ made'[o] = made[o] /\ joined'[o] = joined[o]
            /\ attached'[o] = attached[o] /\ boot'[o] = boot[o]
            /\ local'[o] = local[o] /\ loaded'[o] = loaded[o] /\ want'[o] = want[o]
  BY <1>0, ForkIs
<1>2. \A r \in Runs : Halfway(r)' <=> Halfway(r)
  BY <1>1 DEF Halfway
<1>3. AloneOK'
  <2> SUFFICES ASSUME Shared, NEW o \in alive', joined'[o] # "yes"
               PROVE  FALSE
    BY <1>1 DEF AloneOK, Shared
  <2>1. o \in alive /\ o # q /\ o \in Procs
    BY <1>0, <1>1 DEF TypeInv, Typed
  <2>2. joined[o] # "yes"
    BY <1>1, <2>1
  <2>3. alive = {o}
    BY <2>1, <2>2 DEF Values, AloneOK
  <2> QED BY <1>1, <2>2, <2>3
<1>4. WantOK'
  <2>1. Shared => \A o \in Procs : want'[o] = want[p]
    BY <1>1 DEF Values, WantOK
  <2> QED BY <1>1, <2>1 DEF WantOK, Shared
<1>5. OwnOK'
  BY <1>1 DEF OwnOK
<1>6. ASSUME NEW o \in Procs PROVE FreshOK(o)'
  BY <1>1 DEF Values, FreshOK, Shared
<1>7. ASSUME NEW o \in Procs PROVE SeenOK(o)'
  <2>1. CASE o = q
    <3>1. Seen(q)' = Seen(p)
      BY <1>1 DEF Seen, Made
    <3>2. SeenOK(p)
      BY DEF Values
    <3> QED BY <1>1, <1>2, <2>1, <3>1, <3>2 DEF SeenOK
  <2>2. CASE o # q
    <3>1. Seen(o)' = Seen(o)
      BY <1>1, <2>2 DEF Seen, Made
    <3>2. SeenOK(o)
      BY DEF Values
    <3> QED BY <1>1, <1>2, <2>2, <3>1, <3>2 DEF SeenOK
  <2> QED BY <2>1, <2>2
<1>8. ASSUME NEW r \in Runs PROVE HalfOK(r)'
  BY <1>1, <1>2 DEF Values, HalfOK
<1>9. ASSUME NEW r \in Runs PROVE IdsOK(r)'
  <2>1. CASE r[1] = q
    <3>1. call[r].kind # "set"
      BY <1>1, <2>1, UseTyped DEF Control, AwayOK, RestingProc, CallOK
    <3> QED BY <1>1, <3>1 DEF IdsOK
  <2>2. CASE r[1] # q
    <3>1. want'[r[1]] = want[r[1]]
      BY <1>1, <2>2, RunTyped
    <3> QED BY <1>1, <3>1 DEF Values, IdsOK
  <2> QED BY <2>1, <2>2
<1> QED BY <1>3, <1>4, <1>5, <1>6, <1>7, <1>8, <1>9 DEF Values

\* A process that starts has the ids of the environment.
LEMMA ValuesExec ==
    ASSUME Control, Values, NEW q \in Procs, Exec(q)
    PROVE  Values'
<1>1. /\ scene.birth = "exec" /\ q \notin alive /\ alive' = alive \cup {q}
      /\ UNCHANGED <<scene, boot, local, made, joined, loaded, attached, session, pc, call,
                     ids, half, want>>
  BY DEF Exec, process, thread
<1>2. ~ Shared /\ scene.mode = "local"
  BY <1>1 DEF Control, Orderly, Shared
<1>3. AloneOK' /\ WantOK' /\ OwnOK'
  BY <1>1, <1>2 DEF AloneOK, WantOK, OwnOK, Shared
<1>4. ASSUME NEW o \in Procs PROVE FreshOK(o)'
  BY <1>1 DEF Values, FreshOK, Shared
<1>5. SeenOK(q)'
  <2>1. made[q] = "no" /\ joined[q] = "no"
    BY <1>1 DEF Control, AwayOK
  <2>2. boot[q] = Env /\ want[q] = Env
    BY <1>2, <2>1 DEF Values, FreshOK
  <2> QED BY <1>1, <2>1, <2>2 DEF SeenOK, Seen, Made
<1>6. ASSUME NEW o \in Procs \ {q} PROVE SeenOK(o)'
  BY <1>1 DEF Values, SeenOK, Seen, Made, Halfway
<1>7. ASSUME NEW r \in Runs PROVE HalfOK(r)' /\ IdsOK(r)'
  BY <1>1 DEF Values, HalfOK, Halfway, IdsOK
<1> QED BY <1>3, <1>4, <1>5, <1>6, <1>7 DEF Values

LEMMA ValuesExit ==
    ASSUME Control, Values, NEW p \in Procs, Exit(p)
    PROVE  Values'
<1>0. TypeInv
  BY DEF Control
<1>1. /\ p \in alive /\ RestingProc(p) /\ scene.birth # "none"
      /\ alive' = alive \ {p} /\ UNCHANGED <<scene, session, call, ids, half>>
      /\ boot'[p] = Env /\ local'[p] = Env /\ loaded'[p] = Env
      /\ want'[p] = IF Shared THEN want[p] ELSE Env
      /\ \A o \in Procs \ {p} :
            /\ made'[o] = made[o] /\ joined'[o] = joined[o]
            /\ attached'[o] = attached[o] /\ boot'[o] = boot[o]
            /\ local'[o] = local[o] /\ loaded'[o] = loaded[o] /\ want'[o] = want[o]
      /\ \A r \in Runs : pc'[r] = IF r[1] = p THEN "idle" ELSE pc[r]
  BY <1>0, ExitIs
<1>2. \A r \in Runs : Halfway(r)' <=> Halfway(r)
  BY <1>1 DEF Halfway, RestingProc, Resting
<1>3. AloneOK'
  <2> SUFFICES ASSUME Shared, NEW o \in alive', joined'[o] # "yes"
               PROVE  FALSE
    BY <1>1 DEF AloneOK, Shared
  <2>1. o \in alive /\ o # p /\ o \in Procs
    BY <1>0, <1>1 DEF TypeInv, Typed
  <2>2. joined[o] # "yes"
    BY <1>1, <2>1
  <2>3. alive = {o}
    BY <2>1, <2>2 DEF Values, AloneOK
  <2> QED BY <1>1, <2>1, <2>3
<1>4. WantOK'
  <2>1. Shared => \A o \in Procs : want'[o] = want[o]
    BY <1>1
  <2> QED BY <1>1, <2>1 DEF Values, WantOK, Shared
<1>5. OwnOK'
  BY <1>1 DEF OwnOK
<1>6. ASSUME NEW o \in Procs PROVE FreshOK(o)'
  BY <1>1 DEF Values, FreshOK, Shared
<1>7. ASSUME NEW o \in Procs PROVE SeenOK(o)'
  <2>1. CASE o = p
    BY <1>1, <2>1 DEF SeenOK
  <2>2. CASE o # p
    <3>1. Seen(o)' = Seen(o)
      BY <1>1, <2>2 DEF Seen, Made
    <3>2. SeenOK(o)
      BY DEF Values
    <3> QED BY <1>1, <1>2, <2>2, <3>1, <3>2 DEF SeenOK
  <2> QED BY <2>1, <2>2
<1>8. ASSUME NEW r \in Runs PROVE HalfOK(r)'
  BY <1>1, <1>2 DEF Values, HalfOK
<1>9. ASSUME NEW r \in Runs PROVE IdsOK(r)'
  <2>1. CASE r[1] = p
    <3>1. call[r].kind # "set"
      BY <1>1, <2>1, UseTyped DEF Control, RestingProc, CallOK
    <3> QED BY <1>1, <3>1 DEF IdsOK
  <2>2. CASE r[1] # p
    <3>1. want'[r[1]] = want[r[1]] /\ pc'[r] = pc[r]
      BY <1>1, <2>2, RunTyped
    <3> QED BY <1>1, <3>1 DEF Values, IdsOK
  <2> QED BY <2>1, <2>2
<1> QED BY <1>3, <1>4, <1>5, <1>6, <1>7, <1>8, <1>9 DEF Values

CredInv == Control /\ Values

LEMMA CredStep == CredInv /\ [Next]_vars => CredInv'
<1> SUFFICES ASSUME Control, Values, [Next]_vars PROVE Control' /\ Values'
  BY DEF CredInv
<1>1. Control' /\ TypeInv'
  BY ControlStep DEF Control
<1>2. CASE UNCHANGED vars
  <2>1. UNCHANGED <<scene, alive, boot, local, made, joined, loaded, attached, session, pc,
                    call, ids, half, want>>
    BY <1>2 DEF vars, process, thread
  <2>2. AloneOK' /\ WantOK' /\ OwnOK'
    BY <2>1 DEF Values, AloneOK, WantOK, OwnOK, Shared
  <2>3. ASSUME NEW p \in Procs PROVE FreshOK(p)' /\ SeenOK(p)'
    BY <2>1 DEF Values, FreshOK, SeenOK, Shared, Seen, Made, Halfway
  <2>4. ASSUME NEW r \in Runs PROVE IdsOK(r)' /\ HalfOK(r)'
    BY <2>1 DEF Values, IdsOK, HalfOK, Halfway
  <2> QED BY <1>1, <2>2, <2>3, <2>4 DEF Values
<1>3. ASSUME NEW p \in Procs, InitStep(p) \/ Nested(p) \/ Exec(p) \/ Exit(p) PROVE Values'
  BY <1>1, <1>3, ValuesInitStep, ValuesNested, ValuesExec, ValuesExit
<1>4. ASSUME NEW p \in Procs, NEW q \in Procs, Fork(p, q) PROVE Values'
  BY <1>4, ValuesFork
<1>5. ASSUME NEW r \in Runs, CallStep(r) PROVE Values'
  BY <1>1, <1>5, ValuesCallStep
<1>6. ASSUME NEW r \in Runs, NEW c \in Calls, Begin(r, c) PROVE Values'
  BY <1>6, ValuesBegin
<1> QED BY <1>1, <1>2, <1>3, <1>4, <1>5, <1>6 DEF Next

\* Where nobody is in a call, every process sees the ids that were set last.
LEMMA QuietSees ==
    ASSUME CredInv, Quiet, NEW p \in alive
    PROVE  Seen(p) = want[p]
<1>1. p \in Procs /\ Seen(p) \in Pair /\ want[p] \in Pair
  BY SeenTyped DEF CredInv, Control, TypeInv, Typed
<1>2. \A r \in Runs : ~ Halfway(r)
  BY DEF Quiet, Resting, Halfway
<1>3. \A i \in Id : Seen(p)[i] = want[p][i]
  BY <1>1, <1>2 DEF CredInv, Values, SeenOK
<1> QED BY <1>1, <1>3, PairSame

LEMMA CredAlways == ASSUME \A s \in Scenes : Orderly(s) PROVE Spec => []CredInv
<1>1. Init => CredInv
  BY ControlInit, ValuesInit DEF CredInv
<1> QED BY <1>1, CredStep, PTL DEF Spec

\* Where one call at a time sets ids, and no process starts inside a session, getuid and
\* getgid report in every process what was set last: from the first call on, which finds
\* the library initialized or not, in the session or not, whatever other hooks run, and in
\* processes that were forked.
THEOREM ReportedAlways == ASSUME \A s \in Scenes : Orderly(s) PROVE Spec => []Reported
<1>1. CredInv => Reported
  BY QuietSees DEF Reported
<1> QED BY <1>1, CredAlways, PTL

\* There, stat reports a file nobody has changed as the one who asks, where the process is
\* in no session or alone in it: the own state, which stat takes, is stored with the rest.
THEOREM StatAgreesAlways == ASSUME \A s \in Scenes : Orderly(s) PROVE Spec => []StatAgrees
<1>1. CredInv => StatAgrees
  <2> SUFFICES ASSUME CredInv, Quiet, NEW p \in alive, Made(p),
                      scene.mode = "local" \/ scene.birth = "none"
               PROVE  local[p] = Seen(p)
    BY DEF StatAgrees, Mine
  <2>0. p \in Procs /\ TypeInv
    BY DEF CredInv, Control, TypeInv, Typed
  <2>1. CASE scene.mode = "local"
    <3>1. ~ attached[p]
      BY <2>0, <2>1 DEF TypeInv, Linked, Shared
    <3> QED BY <3>1 DEF Seen
  <2>2. CASE Shared /\ scene.birth = "none"
    <3>1. alive = {First} /\ local[First] = want[First]
      BY <2>2 DEF CredInv, Values, OwnOK, Quiet, Resting
    <3> QED BY <3>1, QuietSees
  <2> QED BY <2>1, <2>2 DEF Shared
<1> QED BY <1>1, CredAlways, PTL
=============================================================================
