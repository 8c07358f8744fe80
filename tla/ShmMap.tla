------------------------------- MODULE ShmMap -------------------------------
(***************************************************************************)
(* The shared-memory inode table of pseudoroot-core/src/shm_map.rs as the  *)
(* processes and threads of a session see it: nothing excludes anything,   *)
(* and an operation is a sequence of memory accesses between which the     *)
(* accesses of the others fall.                                            *)
(*                                                                         *)
(* The occupied word of a slot is atomic (Acquire loads, Release stores).  *)
(* The other fields are plain memory: the accesses an operation makes to   *)
(* them between two accesses of an occupied word may take effect in any    *)
(* order, which is what the build may make of them.  A single access is    *)
(* not torn.                                                               *)
(*                                                                         *)
(* The code moves metadata without looking at it, so a value is named by   *)
(* the key on whose behalf it is written and a number; 0 is the number of  *)
(* the defaults and of a cleared field.                                    *)
(***************************************************************************)
EXTENDS Naturals

CONSTANTS Procs,   \* threads, of any process of the session
          Keys,    \* inode keys, records with the fields dev and ino
          N,       \* slot_count
          Hash,    \* the home bucket of every key
          Meta,    \* the metadata fields looked at
          V,       \* largest number of a value
          Unset,   \* contents of memory nobody has written
          NoSlot,  \* reuse = Option::None
          Absent,  \* no entry
          Files,   \* the keys whose entries each process changes
          Serial,  \* is there at most one mutating operation at a time?
          MaxOps   \* bound: operations each process starts

KeyFields == {"dev", "ino"}
Owner == {"uid", "gid"}

ASSUME ShmMapAssumption ==
    /\ N \in Nat \ {0}
    /\ Hash \in [Keys -> 0 .. N-1]
    /\ Meta \subseteq Owner \cup {"mode", "rdev", "page"}
    /\ V \in Nat /\ MaxOps \in Nat
    /\ Serial \in BOOLEAN
    /\ Files \in [Procs -> SUBSET Keys]
    /\ NoSlot \notin 0 .. N-1
    /\ \A k \in Keys : k.dev # Unset /\ k.ino # Unset

Slots == 0 .. N-1
Fields == KeyFields \cup Meta

\* A call: the fields it gives a value to (chown leaves out those passed as
\* -1) and the number of that value.
Call(kind, k, fields, n) == [kind |-> kind, key |-> k, fields |-> fields, n |-> n]
Calls(k) ==
    {Call("get", k, {}, 0), Call("remove", k, {}, 0)}
        \cup {Call("chown", k, fs, n) : fs \in SUBSET (Meta \cap Owner), n \in 1 .. V}
        \cup {Call("set", k, Meta, n) : n \in 1 .. V}
Ops == UNION {Calls(k) : k \in Keys}

Val(k, n) == [key |-> k, n |-> n]
Vals == {Val(k, n) : k \in Keys, n \in 0 .. V}

\* What a field of a slot may contain.
Data == {k.dev : k \in Keys} \cup {k.ino : k \in Keys} \cup Vals \cup {Unset}

ASSUME NothingAssumption == Unset \notin Vals /\ Absent \notin [Meta -> Vals]

VARIABLES occ,    \* the occupied word of every slot
          mem,    \* its other fields
          proc,   \* the operation in progress in every process
          left,   \* how many more each process may start
          held,   \* history: slots that held the key all through a walk
          truth   \* history: what the finished calls amount to

vars == <<occ, mem, proc, left, held, truth>>

\* The key, the probe's idx (as a distance) and reuse, its outcome, the slot
\* that is used, the accesses still to be made and what get_inode has read.
NoCall == Unset
Idle == [pc |-> "idle", op |-> NoCall, dist |-> 0, reuse |-> NoSlot,
         out |-> "none", tgt |-> NoSlot, todo |-> {}, got |-> [f \in Meta |-> Unset]]
Proc == [pc : {"idle", "load", "match", "access"}, op : Ops \cup {NoCall},
         dist : 0 .. N, reuse : Slots \cup {NoSlot},
         out : {"none", "found", "vacant", "full"}, tgt : Slots \cup {NoSlot},
         todo : SUBSET Fields, got : [Meta -> Data]]

TypeOK ==
    /\ occ \in [Slots -> {"EMPTY", "LIVE", "TOMBSTONE"}]
    /\ mem \in [Slots -> [Fields -> Data]]
    /\ proc \in [Procs -> Proc]
    /\ left \in [Procs -> 0 .. MaxOps]
    /\ held \in [Procs -> SUBSET Slots]
    /\ truth \in [Keys -> [Meta -> Vals] \cup {Absent}]

Init ==
    /\ occ = [s \in Slots |-> "EMPTY"]
    /\ mem = [s \in Slots |-> [f \in Fields |-> Unset]]
    /\ proc = [p \in Procs |-> Idle]
    /\ left = [p \in Procs |-> MaxOps]
    /\ held = [p \in Procs |-> {}]
    /\ truth = [k \in Keys |-> Absent]
-----------------------------------------------------------------------------
At(k, d) == IF Hash[k] + d < N THEN Hash[k] + d ELSE Hash[k] + d - N

LiveIn(words, fields, s, k) ==
    words[s] = "LIVE" /\ \A f \in KeyFields : fields[s][f] = k[f]
Holds(s, k) == LiveIn(occ, mem, s, k)

Busy(p) == proc[p].pc # "idle"
Mutating(p) == Busy(p) /\ proc[p].op.kind # "get"

\* The slot a walk is at.
Here(p) == At(proc[p].op.key, proc[p].dist)

\* Faulty variants of Accesses: an insert leaves the xattr page of the last occupant, and
\* a chown of an entry replaces an id passed as -1 by the default.
Accesses_KeepsPage(op, out) ==
    CASE out = "found" /\ op.kind \in {"get", "set"} -> Meta
      [] out = "found" /\ op.kind = "chown" -> op.fields
      [] out = "found" /\ op.kind = "remove" -> Meta \cap {"page"}
      [] out = "vacant" /\ op.kind \in {"chown", "set"} -> Fields \ {"page"}
      [] OTHER -> {}
Accesses_BothIds(op, out) ==
    CASE out = "found" /\ op.kind \in {"get", "set"} -> Meta
      [] out = "found" /\ op.kind = "chown" -> Meta \cap Owner
      [] out = "found" /\ op.kind = "remove" -> Meta \cap {"page"}
      [] out = "vacant" /\ op.kind \in {"chown", "set"} -> Fields
      [] OTHER -> {}

\* The accesses an operation makes to the fields of its slot, by the outcome
\* of its probe.
Accesses(op, out) ==
    CASE out = "found" /\ op.kind \in {"get", "set"} -> Meta
      [] out = "found" /\ op.kind = "chown" -> op.fields
      [] out = "found" /\ op.kind = "remove" -> Meta \cap {"page"}
      [] out = "vacant" /\ op.kind \in {"chown", "set"} -> Fields
      [] OTHER -> {}

\* What a write puts in a field.
Value(op, f) ==
    IF f \in KeyFields THEN op.key[f]
    ELSE Val(op.key, IF f \in op.fields THEN op.n ELSE 0)

Become(p, state) == proc' = [proc EXCEPT ![p] = state]

Decide(p, out, s) ==
    Become(p, [proc[p] EXCEPT !.pc = "access", !.out = out, !.tgt = s,
                              !.todo = Accesses(proc[p].op, out)])

\* Faulty variant: idx stays where it is.
Advance_Stays(p, reuse) ==
    Become(p, [proc[p] EXCEPT !.pc = "load", !.reuse = reuse, !.todo = {}])

Advance(p, reuse) ==
    Become(p, [proc[p] EXCEPT !.pc = "load", !.dist = @ + 1, !.reuse = reuse,
                              !.todo = {}])
-----------------------------------------------------------------------------
(***************************************************************************)
(* The steps of an operation.                                              *)
(***************************************************************************)
Start(p) ==
    /\ ~ Busy(p) /\ left[p] > 0
    /\ \E op \in Ops :
          /\ op.kind # "get" => /\ op.key \in Files[p]
                                /\ Serial => \A q \in Procs : ~ Mutating(q)
          /\ Become(p, [Idle EXCEPT !.pc = "load", !.op = op])
    /\ left' = [left EXCEPT ![p] = @ - 1]
    /\ UNCHANGED <<occ, mem, truth>>

Walking_Unbounded(p) == proc[p].pc = "load"  \* faulty variant: no bound
Walking(p) == proc[p].pc = "load" /\ proc[p].dist < N

\* SLOT_EMPTY => Probe::Vacant(reuse.unwrap_or(idx))
LoadEmpty(p) ==
    /\ Walking(p) /\ occ[Here(p)] = "EMPTY"
    /\ Decide(p, "vacant", IF proc[p].reuse = NoSlot THEN Here(p) ELSE proc[p].reuse)
    /\ UNCHANGED <<occ, mem, left, truth>>

\* Faulty variant: a tombstone ends the walk like an empty slot.
LoadTombstone_Ends(p) ==
    /\ Walking(p) /\ occ[Here(p)] = "TOMBSTONE"
    /\ Decide(p, "vacant", Here(p))
    /\ UNCHANGED <<occ, mem, left, truth>>

LoadTombstone(p) ==
    /\ Walking(p) /\ occ[Here(p)] = "TOMBSTONE"
    /\ Advance(p, IF proc[p].reuse = NoSlot THEN Here(p) ELSE proc[p].reuse)
    /\ UNCHANGED <<occ, mem, left, truth>>

LoadLive(p) ==
    /\ Walking(p) /\ occ[Here(p)] = "LIVE"
    /\ Become(p, [proc[p] EXCEPT !.pc = "match", !.todo = KeyFields])
    /\ UNCHANGED <<occ, mem, left, truth>>

\* slot.dev == dev && slot.ino == ino
Compare(p) ==
    /\ proc[p].pc = "match"
    /\ \E f \in proc[p].todo :
          IF mem[Here(p)][f] = proc[p].op.key[f]
          THEN Become(p, [proc[p] EXCEPT !.todo = @ \ {f}])
          ELSE Advance(p, proc[p].reuse)
    /\ UNCHANGED <<occ, mem, left, truth>>

Match(p) ==
    /\ proc[p].pc = "match" /\ proc[p].todo = {}
    /\ Decide(p, "found", Here(p))
    /\ UNCHANGED <<occ, mem, left, truth>>

\* Faulty variant: the last slot is not looked at.
GiveUp_Early(p) ==
    /\ proc[p].pc = "load" /\ proc[p].dist \in {N - 1, N}
    /\ Decide(p, "full", NoSlot)
    /\ UNCHANGED <<occ, mem, left, truth>>

\* slot_count steps ended nowhere.
GiveUp(p) ==
    /\ proc[p].pc = "load" /\ proc[p].dist = N
    /\ Decide(p, "full", NoSlot)
    /\ UNCHANGED <<occ, mem, left, truth>>

Read(p) ==
    /\ proc[p].pc = "access" /\ proc[p].op.kind = "get"
    /\ \E f \in proc[p].todo :
          Become(p, [proc[p] EXCEPT !.todo = @ \ {f},
                                    !.got[f] = mem[proc[p].tgt][f]])
    /\ UNCHANGED <<occ, mem, left, truth>>

Write(p) ==
    /\ proc[p].pc = "access" /\ proc[p].op.kind # "get"
    /\ \E f \in proc[p].todo :
          /\ mem' = [mem EXCEPT ![proc[p].tgt][f] = Value(proc[p].op, f)]
          /\ Become(p, [proc[p] EXCEPT !.todo = @ \ {f}])
    /\ UNCHANGED <<occ, left, truth>>

\* The entry of a key once a call is over; a full table drops an insert.
After(op, out, entry) ==
    CASE op.kind = "get" \/ out = "full" -> entry
      [] op.kind = "remove" /\ out # "full" -> Absent
      [] OTHER -> [f \in Meta |-> IF entry = Absent \/ f \in op.fields
                                  THEN Value(op, f) ELSE entry[f]]

\* Faulty variant of LastStore: a removed slot goes back to empty.
LastStore_ToEmpty(op, out) ==
    CASE out = "vacant" /\ op.kind \in {"chown", "set"} -> "LIVE"
      [] out = "found" /\ op.kind = "remove" -> "EMPTY"
      [] OTHER -> "none"

\* Inserting and removing end with a Release store, the others with a return.
LastStore(op, out) ==
    CASE out = "vacant" /\ op.kind \in {"chown", "set"} -> "LIVE"
      [] out = "found" /\ op.kind = "remove" -> "TOMBSTONE"
      [] OTHER -> "none"

Finish(p) ==
    LET op == proc[p].op
        last == LastStore(op, proc[p].out)
    IN  /\ proc[p].pc = "access" /\ proc[p].todo = {}
        /\ occ' = IF last = "none" THEN occ ELSE [occ EXCEPT ![proc[p].tgt] = last]
        /\ truth' = [truth EXCEPT ![op.key] = After(op, proc[p].out, @)]
        /\ Become(p, Idle)
        /\ UNCHANGED <<mem, left>>

Step(p) == \/ LoadEmpty(p) \/ LoadTombstone(p) \/ LoadLive(p) \/ Compare(p)
           \/ Match(p) \/ GiveUp(p) \/ Read(p) \/ Write(p) \/ Finish(p)

\* held[p]: where the key of p has been live ever since p started.
Watch ==
    held' = [p \in Procs |->
                IF proc'[p].pc = "idle" THEN {}
                ELSE {s \in IF Busy(p) THEN held[p] ELSE Slots :
                         LiveIn(occ', mem', s, proc'[p].op.key)}]

Next == \E p \in Procs : (Start(p) \/ Step(p)) /\ Watch

\* A process that is inside an operation keeps running.
Fairness == \A p \in Procs : WF_vars(Step(p) /\ Watch)

Spec == Init /\ [][Next]_vars
FairSpec == Spec /\ Fairness
-----------------------------------------------------------------------------
(***************************************************************************)
(* Properties that hold however the operations interleave.                 *)
(***************************************************************************)
\* Files of one file system, or of several whose inode numbers do not let the
\* dev of one file and the ino of another make up a third.
NoMixedKeys ==
    \A j, k, l \in Keys : l.dev = j.dev /\ l.ino = k.ino => l \in {j, k}

\* The d slots a walk for k visits first have all been used.
Reached(k, d) == \A e \in 0 .. d-1 : occ[At(k, e)] # "EMPTY"

\* No slot between the home bucket of a live entry's key and its slot is
\* empty, even when two inserts that chose the same slot write it together and
\* one of them publishes it while the other changes its key.
Reachable ==
    \A k \in Keys, d \in Slots : Holds(At(k, d), k) => Reached(k, d)

\* A lookup that finds nothing is right: no slot held its key all through the
\* walk.  get_inode then reports the real owner, and an insert takes another
\* slot for the key.
NoFalseMiss ==
    \A p \in Procs : proc[p].out \in {"vacant", "full"} => held[p] = {}

\* Probe::Full drops an insert only when every slot has been used.
FullMeansUsedUp ==
    \A p \in Procs : proc[p].out = "full" => \A s \in Slots : occ[s] # "EMPTY"

\* Every operation returns, whatever the others do to the slots it walks over.
Completes == \A p \in Procs : Busy(p) ~> ~ Busy(p)
-----------------------------------------------------------------------------
(***************************************************************************)
(* Properties that hold when no two mutating operations overlap (Serial),  *)
(* with any number of lookups beside them.                                 *)
(***************************************************************************)
\* A key has one live slot.
OneSlotPerKey ==
    \A k \in Keys : \A s, t \in Slots : Holds(s, k) /\ Holds(t, k) => s = t

\* A lookup whose entry was not removed under it returns what was written for
\* its own key in every field, never what the previous occupant left there.
NoForeignRead ==
    \A p \in Procs :
        LET me == proc[p] IN
        me.pc = "access" /\ me.op.kind = "get" /\ me.todo = {} /\ me.tgt \in held[p]
            => \A f \in Meta : me.got[f] # Unset /\ me.got[f].key = me.op.key

\* Between two mutating operations the table says what the calls that have
\* returned amount to.
View(k) ==
    IF \E s \in Slots : Holds(s, k)
    THEN [f \in Meta |-> mem[CHOOSE s \in Slots : Holds(s, k)][f]]
    ELSE Absent
Settled == (\A p \in Procs : ~ Mutating(p)) => \A k \in Keys : View(k) = truth[k]

\* With no call in progress, a file nobody has changed has no entry: an entry
\* belongs to the (dev, ino) it was made for.
Untouched ==
    (\A p \in Procs : ~ Busy(p)) =>
        \A k \in Keys : (\A p \in Procs : k \notin Files[p]) => View(k) = Absent
=============================================================================
