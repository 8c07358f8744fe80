---------------------------- MODULE ShmMap_proofs ----------------------------
(***************************************************************************)
(* Proofs about ShmMap for every number of processes, slots, keys and      *)
(* calls and for every hash function.                                      *)
(***************************************************************************)
EXTENDS ShmMap, TLAPS

-----------------------------------------------------------------------------
(***************************************************************************)
(* The walk of a key visits every slot once.                               *)
(***************************************************************************)
\* A step of probe stays inside the table.
LEMMA AtInSlots ==
    ASSUME NEW k \in Keys, NEW d \in Slots
    PROVE  At(k, d) \in Slots
  BY ShmMapAssumption DEF At, Slots

\* The slot_count steps of probe visit different slots.
LEMMA AtInjective ==
    ASSUME NEW k \in Keys, NEW d \in Slots, NEW e \in Slots, At(k, d) = At(k, e)
    PROVE  d = e
  BY ShmMapAssumption DEF At, Slots

\* The slot_count steps of probe leave no slot out.
LEMMA AtOnto ==
    ASSUME NEW k \in Keys, NEW s \in Slots
    PROVE  \E d \in Slots : At(k, d) = s
<1>1. CASE s >= Hash[k]
  <2>1. s - Hash[k] \in Slots /\ At(k, s - Hash[k]) = s
    BY <1>1, ShmMapAssumption DEF At, Slots
  <2> QED BY <2>1
<1>2. CASE s < Hash[k]
  <2>1. s - Hash[k] + N \in Slots /\ At(k, s - Hash[k] + N) = s
    BY <1>2, ShmMapAssumption DEF At, Slots
  <2> QED BY <2>1
<1> QED BY <1>1, <1>2, ShmMapAssumption DEF Slots
-----------------------------------------------------------------------------
(***************************************************************************)
(* Type correctness.                                                       *)
(***************************************************************************)
\* What the program counter of a process says of its other local variables:
\* a walk has a key to look for, and a slot is accessed once it was chosen.
LocalOK(p) ==
    /\ Busy(p) => proc[p].op \in Ops
    /\ proc[p].pc \in {"idle", "load", "match"} => proc[p].out = "none"
    /\ proc[p].pc = "match" => proc[p].dist < N /\ proc[p].todo \subseteq KeyFields
    /\ proc[p].out \in {"found", "vacant"} => proc[p].tgt \in Slots
    /\ proc[p].pc = "access" /\ proc[p].todo # {} => proc[p].tgt \in Slots
    /\ proc[p].pc = "access" => proc[p].todo \subseteq Accesses(proc[p].op, proc[p].out)

TypeInv == TypeOK /\ \A p \in Procs : LocalOK(p)

\* Calls have a key, and fields among those looked at.
LEMMA OpsTyped ==
    ASSUME NEW op \in Ops
    PROVE  /\ op.key \in Keys
           /\ op.fields \subseteq Meta
           /\ op.n \in 0 .. V
           /\ op.kind \in {"get", "remove", "chown", "set"}
  BY ShmMapAssumption DEF Ops, Calls, Call

\* A probe outcome leads to accesses to fields of the slot only.
LEMMA AccessesTyped ==
    ASSUME NEW op \in Ops, NEW out
    PROVE  /\ Accesses(op, out) \subseteq Fields
           /\ out \notin {"found", "vacant"} => Accesses(op, out) = {}
           /\ op.kind = "get" => Accesses(op, out) \subseteq Meta
  BY OpsTyped DEF Accesses, Fields

\* What a write puts into a field fits there; a metadata field gets a value.
LEMMA ValueTyped ==
    ASSUME NEW op \in Ops, NEW f \in Fields
    PROVE  Value(op, f) \in Data /\ (f \in Meta => Value(op, f) \in Vals)
<1>1. op.key \in Keys /\ op.n \in 0 .. V
  BY OpsTyped
<1>2. CASE f \in KeyFields
  <2>1. f \notin Meta
    BY <1>2, ShmMapAssumption DEF KeyFields, Owner
  <2>2. f = "dev" \/ f = "ino"
    BY <1>2 DEF KeyFields
  <2>3. op.key["dev"] \in Data /\ op.key["ino"] \in Data
    BY <1>1 DEF Data
  <2> QED BY <1>2, <2>1, <2>2, <2>3 DEF Value
<1>3. CASE f \notin KeyFields
  <2>1. (IF f \in op.fields THEN op.n ELSE 0) \in 0 .. V
    BY <1>1, ShmMapAssumption
  <2>2. Value(op, f) \in Vals
    BY <1>1, <1>3, <2>1 DEF Value, Val, Vals
  <2> QED BY <2>2 DEF Data
<1> QED BY <1>2, <1>3

\* The last store of a call, if any, is to the slot it chose.
LEMMA LastStoreTyped ==
    ASSUME NEW op, NEW out
    PROVE  /\ LastStore(op, out) \in {"LIVE", "TOMBSTONE", "none"}
           /\ LastStore(op, out) # "none" => out \in {"found", "vacant"}
  BY Zenon DEF LastStore

\* What a call amounts to is an entry again, or none.
LEMMA AfterTyped ==
    ASSUME NEW op \in Ops, NEW out, NEW entry \in [Meta -> Vals] \cup {Absent}
    PROVE  After(op, out, entry) \in [Meta -> Vals] \cup {Absent}
<1>1. [f \in Meta |-> IF entry = Absent \/ f \in op.fields
                      THEN Value(op, f) ELSE entry[f]] \in [Meta -> Vals]
  BY ValueTyped DEF Fields
<1> QED BY <1>1, Zenon DEF After

\* Deciding on an outcome keeps the local variables of the process typed.
LEMMA DecideTyped ==
    ASSUME TypeInv, NEW p \in Procs, Busy(p),
           NEW out \in {"found", "vacant", "full"}, NEW s \in Slots \cup {NoSlot},
           out # "full" => s \in Slots,
           Decide(p, out, s)
    PROVE  proc' \in [Procs -> Proc] /\ \A q \in Procs : LocalOK(q)'
<1>1. proc[p] \in Proc /\ proc[p].op \in Ops
  BY DEF TypeInv, TypeOK, LocalOK
<1>2. DEFINE new == [proc[p] EXCEPT !.pc = "access", !.out = out, !.tgt = s,
                                    !.todo = Accesses(proc[p].op, out)]
<1>3. proc' = [proc EXCEPT ![p] = new]
  BY DEF Decide, Become
<1>4. Accesses(proc[p].op, out) \subseteq Fields
      /\ (out \notin {"found", "vacant"} => Accesses(proc[p].op, out) = {})
  BY <1>1, AccessesTyped
<1>5. new \in Proc
  BY <1>1, <1>4 DEF Proc
<1>6. proc' \in [Procs -> Proc] /\ proc'[p] = new
      /\ \A q \in Procs \ {p} : proc'[q] = proc[q]
  BY <1>3, <1>5 DEF TypeInv, TypeOK
<1>7. LocalOK(p)'
  BY <1>1, <1>4, <1>6 DEF LocalOK, Busy, Proc
<1>8. ASSUME NEW q \in Procs \ {p} PROVE LocalOK(q)'
  BY <1>6 DEF TypeInv, LocalOK, Busy
<1> QED BY <1>6, <1>7, <1>8

\* So does going on to the next slot.
LEMMA AdvanceTyped ==
    ASSUME TypeInv, NEW p \in Procs, Busy(p), proc[p].dist < N,
           proc[p].out = "none",
           NEW reuse \in Slots \cup {NoSlot}, Advance(p, reuse)
    PROVE  proc' \in [Procs -> Proc] /\ \A q \in Procs : LocalOK(q)'
<1>1. proc[p] \in Proc /\ proc[p].op \in Ops
  BY DEF TypeInv, TypeOK, LocalOK
<1>2. DEFINE new == [proc[p] EXCEPT !.pc = "load", !.dist = @ + 1,
                                    !.reuse = reuse, !.todo = {}]
<1>3. proc' = [proc EXCEPT ![p] = new]
  BY DEF Advance, Become
<1>4. new \in Proc
  <2>1. proc[p].dist + 1 \in 0 .. N
    BY <1>1, ShmMapAssumption DEF Proc
  <2> QED BY <1>1, <2>1 DEF Proc
<1>5. proc' \in [Procs -> Proc] /\ proc'[p] = new
      /\ \A q \in Procs \ {p} : proc'[q] = proc[q]
  BY <1>3, <1>4 DEF TypeInv, TypeOK
<1>6. LocalOK(p)'
  BY <1>1, <1>5 DEF LocalOK, Busy, Proc
<1>7. ASSUME NEW q \in Procs \ {p} PROVE LocalOK(q)'
  BY <1>5 DEF TypeInv, LocalOK, Busy
<1> QED BY <1>5, <1>6, <1>7

\* A process between two calls is typed.
LEMMA IdleTyped == Idle \in Proc
  BY ShmMapAssumption DEF Idle, Proc, Data

\* What the steps leave in the local variables of the process.
LEMMA BecomeIs ==
    ASSUME TypeInv, NEW p \in Procs, NEW state, Become(p, state)
    PROVE  proc'[p] = state /\ \A q \in Procs \ {p} : proc'[q] = proc[q]
  BY DEF TypeInv, TypeOK, Become

LEMMA DecideIs ==
    ASSUME TypeInv, NEW p \in Procs, NEW out, NEW s, Decide(p, out, s)
    PROVE  /\ proc'[p].pc = "access" /\ proc'[p].op = proc[p].op
           /\ proc'[p].out = out /\ proc'[p].tgt = s
           /\ proc'[p].todo = Accesses(proc[p].op, out)
           /\ proc'[p].dist = proc[p].dist /\ proc'[p].reuse = proc[p].reuse
           /\ proc'[p].got = proc[p].got
<1>1. proc'[p] = [proc[p] EXCEPT !.pc = "access", !.out = out, !.tgt = s,
                                 !.todo = Accesses(proc[p].op, out)]
  BY BecomeIs DEF Decide
<1>2. proc[p] \in Proc
  BY DEF TypeInv, TypeOK
<1> QED BY <1>1, <1>2 DEF Proc

LEMMA AdvanceIs ==
    ASSUME TypeInv, NEW p \in Procs, NEW reuse, Advance(p, reuse)
    PROVE  /\ proc'[p].pc = "load" /\ proc'[p].op = proc[p].op
           /\ proc'[p].dist = proc[p].dist + 1 /\ proc'[p].reuse = reuse
           /\ proc'[p].out = proc[p].out /\ proc'[p].tgt = proc[p].tgt
           /\ proc'[p].todo = {} /\ proc'[p].got = proc[p].got
<1>1. proc'[p] = [proc[p] EXCEPT !.pc = "load", !.dist = proc[p].dist + 1,
                                 !.reuse = reuse, !.todo = {}]
  BY BecomeIs DEF Advance
<1>2. proc[p] \in Proc
  BY DEF TypeInv, TypeOK
<1> QED BY <1>1, <1>2 DEF Proc

LEMMA TodoIs ==
    ASSUME TypeInv, NEW p \in Procs, NEW T,
           Become(p, [proc[p] EXCEPT !.todo = T])
    PROVE  /\ proc'[p].pc = proc[p].pc /\ proc'[p].op = proc[p].op
           /\ proc'[p].dist = proc[p].dist /\ proc'[p].reuse = proc[p].reuse
           /\ proc'[p].out = proc[p].out /\ proc'[p].tgt = proc[p].tgt
           /\ proc'[p].todo = T /\ proc'[p].got = proc[p].got
<1>1. proc'[p] = [proc[p] EXCEPT !.todo = T]
  BY BecomeIs
<1>2. proc[p] \in Proc
  BY DEF TypeInv, TypeOK
<1> QED BY <1>1, <1>2 DEF Proc

LEMMA LoadLiveIs ==
    ASSUME TypeInv, NEW p \in Procs, LoadLive(p)
    PROVE  /\ proc[p].pc = "load" /\ proc'[p].pc = "match"
           /\ proc'[p].op = proc[p].op
           /\ proc'[p].dist = proc[p].dist /\ proc'[p].reuse = proc[p].reuse
           /\ proc'[p].out = proc[p].out /\ proc'[p].tgt = proc[p].tgt
           /\ proc'[p].todo = KeyFields /\ proc'[p].got = proc[p].got
<1>1. proc'[p] = [proc[p] EXCEPT !.pc = "match", !.todo = KeyFields]
  BY BecomeIs DEF LoadLive
<1>2. proc[p] \in Proc
  BY DEF TypeInv, TypeOK
<1>3. proc[p].pc = "load"
  BY DEF LoadLive, Walking
<1> QED BY <1>1, <1>2, <1>3 DEF Proc

LEMMA ReadIs ==
    ASSUME TypeInv, NEW p \in Procs, Read(p)
    PROVE  /\ proc'[p].pc = proc[p].pc /\ proc'[p].op = proc[p].op
           /\ proc'[p].dist = proc[p].dist /\ proc'[p].reuse = proc[p].reuse
           /\ proc'[p].out = proc[p].out /\ proc'[p].tgt = proc[p].tgt
<1>1. PICK f \in proc[p].todo :
          Become(p, [proc[p] EXCEPT !.todo = @ \ {f},
                                    !.got[f] = mem[proc[p].tgt][f]])
  BY DEF Read
<1>2. proc'[p] = [proc[p] EXCEPT !.todo = @ \ {f},
                                 !.got[f] = mem[proc[p].tgt][f]]
  BY <1>1, BecomeIs
<1>3. proc[p] \in Proc
  BY DEF TypeInv, TypeOK
<1> QED BY <1>2, <1>3 DEF Proc

LEMMA WriteIs ==
    ASSUME TypeInv, NEW p \in Procs, Write(p)
    PROVE  /\ proc'[p].pc = proc[p].pc /\ proc'[p].op = proc[p].op
           /\ proc'[p].dist = proc[p].dist /\ proc'[p].reuse = proc[p].reuse
           /\ proc'[p].out = proc[p].out /\ proc'[p].tgt = proc[p].tgt
<1>1. PICK f \in proc[p].todo : Become(p, [proc[p] EXCEPT !.todo = @ \ {f}])
  BY DEF Write
<1> QED BY <1>1, TodoIs

LEMMA FinishIs ==
    ASSUME TypeInv, NEW p \in Procs, Finish(p)
    PROVE  proc'[p] = Idle
  BY BecomeIs DEF Finish

\* What a step changes besides: Write the fields of a slot, Finish its
\* occupied word.
LEMMA Stores ==
    ASSUME NEW p \in Procs, Start(p) \/ Step(p)
    PROVE  /\ Finish(p) \/ (occ' = occ /\ truth' = truth)
           /\ Write(p) \/ mem' = mem
<1>1. CASE Start(p)
  BY <1>1 DEF Start
<1>2. CASE LoadEmpty(p)
  BY <1>2 DEF LoadEmpty
<1>3. CASE LoadTombstone(p)
  BY <1>3 DEF LoadTombstone
<1>4. CASE LoadLive(p)
  BY <1>4 DEF LoadLive
<1>5. CASE Compare(p)
  BY <1>5 DEF Compare
<1>6. CASE Match(p)
  BY <1>6 DEF Match
<1>7. CASE GiveUp(p)
  BY <1>7 DEF GiveUp
<1>8. CASE Read(p)
  BY <1>8 DEF Read
<1>9. CASE Write(p)
  BY <1>9 DEF Write
<1>10. CASE Finish(p)
  BY <1>10 DEF Finish
<1> QED
  BY <1>1, <1>2, <1>3, <1>4, <1>5, <1>6, <1>7, <1>8, <1>9, <1>10 DEF Step

\* A step of p leaves the local variables of the others alone.
LEMMA OthersKeep ==
    ASSUME TypeInv, NEW p \in Procs, Start(p) \/ Step(p), NEW q \in Procs, q # p
    PROVE  proc'[q] = proc[q]
<1>1. CASE Start(p)
  BY <1>1, BecomeIs DEF Start
<1>2. CASE LoadEmpty(p)
  BY <1>2, BecomeIs DEF LoadEmpty, Decide
<1>3. CASE LoadTombstone(p)
  BY <1>3, BecomeIs DEF LoadTombstone, Advance
<1>4. CASE LoadLive(p)
  BY <1>4, BecomeIs DEF LoadLive
<1>5. CASE Compare(p)
  BY <1>5, BecomeIs DEF Compare, Advance
<1>6. CASE Match(p)
  BY <1>6, BecomeIs DEF Match, Decide
<1>7. CASE GiveUp(p)
  BY <1>7, BecomeIs DEF GiveUp, Decide
<1>8. CASE Read(p)
  BY <1>8, BecomeIs DEF Read
<1>9. CASE Write(p)
  BY <1>9, BecomeIs DEF Write
<1>10. CASE Finish(p)
  BY <1>10, BecomeIs DEF Finish
<1> QED
  BY <1>1, <1>2, <1>3, <1>4, <1>5, <1>6, <1>7, <1>8, <1>9, <1>10 DEF Step

\* Between its steps a process is where Walking, Compare and the accesses
\* expect it: every step keeps the types and LocalOK.
LEMMA StepTyped ==
    ASSUME TypeInv, NEW p \in Procs, Start(p) \/ Step(p), Watch
    PROVE  TypeInv'
<1> USE DEF TypeInv
<1>p. proc[p] \in Proc /\ LocalOK(p)
  BY DEF TypeOK
<1>h. held' \in [Procs -> SUBSET Slots]
  BY DEF Watch, TypeOK
<1>w. Walking(p) => Busy(p) /\ proc[p].dist \in Slots /\ proc[p].out = "none"
                    /\ proc[p].op \in Ops /\ Here(p) \in Slots
  BY <1>p, ShmMapAssumption, AtInSlots, OpsTyped
     DEF Walking, Busy, LocalOK, Here, Proc, Slots
<1>r. proc[p].reuse \in Slots \cup {NoSlot}
  BY <1>p DEF Proc
<1>1. CASE Start(p)
  <2>1. PICK op \in Ops : proc' = [proc EXCEPT ![p] = [Idle EXCEPT !.pc = "load", !.op = op]]
    BY <1>1 DEF Start, Become
  <2>2. [Idle EXCEPT !.pc = "load", !.op = op] \in Proc
    BY IdleTyped DEF Proc
  <2>3. proc' \in [Procs -> Proc]
    BY <2>1, <2>2 DEF TypeOK
  <2>4. left' \in [Procs -> 0 .. MaxOps]
    <3>0. left[p] \in 0 .. MaxOps /\ left[p] > 0
      BY <1>1 DEF Start, TypeOK
    <3>1. left[p] - 1 \in 0 .. MaxOps
      BY <3>0, ShmMapAssumption
    <3> QED BY <1>1, <3>1 DEF Start, TypeOK
  <2>5. TypeOK'
    BY <1>1, <1>h, <2>3, <2>4 DEF Start, TypeOK
  <2>6. LocalOK(p)'
    BY <2>1 DEF TypeOK, LocalOK, Busy, Idle
  <2>7. \A q \in Procs \ {p} : LocalOK(q)'
    BY <2>1 DEF TypeOK, LocalOK, Busy
  <2> QED BY <2>5, <2>6, <2>7
<1>2. CASE LoadEmpty(p)
  <2>1. proc' \in [Procs -> Proc] /\ \A q \in Procs : LocalOK(q)'
    BY <1>2, <1>w, <1>r, DecideTyped DEF LoadEmpty
  <2> QED BY <1>2, <1>h, <2>1 DEF LoadEmpty, TypeOK
<1>3. CASE LoadTombstone(p)
  <2>1. proc' \in [Procs -> Proc] /\ \A q \in Procs : LocalOK(q)'
    BY <1>3, <1>w, <1>r, AdvanceTyped DEF LoadTombstone, Walking
  <2> QED BY <1>3, <1>h, <2>1 DEF LoadTombstone, TypeOK
<1>4. CASE LoadLive(p)
  <2>1. proc' = [proc EXCEPT ![p] = [proc[p] EXCEPT !.pc = "match", !.todo = KeyFields]]
    BY <1>4 DEF LoadLive, Become
  <2>2. [proc[p] EXCEPT !.pc = "match", !.todo = KeyFields] \in Proc
    BY <1>p DEF Proc, Fields
  <2>3. proc' \in [Procs -> Proc]
    BY <2>1, <2>2 DEF TypeOK
  <2>4. LocalOK(p)'
    BY <1>4, <1>p, <1>w, <2>1 DEF TypeOK, LocalOK, Busy, Proc, LoadLive, Walking
  <2>5. \A q \in Procs \ {p} : LocalOK(q)'
    BY <2>1 DEF TypeOK, LocalOK, Busy
  <2> QED BY <1>4, <1>h, <2>3, <2>4, <2>5 DEF LoadLive, TypeOK
<1>5. CASE Compare(p)
  <2>1. Busy(p) /\ proc[p].dist < N /\ proc[p].out = "none"
    BY <1>5, <1>p DEF Compare, LocalOK, Busy
  <2>2. PICK f \in proc[p].todo :
            \/ proc' = [proc EXCEPT ![p] = [proc[p] EXCEPT !.todo = @ \ {f}]]
            \/ Advance(p, proc[p].reuse)
    BY <1>5 DEF Compare, Become
  <2>3. CASE Advance(p, proc[p].reuse)
    <3>1. proc' \in [Procs -> Proc] /\ \A q \in Procs : LocalOK(q)'
      BY <2>1, <2>3, <1>r, AdvanceTyped
    <3> QED BY <1>5, <1>h, <3>1 DEF Compare, TypeOK
  <2>4. CASE proc' = [proc EXCEPT ![p] = [proc[p] EXCEPT !.todo = @ \ {f}]]
    <3>1. [proc[p] EXCEPT !.todo = @ \ {f}] \in Proc
      BY <1>p DEF Proc
    <3>2. proc' \in [Procs -> Proc]
      BY <2>4, <3>1 DEF TypeOK
    <3>3. LocalOK(p)'
      BY <1>5, <1>p, <2>4 DEF TypeOK, LocalOK, Busy, Proc, Compare
    <3>4. \A q \in Procs \ {p} : LocalOK(q)'
      BY <2>4 DEF TypeOK, LocalOK, Busy
    <3> QED BY <1>5, <1>h, <3>2, <3>3, <3>4 DEF Compare, TypeOK
  <2> QED BY <2>2, <2>3, <2>4
<1>6. CASE Match(p)
  <2>1. Busy(p) /\ Here(p) \in Slots
    BY <1>6, <1>p, ShmMapAssumption, AtInSlots, OpsTyped
       DEF Match, LocalOK, Busy, Here, Proc, Slots
  <2>2. proc' \in [Procs -> Proc] /\ \A q \in Procs : LocalOK(q)'
    BY <1>6, <2>1, DecideTyped DEF Match
  <2> QED BY <1>6, <1>h, <2>2 DEF Match, TypeOK
<1>7. CASE GiveUp(p)
  <2>1. proc' \in [Procs -> Proc] /\ \A q \in Procs : LocalOK(q)'
    BY <1>7, DecideTyped DEF GiveUp, Busy
  <2> QED BY <1>7, <1>h, <2>1 DEF GiveUp, TypeOK
<1>8. CASE Read(p)
  <2>1. PICK f \in proc[p].todo :
            proc' = [proc EXCEPT ![p] = [proc[p] EXCEPT
                        !.todo = @ \ {f}, !.got[f] = mem[proc[p].tgt][f]]]
    BY <1>8 DEF Read, Become
  <2>2. proc[p].tgt \in Slots /\ f \in Meta
    BY <1>8, <1>p, AccessesTyped DEF Read, LocalOK, Busy
  <2>3. mem[proc[p].tgt][f] \in Data
    BY <2>2 DEF TypeOK, Fields
  <2>4. [proc[p] EXCEPT !.todo = @ \ {f}, !.got[f] = mem[proc[p].tgt][f]] \in Proc
    BY <1>p, <2>3 DEF Proc
  <2>5. proc' \in [Procs -> Proc]
    BY <2>1, <2>4 DEF TypeOK
  <2>6. LocalOK(p)'
    BY <1>8, <1>p, <2>1 DEF TypeOK, LocalOK, Busy, Proc, Read
  <2>7. \A q \in Procs \ {p} : LocalOK(q)'
    BY <2>1 DEF TypeOK, LocalOK, Busy
  <2> QED BY <1>8, <1>h, <2>5, <2>6, <2>7 DEF Read, TypeOK
<1>9. CASE Write(p)
  <2>1. PICK f \in proc[p].todo :
            /\ mem' = [mem EXCEPT ![proc[p].tgt][f] = Value(proc[p].op, f)]
            /\ proc' = [proc EXCEPT ![p] = [proc[p] EXCEPT !.todo = @ \ {f}]]
    BY <1>9 DEF Write, Become
  <2>2. proc[p].tgt \in Slots /\ f \in Fields /\ proc[p].op \in Ops
    BY <1>9, <1>p, AccessesTyped DEF Write, LocalOK, Busy
  <2>3. mem' \in [Slots -> [Fields -> Data]]
    BY <2>1, <2>2, ValueTyped DEF TypeOK
  <2>4. [proc[p] EXCEPT !.todo = @ \ {f}] \in Proc
    BY <1>p DEF Proc
  <2>5. proc' \in [Procs -> Proc]
    BY <2>1, <2>4 DEF TypeOK
  <2>6. LocalOK(p)'
    BY <1>9, <1>p, <2>1 DEF TypeOK, LocalOK, Busy, Proc, Write
  <2>7. \A q \in Procs \ {p} : LocalOK(q)'
    BY <2>1 DEF TypeOK, LocalOK, Busy
  <2> QED BY <1>9, <1>h, <2>3, <2>5, <2>6, <2>7 DEF Write, TypeOK
<1>10. CASE Finish(p)
  <2>1. proc[p].op \in Ops
    BY <1>10, <1>p DEF Finish, LocalOK, Busy
  <2>2. proc' = [proc EXCEPT ![p] = Idle]
    BY <1>10 DEF Finish, Become
  <2>3. Idle \in Proc
    BY IdleTyped
  <2>4. occ' \in [Slots -> {"EMPTY", "LIVE", "TOMBSTONE"}]
    BY <1>10, LastStoreTyped DEF Finish, TypeOK
  <2>5. truth' \in [Keys -> [Meta -> Vals] \cup {Absent}]
    BY <1>10, <2>1, AfterTyped, OpsTyped DEF Finish, TypeOK
  <2>6. proc' \in [Procs -> Proc]
    BY <2>2, <2>3 DEF TypeOK
  <2>7. LocalOK(p)'
    BY <2>2 DEF TypeOK, LocalOK, Busy, Idle
  <2>8. \A q \in Procs \ {p} : LocalOK(q)'
    BY <2>2 DEF TypeOK, LocalOK, Busy
  <2> QED BY <1>10, <1>h, <2>4, <2>5, <2>6, <2>7, <2>8 DEF Finish, TypeOK
<1> QED
  BY <1>1, <1>2, <1>3, <1>4, <1>5, <1>6, <1>7, <1>8, <1>9, <1>10 DEF Step

\* So it begins.
LEMMA InitTyped == Init => TypeInv
<1> SUFFICES ASSUME Init PROVE TypeInv
  OBVIOUS
<1>1. Idle \in Proc
  BY IdleTyped
<1>2. TypeOK
  BY <1>1, ShmMapAssumption DEF Init, TypeOK, Data
<1>3. ASSUME NEW p \in Procs PROVE LocalOK(p)
  BY DEF Init, LocalOK, Busy, Idle
<1> QED BY <1>2, <1>3 DEF TypeInv

\* TypeInv is an inductive invariant: steps keep it, and Watch only notes slots.
LEMMA TypeInvariance == Spec => []TypeInv
<1>1. TypeInv /\ [Next]_vars => TypeInv'
  <2> SUFFICES ASSUME TypeInv, [Next]_vars PROVE TypeInv'
    OBVIOUS
  <2>1. CASE Next
    BY <2>1, StepTyped DEF Next
  <2>2. CASE UNCHANGED vars
    BY <2>2 DEF vars, TypeInv, TypeOK, LocalOK, Busy
  <2> QED BY <2>1, <2>2
<1> QED BY <1>1, InitTyped, PTL DEF Spec

\* Every variable, and every local variable of every process, keeps its type
\* however the operations interleave.
THEOREM TypeCorrect == Spec => []TypeOK
  BY TypeInvariance, PTL DEF TypeInv
-----------------------------------------------------------------------------
(***************************************************************************)
(* The walks.  Slots never become empty again, so the slots a walk has     *)
(* passed stay used; whoever writes a key field of a slot got there on the *)
(* walk of a key with that field.  Both survive every interleaving, which  *)
(* "the entries of the table are reachable" alone does not: two inserts    *)
(* may write the same slot.                                                *)
(***************************************************************************)
\* The walk of k comes to slot s before any empty slot.
OnWalk(k, s) == \E d \in Slots : At(k, d) = s /\ Reached(k, d)

\* Every key field in the table was written on the walk of a key with it.
Origin ==
    \A s \in Slots, f \in KeyFields :
        mem[s][f] # Unset => \E k \in Keys : k[f] = mem[s][f] /\ OnWalk(k, s)

\* A process has only passed used slots, and chooses slots on its walk.
PathOK(p) ==
    /\ proc[p].pc \in {"load", "match"} =>
          /\ Reached(proc[p].op.key, proc[p].dist)
          /\ proc[p].reuse # NoSlot => OnWalk(proc[p].op.key, proc[p].reuse)
    /\ proc[p].pc = "match" => occ[Here(p)] # "EMPTY"
    /\ proc[p].out \in {"found", "vacant"} => OnWalk(proc[p].op.key, proc[p].tgt)
    /\ proc[p].out = "full" => Reached(proc[p].op.key, N)

WalkInv == TypeInv /\ Origin /\ \A p \in Procs : PathOK(p)

\* No operation stores SLOT_EMPTY.
LEMMA UsedStays ==
    ASSUME TypeInv, NEW p \in Procs, Start(p) \/ Step(p), NEW s \in Slots,
           occ[s] # "EMPTY"
    PROVE  occ'[s] # "EMPTY"
<1>1. CASE Finish(p)
  <2>1. PICK last : last = LastStore(proc[p].op, proc[p].out)
    OBVIOUS
  <2>2. last # "EMPTY"
    BY <2>1, LastStoreTyped
  <2>3. occ' = IF last = "none" THEN occ ELSE [occ EXCEPT ![proc[p].tgt] = last]
    BY <1>1, <2>1 DEF Finish
  <2>4. occ \in [Slots -> {"EMPTY", "LIVE", "TOMBSTONE"}]
    BY DEF TypeInv, TypeOK
  <2> QED BY <2>2, <2>3, <2>4
<1>2. CASE ~ Finish(p)
  BY <1>2, Stores
<1> QED BY <1>1, <1>2

\* So the slots a walk has passed stay passed ...
LEMMA ReachedStays ==
    ASSUME TypeInv, NEW p \in Procs, Start(p) \/ Step(p),
           NEW k \in Keys, NEW d \in 0 .. N, Reached(k, d)
    PROVE  Reached(k, d)'
<1> SUFFICES ASSUME NEW e \in 0 .. d-1 PROVE occ'[At(k, e)] # "EMPTY"
  BY DEF Reached, At
<1>1. e \in Slots /\ At(k, e) \in Slots
  BY ShmMapAssumption, AtInSlots DEF Slots
<1>2. occ[At(k, e)] # "EMPTY"
  BY DEF Reached
<1> QED BY <1>1, <1>2, UsedStays

\* ... and what lies on a walk stays on it.
LEMMA OnWalkStays ==
    ASSUME TypeInv, NEW p \in Procs, Start(p) \/ Step(p),
           NEW k \in Keys, NEW s \in Slots, OnWalk(k, s)
    PROVE  OnWalk(k, s)'
<1>1. PICK d \in Slots : At(k, d) = s /\ Reached(k, d)
  BY DEF OnWalk
<1>2. d \in 0 .. N
  BY ShmMapAssumption DEF Slots
<1>3. Reached(k, d)'
  BY <1>1, <1>2, ReachedStays
<1> QED BY <1>1, <1>3 DEF OnWalk, At


\* A slot that is passed because it is used extends the walk by one.
LEMMA ReachedMore ==
    ASSUME NEW k \in Keys, NEW d \in Slots, Reached(k, d), occ[At(k, d)] # "EMPTY"
    PROVE  Reached(k, d + 1)
  BY ShmMapAssumption DEF Reached, Slots

\* The others stay on their walks.
LEMMA OthersOnPath ==
    ASSUME WalkInv, NEW p \in Procs, Start(p) \/ Step(p), NEW q \in Procs, q # p
    PROVE  PathOK(q)'
<1> USE DEF WalkInv
<1>1. proc'[q] = proc[q] /\ proc[q] \in Proc /\ LocalOK(q) /\ PathOK(q)
  BY OthersKeep DEF TypeInv, TypeOK
<1>2. CASE proc[q].pc \in {"load", "match"}
  <2>1. proc[q].op.key \in Keys /\ proc[q].dist \in 0 .. N
    BY <1>1, <1>2, OpsTyped DEF LocalOK, Busy, Proc
  <2>2. Reached(proc[q].op.key, proc[q].dist)'
    BY <1>1, <1>2, <2>1, ReachedStays DEF PathOK
  <2>3. proc[q].reuse # NoSlot => OnWalk(proc[q].op.key, proc[q].reuse)'
    BY <1>1, <1>2, <2>1, OnWalkStays DEF PathOK, Proc
  <2>4. proc[q].pc = "match" => Here(q) \in Slots
    BY <1>1, <2>1, AtInSlots, ShmMapAssumption DEF Here, LocalOK, Slots
  <2>5. proc[q].pc = "match" => occ'[Here(q)] # "EMPTY"
    BY <1>1, <2>4, UsedStays DEF PathOK
  <2> QED BY <1>1, <1>2, <2>2, <2>3, <2>5 DEF PathOK, LocalOK, Here, At
<1>3. CASE proc[q].pc = "access"
  <2>1. proc[q].op.key \in Keys /\ N \in 0 .. N
    BY <1>1, <1>3, OpsTyped, ShmMapAssumption DEF LocalOK, Busy, Proc
  <2>2. proc[q].out \in {"found", "vacant"} => OnWalk(proc[q].op.key, proc[q].tgt)'
    BY <1>1, <2>1, OnWalkStays DEF PathOK, LocalOK
  <2>3. proc[q].out = "full" => Reached(proc[q].op.key, N)'
    BY <1>1, <2>1, ReachedStays DEF PathOK
  <2> QED BY <1>1, <1>3, <2>2, <2>3 DEF PathOK
<1>4. CASE proc[q].pc = "idle"
  BY <1>1, <1>4 DEF PathOK, LocalOK
<1> QED BY <1>1, <1>2, <1>3, <1>4 DEF Proc

\* A step that stores no occupied word keeps p on its walk if what it leaves in
\* the local variables of p is on the walk of the key.
LEMMA PathKept ==
    ASSUME NEW p \in Procs, NEW me, me = proc'[p], occ' = occ,
           me.pc \in {"load", "match"} => Reached(me.op.key, me.dist),
           me.pc \in {"load", "match"} /\ me.reuse # NoSlot
               => OnWalk(me.op.key, me.reuse),
           me.pc = "match" => occ[At(me.op.key, me.dist)] # "EMPTY",
           me.out \in {"found", "vacant"} => OnWalk(me.op.key, me.tgt),
           me.out = "full" => Reached(me.op.key, N)
    PROVE  PathOK(p)'
<1>1. proc'[p].pc \in {"load", "match"} => Reached(proc[p].op.key, proc[p].dist)'
  BY DEF Reached, At
<1>2. proc'[p].pc \in {"load", "match"} /\ proc'[p].reuse # NoSlot
          => OnWalk(proc[p].op.key, proc[p].reuse)'
  BY DEF OnWalk, Reached, At
<1>3. proc'[p].pc = "match" => occ'[Here(p)'] # "EMPTY"
  BY DEF Here, At
<1>4. proc'[p].out \in {"found", "vacant"} => OnWalk(proc[p].op.key, proc[p].tgt)'
  BY DEF OnWalk, Reached, At
<1>5. proc'[p].out = "full" => Reached(proc[p].op.key, N)'
  BY DEF Reached, At
<1> QED BY <1>1, <1>2, <1>3, <1>4, <1>5 DEF PathOK

\* So does the process that makes the step.
LEMMA SelfOnPath ==
    ASSUME WalkInv, NEW p \in Procs, Start(p) \/ Step(p)
    PROVE  PathOK(p)'
<1> USE DEF WalkInv
<1> DEFINE k == proc[p].op.key
<1>p. proc[p] \in Proc /\ LocalOK(p) /\ PathOK(p) /\ proc \in [Procs -> Proc]
  BY DEF TypeInv, TypeOK
<1>k. Busy(p) => k \in Keys
  BY <1>p, OpsTyped DEF LocalOK
<1>w. Walking(p) => /\ k \in Keys /\ proc[p].dist \in Slots
                    /\ Here(p) \in Slots /\ Here(p) = At(k, proc[p].dist)
                    /\ Reached(k, proc[p].dist)
  BY <1>p, <1>k, ShmMapAssumption, AtInSlots
     DEF Walking, Busy, Here, Proc, Slots, PathOK
<1>here. Walking(p) => OnWalk(k, Here(p))
  BY <1>w DEF OnWalk
<1>1. CASE Start(p)
  <2>1. PICK op \in Ops : proc' = [proc EXCEPT ![p] = [Idle EXCEPT !.pc = "load", !.op = op]]
    BY <1>1 DEF Start, Become
  <2>2. /\ proc'[p].dist = 0 /\ proc'[p].reuse = NoSlot /\ proc'[p].out = "none"
        /\ proc'[p].pc = "load"
    BY <1>p, <2>1 DEF Idle
  <2>3. 0 .. 0-1 = {}
    OBVIOUS
  <2>4. Reached(proc[p].op.key, proc[p].dist)'
    BY <2>2, <2>3 DEF Reached
  <2> QED BY <2>2, <2>4 DEF PathOK
<1>me. PICK me : me = proc'[p]
  OBVIOUS
<1>2. CASE LoadEmpty(p)
  <2>1. proc'[p].op = proc[p].op /\ proc'[p].pc = "access" /\ proc'[p].out = "vacant"
        /\ proc'[p].tgt = IF proc[p].reuse = NoSlot THEN Here(p) ELSE proc[p].reuse
    BY <1>2, <1>p, DecideIs DEF LoadEmpty
  <2>2. OnWalk(k, proc'[p].tgt)
    BY <1>2, <1>p, <1>here, <2>1 DEF LoadEmpty, Walking, PathOK
  <2>3. occ' = occ
    BY <1>2 DEF LoadEmpty
  <2> QED BY <1>me, <2>1, <2>2, <2>3, PathKept
<1>3. CASE LoadTombstone(p)
  <2>1. proc'[p].op = proc[p].op /\ proc'[p].pc = "load" /\ proc'[p].out = "none"
        /\ proc'[p].dist = proc[p].dist + 1
        /\ proc'[p].reuse = IF proc[p].reuse = NoSlot THEN Here(p) ELSE proc[p].reuse
    BY <1>3, <1>p, AdvanceIs DEF LoadTombstone, Walking, LocalOK
  <2>2. OnWalk(k, proc'[p].reuse)
    BY <1>3, <1>p, <1>here, <2>1 DEF LoadTombstone, Walking, PathOK
  <2>3. Reached(k, proc[p].dist + 1)
    BY <1>3, <1>w, ReachedMore DEF LoadTombstone
  <2>4. occ' = occ
    BY <1>3 DEF LoadTombstone
  <2> QED BY <1>me, <2>1, <2>2, <2>3, <2>4, PathKept
<1>4. CASE LoadLive(p)
  <2>1. proc'[p].op = proc[p].op /\ proc'[p].pc = "match" /\ proc'[p].out = "none"
        /\ proc'[p].dist = proc[p].dist /\ proc'[p].reuse = proc[p].reuse
    BY <1>4, <1>p, LoadLiveIs DEF Walking, LocalOK
  <2>2. occ' = occ /\ Walking(p)
    BY <1>4 DEF LoadLive
  <2>3. occ[At(k, proc[p].dist)] # "EMPTY"
    BY <1>4, <1>w DEF LoadLive
  <2>4. proc[p].reuse # NoSlot => OnWalk(k, proc[p].reuse)
    BY <1>p, <2>2 DEF PathOK, Walking
  <2> QED BY <1>w, <1>me, <2>1, <2>2, <2>3, <2>4, PathKept
<1>m. proc[p].pc = "match" => /\ k \in Keys /\ proc[p].dist \in Slots
                              /\ Here(p) = At(k, proc[p].dist)
                              /\ Reached(k, proc[p].dist) /\ proc[p].out = "none"
                              /\ proc[p].reuse # NoSlot => OnWalk(k, proc[p].reuse)
  BY <1>p, <1>k, ShmMapAssumption DEF LocalOK, Busy, Here, Proc, Slots, PathOK
<1>5. CASE Compare(p)
  <2>a. PICK f \in proc[p].todo :
            \/ Become(p, [proc[p] EXCEPT !.todo = @ \ {f}])
            \/ Advance(p, proc[p].reuse)
    BY <1>5 DEF Compare
  <2>1. proc'[p].op = proc[p].op /\ proc'[p].out = "none"
        /\ proc'[p].reuse = proc[p].reuse /\ occ' = occ
    <3>1. CASE Become(p, [proc[p] EXCEPT !.todo = @ \ {f}])
      BY <1>5, <1>p, <1>m, <3>1, TodoIs DEF Compare
    <3>2. CASE Advance(p, proc[p].reuse)
      BY <1>5, <1>p, <1>m, <3>2, AdvanceIs DEF Compare
    <3> QED BY <2>a, <3>1, <3>2
  <2>2. \/ proc'[p].dist = proc[p].dist
        \/ proc'[p].dist = proc[p].dist + 1
    BY <2>a, AdvanceIs, TodoIs
  <2>c. proc[p].pc = "match"
    BY <1>5 DEF Compare
  <2>3. occ[At(k, proc[p].dist)] # "EMPTY" /\ Reached(k, proc'[p].dist)
    <3>1. occ[At(k, proc[p].dist)] # "EMPTY"
      BY <1>p, <1>m, <2>c DEF PathOK
    <3> QED BY <1>m, <2>c, <2>2, <3>1, ReachedMore
  <2>4. proc'[p].pc = "match" => proc'[p].dist = proc[p].dist
    BY <1>m, <2>a, AdvanceIs, TodoIs
  <2> QED BY <1>m, <1>me, <2>c, <2>1, <2>3, <2>4, PathKept
<1>6. CASE Match(p)
  <2>1. proc'[p].op = proc[p].op /\ proc'[p].pc = "access" /\ proc'[p].out = "found"
        /\ proc'[p].tgt = Here(p) /\ occ' = occ
    BY <1>6, <1>p, DecideIs DEF Match
  <2>2. OnWalk(k, Here(p))
    BY <1>6, <1>m DEF Match, OnWalk
  <2> QED BY <1>me, <2>1, <2>2, PathKept
<1>7. CASE GiveUp(p)
  <2>1. proc'[p].op = proc[p].op /\ proc'[p].pc = "access" /\ proc'[p].out = "full"
        /\ occ' = occ
    BY <1>7, <1>p, DecideIs DEF GiveUp
  <2>2. Reached(k, N)
    BY <1>7, <1>p DEF GiveUp, PathOK
  <2> QED BY <1>me, <2>1, <2>2, PathKept
<1>8. CASE Read(p) \/ Write(p)
  <2>1. proc'[p].op = proc[p].op /\ proc'[p].pc = "access" /\ proc'[p].out = proc[p].out
        /\ proc'[p].tgt = proc[p].tgt /\ occ' = occ
    <3>1. CASE Read(p)
      BY <1>p, <3>1, ReadIs DEF Read
    <3>2. CASE Write(p)
      BY <1>p, <3>2, WriteIs DEF Write
    <3> QED BY <1>8, <3>1, <3>2
  <2>2. /\ proc[p].out \in {"found", "vacant"} => OnWalk(k, proc[p].tgt)
        /\ proc[p].out = "full" => Reached(k, N)
    BY <1>p DEF PathOK
  <2> QED BY <1>me, <2>1, <2>2, PathKept
<1>9. CASE Finish(p)
  BY <1>9, <1>p, FinishIs DEF PathOK, Idle
<1> QED
  BY <1>1, <1>2, <1>3, <1>4, <1>5, <1>6, <1>7, <1>8, <1>9 DEF Step

\* A write into a key field is made on the walk of the key it comes from.
LEMMA OriginStays ==
    ASSUME WalkInv, NEW p \in Procs, Start(p) \/ Step(p)
    PROVE  Origin'
<1> USE DEF WalkInv
<1> SUFFICES ASSUME NEW s \in Slots, NEW f \in KeyFields, mem'[s][f] # Unset
             PROVE  \E k \in Keys : k[f] = mem'[s][f] /\ OnWalk(k, s)'
  BY DEF Origin
<1>1. CASE mem'[s][f] = mem[s][f]
  <2>1. PICK k \in Keys : k[f] = mem[s][f] /\ OnWalk(k, s)
    BY <1>1 DEF Origin
  <2>2. OnWalk(k, s)'
    BY <2>1, OnWalkStays
  <2> QED BY <1>1, <2>1, <2>2
<1>2. CASE mem'[s][f] # mem[s][f]
  <2>1. Write(p)
    BY <1>2, Stores
  <2>2. PICK g \in proc[p].todo :
            mem' = [mem EXCEPT ![proc[p].tgt][g] = Value(proc[p].op, g)]
    BY <2>1 DEF Write
  <2>3. s = proc[p].tgt /\ f = g
    BY <1>2, <2>2 DEF TypeInv, TypeOK
  <2>4. mem'[s][f] = proc[p].op.key[f]
    BY <1>2, <2>2, <2>3 DEF TypeInv, TypeOK, Value, Fields
  <2>5. proc[p].op \in Ops /\ proc[p].out \in {"found", "vacant"}
    BY <2>1, <2>2, AccessesTyped DEF Write, TypeInv, LocalOK, Busy
  <2>6. proc[p].op.key \in Keys /\ OnWalk(proc[p].op.key, s)
    BY <2>3, <2>5, OpsTyped DEF PathOK
  <2>7. PICK k \in Keys : k = proc[p].op.key
    BY <2>6
  <2>8. OnWalk(k, s)'
    BY <2>6, <2>7, OnWalkStays
  <2> QED BY <2>4, <2>7, <2>8
<1> QED BY <1>1, <1>2

\* Every step keeps the paths of all processes and the origin of all key fields.
LEMMA WalkInvariance == Spec => []WalkInv
<1>1. Init => WalkInv
  <2> SUFFICES ASSUME Init PROVE WalkInv
    OBVIOUS
  <2>1. Origin
    BY DEF Init, Origin, Fields
  <2>2. ASSUME NEW p \in Procs PROVE PathOK(p)
    BY DEF Init, PathOK, Idle
  <2> QED BY <2>1, <2>2, InitTyped DEF WalkInv
<1>2. WalkInv /\ [Next]_vars => WalkInv'
  <2> SUFFICES ASSUME WalkInv, [Next]_vars PROVE WalkInv'
    OBVIOUS
  <2>1. CASE Next
    <3>1. PICK p \in Procs : (Start(p) \/ Step(p)) /\ Watch
      BY <2>1 DEF Next
    <3>2. TypeInv'
      BY <3>1, StepTyped DEF WalkInv
    <3>3. Origin'
      BY <3>1, OriginStays
    <3>4. \A q \in Procs : PathOK(q)'
      BY <3>1, SelfOnPath, OthersOnPath
    <3> QED BY <3>2, <3>3, <3>4 DEF WalkInv
  <2>2. CASE UNCHANGED vars
    <3>1. TypeInv'
      BY <2>2 DEF vars, WalkInv, TypeInv, TypeOK, LocalOK, Busy
    <3>2. Origin'
      <4> SUFFICES ASSUME NEW s \in Slots, NEW f \in KeyFields, mem'[s][f] # Unset
                   PROVE  \E k \in Keys : k[f] = mem'[s][f] /\ OnWalk(k, s)'
        BY DEF Origin
      <4>1. PICK k \in Keys : k[f] = mem[s][f] /\ OnWalk(k, s)
        BY <2>2 DEF vars, WalkInv, Origin
      <4>2. OnWalk(k, s)'
        BY <2>2, <4>1 DEF vars, OnWalk, Reached, At
      <4> QED BY <2>2, <4>1, <4>2 DEF vars
    <3>3. ASSUME NEW q \in Procs PROVE PathOK(q)'
      <4>1. PICK me : me = proc'[q]
        OBVIOUS
      <4>2. me = proc[q] /\ occ' = occ /\ PathOK(q)
        BY <2>2, <4>1 DEF vars, WalkInv
      <4> QED BY <4>1, <4>2, PathKept DEF PathOK, Here
    <3> QED BY <3>1, <3>2, <3>3 DEF WalkInv
  <2> QED BY <2>1, <2>2
<1> QED BY <1>1, <1>2, PTL DEF Spec

\* The table's chains have no gap.
LEMMA WalkInvReachable ==
    ASSUME WalkInv, NoMixedKeys
    PROVE  Reachable
<1> SUFFICES ASSUME NEW k \in Keys, NEW d \in Slots, Holds(At(k, d), k)
             PROVE  Reached(k, d)
  BY DEF Reachable
<1> DEFINE s == At(k, d)
<1>1. s \in Slots
  BY AtInSlots
<1>2. mem[s]["dev"] = k["dev"] /\ mem[s]["ino"] = k["ino"]
  BY DEF Holds, LiveIn, KeyFields
<1>3. PICK j \in Keys : j["dev"] = k["dev"] /\ OnWalk(j, s)
  BY <1>1, <1>2, ShmMapAssumption DEF WalkInv, Origin, KeyFields
<1>4. PICK l \in Keys : l["ino"] = k["ino"] /\ OnWalk(l, s)
  BY <1>1, <1>2, ShmMapAssumption DEF WalkInv, Origin, KeyFields
<1>5. OnWalk(k, s)
  BY <1>3, <1>4 DEF NoMixedKeys
<1>6. PICK e \in Slots : At(k, e) = s /\ Reached(k, e)
  BY <1>5 DEF OnWalk
<1> QED BY <1>6, AtInjective

\* However the calls of however many processes interleave, an entry of the
\* shared table stays reachable from the home bucket of its key: remove_inode
\* leaves a tombstone, and an insert writes a slot on its own walk only.
THEOREM ReachableAlways == NoMixedKeys => (Spec => []Reachable)
<1> SUFFICES ASSUME NoMixedKeys PROVE Spec => []Reachable
  OBVIOUS
<1>1. WalkInv => Reachable
  BY WalkInvReachable
<1> QED BY <1>1, WalkInvariance, PTL

\* An insert that finds no slot has walked over slots all of which had been
\* used before.
THEOREM FullMeansUsedUpAlways == Spec => []FullMeansUsedUp
<1>1. WalkInv => FullMeansUsedUp
  <2> SUFFICES ASSUME WalkInv, NEW p \in Procs, proc[p].out = "full", NEW s \in Slots
               PROVE  occ[s] # "EMPTY"
    BY DEF FullMeansUsedUp
  <2>1. proc[p].op.key \in Keys /\ Reached(proc[p].op.key, N)
    BY OpsTyped DEF WalkInv, PathOK, TypeInv, TypeOK, LocalOK, Busy
  <2>2. PICK d \in Slots : At(proc[p].op.key, d) = s
    BY <2>1, AtOnto
  <2>3. d \in 0 .. N-1
    BY DEF Slots
  <2> QED BY <2>1, <2>2, <2>3 DEF Reached
<1> QED BY <1>1, WalkInvariance, PTL
-----------------------------------------------------------------------------
(***************************************************************************)
(* Lookups.  The slots that have held the key of a walk since it began lie *)
(* ahead of the walk, and an empty slot cannot lie before them.            *)
(***************************************************************************)
HeldOK(p) ==
    /\ Busy(p) => \A s \in held[p] : Holds(s, proc[p].op.key)
    /\ proc[p].pc \in {"load", "match"} =>
          \A e \in 0 .. proc[p].dist - 1 : At(proc[p].op.key, e) \notin held[p]
    /\ proc[p].out \in {"vacant", "full"} => held[p] = {}

AllHeldOK == \A p \in Procs : HeldOK(p)
LookInv == WalkInv /\ AllHeldOK

\* The slots watched for a call that goes on can only become fewer, and hold
\* its key.
LEMMA WatchShrinks ==
    ASSUME LookInv, NEW p \in Procs, Start(p) \/ Step(p), Watch, NEW q \in Procs,
           proc'[q].op = proc[q].op, Busy(q)
    PROVE  /\ held'[q] \subseteq held[q]
           /\ proc'[q].pc # "idle" => \A s \in held'[q] : Holds(s, proc[q].op.key)'
  BY DEF Watch, LookInv, WalkInv, TypeInv, TypeOK, Holds

\* Where the walk is at an empty slot, at the end of the table, or at a slot
\* with another key, no watched slot is.
LEMMA NothingHere ==
    ASSUME LookInv, NoMixedKeys, NEW p \in Procs
    PROVE  /\ LoadEmpty(p) => held[p] = {}
           /\ GiveUp(p) => held[p] = {}
           /\ LoadTombstone(p) => Here(p) \notin held[p]
           /\ Compare(p) => \A f \in proc[p].todo :
                 mem[Here(p)][f] # proc[p].op.key[f] => Here(p) \notin held[p]
<1> USE DEF LookInv, AllHeldOK, WalkInv
<1> DEFINE k == proc[p].op.key
<1>p. proc[p] \in Proc /\ LocalOK(p) /\ PathOK(p) /\ HeldOK(p) /\ held[p] \subseteq Slots
  BY DEF TypeInv, TypeOK
<1>k. Busy(p) => k \in Keys /\ \A s \in held[p] : Holds(s, k)
  BY <1>p, OpsTyped DEF LocalOK, HeldOK
<1>1. ASSUME LoadEmpty(p) \/ GiveUp(p), NEW s \in held[p] PROVE FALSE
  <2>1. Busy(p) /\ proc[p].pc = "load" /\ proc[p].dist \in 0 .. N
    BY <1>1, <1>p DEF LoadEmpty, GiveUp, Walking, Busy, Proc
  <2>2. PICK d \in Slots : At(k, d) = s
    BY <1>p, <1>k, <2>1, AtOnto
  <2>3. Holds(s, k) /\ Reached(k, d)
    BY <1>k, <2>1, <2>2, WalkInvReachable DEF Reachable
  <2>4. ~ (d \in 0 .. proc[p].dist - 1)
    BY <1>p, <2>1, <2>2 DEF HeldOK
  <2>5. d >= proc[p].dist /\ d < N
    BY <2>1, <2>4, ShmMapAssumption DEF Slots
  <2>6. CASE GiveUp(p)
    BY <2>5, <2>6, ShmMapAssumption DEF GiveUp, Slots
  <2>7. CASE LoadEmpty(p)
    <3>1. occ[At(k, proc[p].dist)] = "EMPTY"
      BY <2>7 DEF LoadEmpty, Here
    <3>2. proc[p].dist # d
      BY <2>2, <2>3, <3>1 DEF Holds, LiveIn
    <3>3. proc[p].dist \in 0 .. d-1
      BY <2>1, <2>5, <3>2 DEF Slots
    <3> QED BY <2>3, <3>1, <3>3 DEF Reached
  <2> QED BY <1>1, <2>6, <2>7
<1>2. LoadTombstone(p) => Here(p) \notin held[p]
  BY <1>k DEF LoadTombstone, Walking, Busy, Holds, LiveIn
<1>3. ASSUME Compare(p), NEW f \in proc[p].todo,
             mem[Here(p)][f] # proc[p].op.key[f]
      PROVE  Here(p) \notin held[p]
  BY <1>3, <1>p, <1>k DEF Compare, Busy, LocalOK, Holds, LiveIn
<1> QED BY <1>1, <1>2, <1>3

\* A step of a call that goes on keeps the slots watched for it ahead of it.
LEMMA SelfLooks ==
    ASSUME LookInv, NoMixedKeys, NEW p \in Procs, Step(p), Watch
    PROVE  HeldOK(p)'
<1> USE DEF LookInv, AllHeldOK, WalkInv
<1>p. proc[p] \in Proc /\ LocalOK(p) /\ HeldOK(p) /\ proc \in [Procs -> Proc]
  BY DEF TypeInv, TypeOK
<1>w. ASSUME proc'[p].op = proc[p].op, Busy(p), proc'[p].pc # "idle"
      PROVE  held'[p] \subseteq held[p] /\ \A s \in held'[p] : Holds(s, proc[p].op.key)'
  BY <1>w, WatchShrinks
<1>stay. ASSUME proc'[p].op = proc[p].op, Busy(p), proc'[p].pc # "idle",
                proc'[p].dist = proc[p].dist, proc'[p].out \in {proc[p].out, "found"},
                proc'[p].pc \in {"load", "match"} => proc[p].pc \in {"load", "match"}
         PROVE  HeldOK(p)'
  BY <1>stay, <1>p, <1>w DEF HeldOK, At, Busy
<1>next. ASSUME proc'[p].op = proc[p].op, proc[p].pc \in {"load", "match"},
                proc'[p].pc = "load", proc'[p].dist = proc[p].dist + 1,
                proc'[p].out = "none", Here(p) \notin held[p]
         PROVE  HeldOK(p)'
  <2>1. held'[p] \subseteq held[p] /\ \A s \in held'[p] : Holds(s, proc[p].op.key)'
    BY <1>next, <1>w DEF Busy
  <2>2. ASSUME NEW e \in 0 .. proc'[p].dist - 1
        PROVE  At(proc[p].op.key, e) \notin held'[p]
    <3>a. proc'[p].dist = proc[p].dist + 1
      BY <1>next
    <3>b. proc[p].dist \in 0 .. N
      BY <1>p DEF Proc
    <3>1. e = proc[p].dist \/ e \in 0 .. proc[p].dist - 1
      BY <3>a, <3>b, ShmMapAssumption
    <3>2. At(proc[p].op.key, e) \notin held[p]
      BY <1>next, <1>p, <3>1 DEF HeldOK, Here
    <3> QED BY <2>1, <3>2
  <2> QED BY <1>next, <2>1, <2>2 DEF HeldOK, At
<1>1. CASE LoadEmpty(p) \/ GiveUp(p)
  <2>1. proc'[p].op = proc[p].op /\ proc'[p].pc = "access" /\ Busy(p)
    <3>1. CASE LoadEmpty(p)
      BY <1>p, <3>1, DecideIs DEF LoadEmpty, Walking, Busy
    <3>2. CASE GiveUp(p)
      BY <1>p, <3>2, DecideIs DEF GiveUp, Busy
    <3> QED BY <1>1, <3>1, <3>2
  <2>2. held'[p] = {}
    BY <1>1, <1>w, <2>1, NothingHere
  <2> QED BY <2>1, <2>2 DEF HeldOK
<1>2. CASE LoadTombstone(p)
  <2>1. /\ proc'[p].op = proc[p].op /\ proc[p].pc = "load" /\ proc'[p].pc = "load"
        /\ proc'[p].dist = proc[p].dist + 1 /\ proc'[p].out = proc[p].out
    BY <1>2, <1>p, AdvanceIs DEF LoadTombstone, Walking
  <2> QED BY <1>2, <1>p, <1>next, <2>1, NothingHere DEF LocalOK
<1>3. CASE LoadLive(p)
  <2>1. /\ proc'[p].op = proc[p].op /\ proc[p].pc = "load" /\ proc'[p].pc = "match"
        /\ proc'[p].dist = proc[p].dist /\ proc'[p].out = proc[p].out
    BY <1>3, <1>p, LoadLiveIs DEF Walking
  <2> QED BY <1>stay, <2>1 DEF Busy
<1>4. CASE Compare(p)
  <2>1. PICK f \in proc[p].todo :
            IF mem[Here(p)][f] = proc[p].op.key[f]
            THEN Become(p, [proc[p] EXCEPT !.todo = @ \ {f}])
            ELSE Advance(p, proc[p].reuse)
    BY <1>4 DEF Compare
  <2>2. proc[p].pc = "match" /\ proc[p].out = "none"
    BY <1>4, <1>p DEF Compare, LocalOK
  <2>3. CASE mem[Here(p)][f] = proc[p].op.key[f]
    <3>1. /\ proc'[p].op = proc[p].op /\ proc'[p].pc = "match"
          /\ proc'[p].dist = proc[p].dist /\ proc'[p].out = proc[p].out
      BY <1>p, <2>1, <2>2, <2>3, TodoIs
    <3> QED BY <1>stay, <2>2, <3>1 DEF Busy
  <2>4. CASE mem[Here(p)][f] # proc[p].op.key[f]
    <3>1. /\ proc'[p].op = proc[p].op /\ proc'[p].pc = "load"
          /\ proc'[p].dist = proc[p].dist + 1 /\ proc'[p].out = proc[p].out
      BY <1>p, <2>1, <2>4, AdvanceIs
    <3>2. Here(p) \notin held[p]
      BY <1>4, <2>4, NothingHere
    <3> QED BY <1>next, <2>2, <3>1, <3>2
  <2> QED BY <2>3, <2>4
<1>5. CASE Match(p)
  <2>1. /\ proc'[p].op = proc[p].op /\ proc[p].pc = "match" /\ proc'[p].pc = "access"
        /\ proc'[p].dist = proc[p].dist /\ proc'[p].out = "found"
    BY <1>5, <1>p, DecideIs DEF Match
  <2> QED BY <1>stay, <2>1 DEF Busy
<1>6. CASE Read(p) \/ Write(p)
  <2>1. /\ proc'[p].op = proc[p].op /\ proc[p].pc = "access" /\ proc'[p].pc = "access"
        /\ proc'[p].dist = proc[p].dist /\ proc'[p].out = proc[p].out
    <3>1. CASE Read(p)
      BY <1>p, <3>1, ReadIs DEF Read
    <3>2. CASE Write(p)
      BY <1>p, <3>2, WriteIs DEF Write
    <3> QED BY <1>6, <3>1, <3>2
  <2> QED BY <1>stay, <2>1 DEF Busy
<1>7. CASE Finish(p)
  <2>1. proc'[p].pc = "idle" /\ proc'[p].out = "none"
    BY <1>7, <1>p, FinishIs DEF Idle
  <2> QED BY <2>1 DEF HeldOK, Busy
<1> QED BY <1>1, <1>2, <1>3, <1>4, <1>5, <1>6, <1>7 DEF Step

\* A call starts with a walk that has passed nothing.
LEMMA StartLooks ==
    ASSUME LookInv, NEW p \in Procs, Start(p), Watch
    PROVE  HeldOK(p)'
<1>1. PICK op \in Ops : proc' = [proc EXCEPT ![p] = [Idle EXCEPT !.pc = "load", !.op = op]]
  BY DEF Start, Become
<1>2. proc'[p].dist = 0 /\ proc'[p].out = "none" /\ proc'[p].pc # "idle"
  BY <1>1 DEF Idle, LookInv, WalkInv, TypeInv, TypeOK
<1>3. \A s \in held'[p] : Holds(s, proc[p].op.key)'
  BY <1>2 DEF Watch, Holds
<1>4. 0 .. 0-1 = {}
  OBVIOUS
<1> QED BY <1>2, <1>3, <1>4 DEF HeldOK

\* The walks of the others do not move.
LEMMA OthersLook ==
    ASSUME LookInv, NEW p \in Procs, Start(p) \/ Step(p), Watch,
           NEW q \in Procs, q # p
    PROVE  HeldOK(q)'
<1> USE DEF LookInv, AllHeldOK, WalkInv
<1>1. proc'[q] = proc[q] /\ HeldOK(q)
  BY OthersKeep
<1>2. CASE Busy(q)
  <2>1. held'[q] \subseteq held[q] /\ \A s \in held'[q] : Holds(s, proc[q].op.key)'
    BY <1>1, <1>2, WatchShrinks DEF Busy
  <2> QED BY <1>1, <2>1 DEF HeldOK, At
<1>3. CASE ~ Busy(q)
  <2>1. held'[q] = {}
    BY <1>1, <1>3 DEF Watch, Busy
  <2> QED BY <1>1, <1>3, <2>1 DEF HeldOK, Busy
<1> QED BY <1>2, <1>3

LEMMA LookInit == Init => AllHeldOK
  BY DEF Init, AllHeldOK, HeldOK, Idle, Busy

LEMMA LookStep ==
    ASSUME NoMixedKeys, LookInv, [Next]_vars
    PROVE  AllHeldOK'
<1> SUFFICES ASSUME NEW q \in Procs PROVE HeldOK(q)'
  BY DEF AllHeldOK
<1>1. CASE Next
  <2>1. PICK p \in Procs : (Start(p) \/ Step(p)) /\ Watch
    BY <1>1 DEF Next
  <2> QED BY <2>1, StartLooks, SelfLooks, OthersLook
<1>2. CASE UNCHANGED vars
  BY <1>2 DEF vars, LookInv, AllHeldOK, HeldOK, Busy, Holds, LiveIn, At
<1> QED BY <1>1, <1>2

\* get_inode reports no fake metadata, and an insert chooses a new slot, only
\* if no slot held the key from the beginning of the walk to its end:
\* whatever the others insert, remove and recycle meanwhile, a walk does not
\* miss an entry that stays where it is.
THEOREM NoFalseMissAlways == NoMixedKeys => (Spec => []NoFalseMiss)
<1> SUFFICES ASSUME NoMixedKeys PROVE Spec => []NoFalseMiss
  OBVIOUS
<1>1. WalkInv /\ AllHeldOK /\ [Next]_vars => AllHeldOK'
  BY LookStep DEF LookInv
<1>2. AllHeldOK => NoFalseMiss
  BY DEF AllHeldOK, HeldOK, NoFalseMiss
<1> QED BY LookInit, <1>1, <1>2, WalkInvariance, PTL DEF Spec
-----------------------------------------------------------------------------
(***************************************************************************)
(* What ShmMap promises when no two mutating operations overlap: an entry  *)
(* per key, lookups that never mix files, and a table that says what the   *)
(* finished calls amount to.  First the invariant.                         *)
(***************************************************************************)
\* There is one mutating operation at most.
Alone == \A p, q \in Procs : Mutating(p) /\ Mutating(q) => p = q

\* A slot holds a key just when the finished calls amount to an entry of that key, ...
Present ==
    \A k \in Keys : truth[k] = Absent <=> \A s \in Slots : ~ Holds(s, k)

\* ... and says what they amount to, but for the fields a call in progress has written.
Updated(p, s, f) ==
    /\ Mutating(p) /\ proc[p].pc = "access" /\ proc[p].out = "found"
    /\ proc[p].tgt = s
    /\ f \in Accesses(proc[p].op, proc[p].out) \ proc[p].todo

Contents ==
    \A k \in Keys, s \in Slots : Holds(s, k) =>
        \A f \in Meta : mem[s][f] = truth[k][f] \/ \E p \in Procs : Updated(p, s, f)

\* The entry of a key consists of values written for that key.
Labelled ==
    \A k \in Keys : truth[k] # Absent => \A f \in Meta : truth[k][f].key = k

\* As long as a mutating operation walks, the slots that hold its key have held it ever
\* since it began, and the slot it would reuse is free: nobody else moves an entry.
WalkOK(p) ==
    proc[p].pc \in {"load", "match"} =>
        /\ \A s \in Slots : Holds(s, proc[p].op.key) => s \in held[p]
        /\ proc[p].reuse # NoSlot => occ[proc[p].reuse] # "LIVE"
        /\ proc[p].pc = "match" =>
              /\ occ[Here(p)] = "LIVE"
              /\ \A f \in KeyFields \ proc[p].todo :
                    mem[Here(p)][f] = proc[p].op.key[f]

\* Then either it has the slot that holds its key, or no slot holds the key and the slot
\* it fills is free.
Inserts(op) == op.kind \in {"chown", "set"}

Written(p) ==
    \A f \in Accesses(proc[p].op, proc[p].out) \ proc[p].todo :
        mem[proc[p].tgt][f] = Value(proc[p].op, f)

UseOK(p) ==
    proc[p].pc = "access" =>
        \/ proc[p].out = "found" /\ Holds(proc[p].tgt, proc[p].op.key) /\ Written(p)
        \/ /\ proc[p].out = "vacant" /\ truth[proc[p].op.key] = Absent
           /\ Inserts(proc[p].op) => occ[proc[p].tgt] # "LIVE" /\ Written(p)
        \/ proc[p].out = "full" /\ truth[proc[p].op.key] = Absent

MutationOK(p) == Mutating(p) => WalkOK(p) /\ UseOK(p)

\* What a lookup has read is of its key if the entry it found is still in place.
ReadOK(p) ==
    proc[p].pc = "access" /\ proc[p].op.kind = "get" /\ proc[p].tgt \in held[p] =>
        \A f \in Meta \ proc[p].todo :
            proc[p].got[f] \in Vals /\ proc[p].got[f].key = proc[p].op.key

SerialOK ==
    /\ Alone /\ OneSlotPerKey /\ Present /\ Contents /\ Labelled
    /\ \A p \in Procs : MutationOK(p) /\ ReadOK(p)

SerialInv == LookInv /\ SerialOK
-----------------------------------------------------------------------------
(***************************************************************************)
(* Facts about entries.                                                    *)
(***************************************************************************)
\* A slot holds one key.
LEMMA KeyUnique ==
    ASSUME NoMixedKeys, NEW j \in Keys, NEW k \in Keys, NEW s, Holds(s, j), Holds(s, k)
    PROVE  j = k
<1>1. j["dev"] = k["dev"] /\ j["ino"] = k["ino"]
  BY DEF Holds, LiveIn, KeyFields
<1>2. j \in {k, k}
  BY <1>1 DEF NoMixedKeys
<1> QED BY <1>2

\* An update of an entry is of the key of the entry.
LEMMA UpdatedKey ==
    ASSUME SerialInv, NoMixedKeys, NEW k \in Keys, NEW s \in Slots, Holds(s, k),
           NEW p \in Procs, NEW f \in Meta, Updated(p, s, f)
    PROVE  /\ proc[p].op \in Ops /\ proc[p].op.key = k
           /\ mem[s][f] = Value(proc[p].op, f)
<1>1. /\ Mutating(p) /\ proc[p].pc = "access" /\ proc[p].out = "found" /\ proc[p].tgt = s
      /\ f \in Accesses(proc[p].op, proc[p].out) \ proc[p].todo
  BY DEF Updated
<1>2. Holds(s, proc[p].op.key) /\ Written(p)
  BY <1>1 DEF SerialInv, SerialOK, MutationOK, UseOK
<1>3. proc[p].op \in Ops
  BY <1>1 DEF SerialInv, LookInv, WalkInv, TypeInv, LocalOK, Mutating
<1>4. proc[p].op.key \in Keys
  BY <1>3, OpsTyped
<1>5. proc[p].op.key = k
  BY <1>2, <1>4, KeyUnique
<1>6. mem[s][f] = Value(proc[p].op, f)
  BY <1>1, <1>2 DEF Written
<1> QED BY <1>3, <1>5, <1>6

\* A metadata field written for a call is of the key of the call.
LEMMA ValueKey ==
    ASSUME NEW op \in Ops, NEW f \in Meta
    PROVE  Value(op, f) \in Vals /\ Value(op, f).key = op.key
<1>1. f \notin KeyFields
  BY ShmMapAssumption DEF KeyFields, Owner
<1>2. Value(op, f).key = op.key
  BY <1>1 DEF Value, Val
<1>3. Value(op, f) \in Vals
  BY ValueTyped DEF Fields
<1> QED BY <1>2, <1>3

\* What an entry contains has been written for its key, at every moment.
LEMMA EntryLabelled ==
    ASSUME SerialInv, NoMixedKeys, NEW k \in Keys, NEW s \in Slots, Holds(s, k),
           NEW f \in Meta
    PROVE  mem[s][f] \in Vals /\ mem[s][f].key = k
<1>1. CASE mem[s][f] = truth[k][f]
  <2>1. truth[k] # Absent
    BY DEF SerialInv, SerialOK, Present
  <2>2. truth[k] \in [Meta -> Vals]
    BY <2>1 DEF SerialInv, LookInv, WalkInv, TypeInv, TypeOK
  <2>3. truth[k][f].key = k
    BY <2>1 DEF SerialInv, SerialOK, Labelled
  <2> QED BY <1>1, <2>2, <2>3
<1>2. CASE \E p \in Procs : Updated(p, s, f)
  <2>1. PICK p \in Procs : Updated(p, s, f)
    BY <1>2
  <2> QED BY <2>1, UpdatedKey, ValueKey
<1> QED BY <1>1, <1>2 DEF SerialInv, SerialOK, Contents

\* Between mutating calls, an entry is what the finished calls amount to.
LEMMA SettledEntries ==
    ASSUME SerialInv, \A p \in Procs : ~ Mutating(p), NEW k \in Keys
    PROVE  View(k) = truth[k]
<1>1. CASE truth[k] = Absent
  <2>1. \A s \in Slots : ~ Holds(s, k)
    BY <1>1 DEF SerialInv, SerialOK, Present
  <2> QED BY <1>1, <2>1 DEF View
<1>2. CASE truth[k] # Absent
  <2>1. \E s \in Slots : Holds(s, k)
    BY <1>2 DEF SerialInv, SerialOK, Present
  <2>2. PICK s \in Slots : s = CHOOSE t \in Slots : Holds(t, k)
    BY <2>1
  <2>3. Holds(s, k)
    BY <2>1, <2>2
  <2>4. \A f \in Meta : mem[s][f] = truth[k][f]
    BY <2>3 DEF SerialInv, SerialOK, Contents, Updated
  <2>5. truth[k] \in [Meta -> Vals]
    BY <1>2 DEF SerialInv, LookInv, WalkInv, TypeInv, TypeOK
  <2>6. [f \in Meta |-> mem[s][f]] = truth[k]
    BY <2>4, <2>5
  <2>7. View(k) = [f \in Meta |-> mem[s][f]]
    BY <2>1, <2>2 DEF View
  <2> QED BY <2>6, <2>7
<1> QED BY <1>1, <1>2
-----------------------------------------------------------------------------
(***************************************************************************)
(* Steps that leave the table and what the finished calls amount to alone. *)
(***************************************************************************)
Quiet == occ' = occ /\ mem' = mem /\ truth' = truth

\* The same slots hold the same keys then.
LEMMA QuietHolds ==
    ASSUME occ' = occ, mem' = mem
    PROVE  \A k \in Keys, s \in Slots : Holds(s, k)' <=> Holds(s, k)
  BY DEF Holds, LiveIn

\* A process that takes a step is inside a call, and stays in it or returns.
LEMMA StepKeeps ==
    ASSUME TypeInv, NEW p \in Procs, Step(p)
    PROVE  Busy(p) /\ (proc'[p] = Idle \/ (proc'[p].op = proc[p].op /\ Busy(p)'))
<1>p. proc \in [Procs -> Proc] /\ proc[p] \in Proc
  BY DEF TypeInv, TypeOK
<1>1. CASE LoadEmpty(p)
  BY <1>p, <1>1, DecideIs DEF LoadEmpty, Walking, Busy
<1>7. CASE LoadTombstone(p)
  BY <1>p, <1>7, AdvanceIs DEF LoadTombstone, Walking, Busy
<1>8. CASE LoadLive(p)
  BY <1>p, <1>8, LoadLiveIs DEF Walking, Busy
<1>2. CASE Compare(p)
  BY <1>p, <1>2, AdvanceIs, TodoIs DEF Compare, Busy
<1>3. CASE Match(p)
  BY <1>p, <1>3, DecideIs DEF Match, Busy
<1>9. CASE GiveUp(p)
  BY <1>p, <1>9, DecideIs DEF GiveUp, Busy
<1>4. CASE Read(p)
  BY <1>p, <1>4, ReadIs DEF Read, Busy
<1>5. CASE Write(p)
  BY <1>p, <1>5, WriteIs DEF Write, Busy
<1>6. CASE Finish(p)
  <2>1. Busy(p)
    BY <1>6 DEF Finish, Busy
  <2> QED BY <1>6, <2>1, FinishIs
<1> QED BY <1>1, <1>2, <1>3, <1>4, <1>5, <1>6, <1>7, <1>8, <1>9 DEF Step

\* The end of a call that stores nothing and amounts to nothing.
LEMMA FinishQuiet ==
    ASSUME TypeInv, NEW p \in Procs, Finish(p),
           \/ proc[p].op.kind = "get"
           \/ proc[p].out = "full"
           \/ /\ proc[p].op.kind = "remove" /\ proc[p].out = "vacant"
              /\ truth[proc[p].op.key] = Absent
    PROVE  Quiet
<1>1. LastStore(proc[p].op, proc[p].out) = "none"
  BY Zenon DEF LastStore
<1>2. After(proc[p].op, proc[p].out, truth[proc[p].op.key]) = truth[proc[p].op.key]
  BY Zenon DEF After
<1>3. truth' = [truth EXCEPT ![proc[p].op.key] =
                    After(proc[p].op, proc[p].out, truth[proc[p].op.key])]
  BY DEF Finish
<1>4. truth \in [Keys -> [Meta -> Vals] \cup {Absent}]
  BY DEF TypeInv, TypeOK
<1>5. truth' = truth
  BY <1>2, <1>3, <1>4
<1> QED BY <1>1, <1>5 DEF Finish, Quiet

\* Only a mutating call that has ended its walk changes anything.
LEMMA OnlyMutations ==
    ASSUME TypeInv, NEW p \in Procs, Start(p) \/ Step(p),
           ~ (Mutating(p) /\ proc[p].pc = "access")
    PROVE  Quiet
<1>1. CASE Finish(p)
  <2>1. proc[p].op.kind = "get"
    BY <1>1 DEF Finish, Mutating, Busy
  <2> QED BY <1>1, <2>1, FinishQuiet
<1>2. CASE ~ Finish(p)
  <2>1. ~ Write(p)
    BY DEF Write, Mutating, Busy
  <2> QED BY <1>2, <2>1, Stores DEF Quiet
<1> QED BY <1>1, <1>2

\* Only a lookup starts while a mutating call is in progress.
LEMMA AloneStays ==
    ASSUME SerialInv, Serial, NEW p \in Procs, Start(p) \/ Step(p)
    PROVE  Alone'
<1> USE DEF SerialInv, LookInv, WalkInv
<1>1. \A q \in Procs : q # p => (Mutating(q)' <=> Mutating(q))
  BY OthersKeep DEF Mutating, Busy
<1>2. CASE Start(p)
  <2>1. PICK op \in Ops :
            /\ op.kind # "get" => \A q \in Procs : ~ Mutating(q)
            /\ proc' = [proc EXCEPT ![p] = [Idle EXCEPT !.pc = "load", !.op = op]]
    BY <1>2 DEF Start, Become
  <2>2. proc'[p].op = op
    BY <2>1 DEF Idle, TypeInv, TypeOK
  <2>3. Mutating(p)' => \A q \in Procs : ~ Mutating(q)
    BY <2>1, <2>2 DEF Mutating
  <2> QED BY <1>1, <2>3 DEF SerialOK, Alone
<1>3. CASE Step(p)
  <2>1. Mutating(p)' => Mutating(p)
    BY <1>3, StepKeeps DEF Mutating, Busy, Idle
  <2> QED BY <1>1, <2>1 DEF SerialOK, Alone
<1> QED BY <1>2, <1>3

\* A mutating call finds the table alone by everyone else.
LEMMA OthersQuiet ==
    ASSUME SerialInv, Serial, NEW p \in Procs, Start(p) \/ Step(p),
           NEW q \in Procs, q # p, Mutating(q)
    PROVE  Quiet
<1>1. ~ Mutating(p)
  BY DEF SerialInv, SerialOK, Alone
<1> QED BY <1>1, OnlyMutations DEF SerialInv, LookInv, WalkInv

\* So its walk and its writes are kept by them.
LEMMA OthersMutate ==
    ASSUME SerialInv, Serial, NEW p \in Procs, Start(p) \/ Step(p), Watch,
           NEW q \in Procs, q # p
    PROVE  MutationOK(q)'
<1> USE DEF SerialInv, LookInv, WalkInv
<1>1. proc'[q] = proc[q]
  BY OthersKeep
<1> SUFFICES ASSUME Mutating(q) PROVE WalkOK(q)' /\ UseOK(q)'
  BY <1>1 DEF MutationOK, Mutating, Busy
<1>2. Quiet
  BY OthersQuiet
<1>3. WalkOK(q) /\ UseOK(q)
  BY DEF SerialOK, MutationOK
<1>4. \A s \in held[q] : Holds(s, proc[q].op.key) => s \in held'[q]
  BY <1>1, <1>2 DEF Watch, Mutating, Busy, Quiet, Holds, LiveIn, TypeInv, TypeOK
<1>5. WalkOK(q)'
  BY <1>1, <1>2, <1>3, <1>4 DEF WalkOK, Quiet, Holds, LiveIn, Here, At
<1>6. UseOK(q)'
  BY <1>1, <1>2, <1>3 DEF UseOK, Quiet, Holds, LiveIn, Written
<1> QED BY <1>5, <1>6

\* What a lookup has read stays right whatever the others do: a slot that no longer
\* holds its key is not watched any more.
LEMMA OthersRead ==
    ASSUME SerialInv, NEW p \in Procs, Start(p) \/ Step(p), Watch,
           NEW q \in Procs, q # p
    PROVE  ReadOK(q)'
<1>1. proc'[q] = proc[q] /\ ReadOK(q)
  BY OthersKeep DEF SerialInv, SerialOK, LookInv, WalkInv
<1>2. Busy(q) => held'[q] \subseteq held[q]
  BY <1>1, WatchShrinks DEF SerialInv
<1> QED BY <1>1, <1>2 DEF ReadOK, Busy

\* A quiet step of a process that has updated no entry changes nothing in the table's
\* relation to the finished calls.
LEMMA QuietKeeps ==
    ASSUME SerialInv, NEW p \in Procs, Start(p) \/ Step(p), Quiet,
           \A s \in Slots, f \in Meta : ~ Updated(p, s, f)
    PROVE  OneSlotPerKey' /\ Present' /\ Contents' /\ Labelled'
<1> USE DEF SerialInv, LookInv, WalkInv
<1>1. \A k \in Keys, s \in Slots : Holds(s, k)' <=> Holds(s, k)
  BY QuietHolds DEF Quiet
<1>2. OneSlotPerKey'
  BY <1>1 DEF SerialOK, OneSlotPerKey
<1>3. Present'
  BY <1>1 DEF SerialOK, Present, Quiet
<1>4. Labelled'
  BY DEF SerialOK, Labelled, Quiet
<1>5. ASSUME NEW q \in Procs, NEW s \in Slots, NEW f \in Meta, Updated(q, s, f)
      PROVE  Updated(q, s, f)'
  <2>1. proc'[q] = proc[q]
    BY <1>5, OthersKeep
  <2> QED BY <1>5, <2>1 DEF Updated, Mutating, Busy
<1>6. Contents'
  BY <1>1, <1>5 DEF SerialOK, Contents, Quiet
<1> QED BY <1>2, <1>3, <1>4, <1>6
-----------------------------------------------------------------------------
(***************************************************************************)
(* The walk of a mutating call.                                            *)
(***************************************************************************)
\* Where nobody changes the table, a slot that holds the key goes on being watched.
LEMMA WatchStays ==
    ASSUME SerialInv, Quiet, Watch, NEW p \in Procs, Busy(p), proc'[p].pc # "idle",
           proc'[p].op = proc[p].op, NEW s \in held[p], Holds(s, proc[p].op.key)
    PROVE  s \in held'[p]
  BY DEF Watch, Quiet, Holds, LiveIn, SerialInv, LookInv, WalkInv, TypeInv, TypeOK

\* A walk that ends without an entry is right: no slot holds the key.
LEMMA NoneFound ==
    ASSUME SerialInv, NEW p \in Procs, Mutating(p), proc[p].pc \in {"load", "match"},
           held[p] = {}
    PROVE  truth[proc[p].op.key] = Absent
<1>1. \A s \in Slots : ~ Holds(s, proc[p].op.key)
  BY DEF SerialInv, SerialOK, MutationOK, WalkOK
<1>2. proc[p].op.key \in Keys
  BY OpsTyped DEF SerialInv, LookInv, WalkInv, TypeInv, LocalOK, Mutating
<1> QED BY <1>1, <1>2 DEF SerialInv, SerialOK, Present

\* Going on to the next slot.
LEMMA AdvanceWalks ==
    ASSUME SerialInv, NEW p \in Procs, Mutating(p), proc[p].pc \in {"load", "match"},
           NEW reuse, reuse # NoSlot => occ[reuse] # "LIVE",
           Advance(p, reuse), Quiet, Watch
    PROVE  WalkOK(p)' /\ UseOK(p)'
<1>1. /\ proc'[p].op = proc[p].op /\ proc'[p].pc = "load" /\ proc'[p].reuse = reuse
  BY DEF Advance, Become, SerialInv, LookInv, WalkInv, TypeInv, TypeOK, Proc
<1>2. WalkOK(p)
  BY DEF SerialInv, SerialOK, MutationOK
<1>3. ASSUME NEW s \in Slots, Holds(s, proc[p].op.key)'
      PROVE  s \in held'[p]
  <2>1. Holds(s, proc[p].op.key)
    BY <1>1, <1>3 DEF Quiet, Holds, LiveIn
  <2>2. s \in held[p]
    BY <1>2, <2>1 DEF WalkOK
  <2> QED BY <1>1, <2>1, <2>2, WatchStays DEF Mutating
<1>4. WalkOK(p)'
  BY <1>1, <1>3 DEF WalkOK, Quiet
<1> QED BY <1>1, <1>4 DEF UseOK

\* Starting, and every step of the walk, keeps the walk right; its end makes the right
\* decision.
LEMMA SelfWalks ==
    ASSUME SerialInv, NoMixedKeys, NEW p \in Procs, Start(p) \/ Step(p), Watch,
           proc[p].pc # "access", Mutating(p)'
    PROVE  WalkOK(p)' /\ UseOK(p)'
<1> USE DEF SerialInv, LookInv, WalkInv
<1> DEFINE k == proc[p].op.key
<1>p. proc \in [Procs -> Proc] /\ proc[p] \in Proc /\ LocalOK(p)
  BY DEF TypeInv, TypeOK
<1>q. Quiet
  BY OnlyMutations
<1>1. CASE Start(p)
  <2>1. PICK op \in Ops :
            proc' = [proc EXCEPT ![p] = [Idle EXCEPT !.pc = "load", !.op = op]]
    BY <1>1 DEF Start, Become
  <2>2. proc'[p].pc = "load" /\ proc'[p].reuse = NoSlot
    BY <2>1, <1>p DEF Idle
  <2>3. \A s \in Slots : Holds(s, proc[p].op.key)' => s \in held'[p]
    BY <1>1, <2>2 DEF Start, Watch, Holds
  <2>4. WalkOK(p)'
    BY <2>2, <2>3 DEF WalkOK, Holds
  <2> QED BY <2>2, <2>4 DEF UseOK
<1>m. CASE Step(p)
  <2>0. Busy(p) /\ proc'[p].op = proc[p].op /\ Mutating(p)
    BY <1>m, StepKeeps DEF Mutating, Busy, Idle
  <2>w. WalkOK(p)
    BY <2>0 DEF SerialOK, MutationOK
  <2>o. proc[p].op \in Ops /\ k \in Keys
    BY <2>0, <1>p, OpsTyped DEF LocalOK
  <2>1. CASE LoadEmpty(p)
    <3>1. /\ proc[p].pc = "load" /\ occ[Here(p)] = "EMPTY"
          /\ proc'[p].pc = "access" /\ proc'[p].out = "vacant"
          /\ proc'[p].tgt = IF proc[p].reuse = NoSlot THEN Here(p) ELSE proc[p].reuse
          /\ proc'[p].todo = Accesses(proc[p].op, "vacant")
      BY <1>p, <2>1, DecideIs DEF LoadEmpty, Walking
    <3>2. truth[k] = Absent
      BY <2>0, <2>1, <3>1, NoneFound, NothingHere
    <3>3. occ[proc'[p].tgt] # "LIVE"
      BY <2>w, <3>1 DEF WalkOK
    <3>4. Written(p)'
      BY <2>0, <3>1 DEF Written
    <3>5. UseOK(p)'
      BY <1>q, <2>0, <3>1, <3>2, <3>3, <3>4 DEF UseOK, Quiet
    <3> QED BY <3>1, <3>5 DEF WalkOK
  <2>2. CASE GiveUp(p)
    <3>1. proc[p].pc = "load" /\ proc'[p].pc = "access" /\ proc'[p].out = "full"
      BY <1>p, <2>2, DecideIs DEF GiveUp
    <3>2. truth[k] = Absent
      BY <2>0, <2>2, <3>1, NoneFound, NothingHere
    <3>3. UseOK(p)'
      BY <1>q, <2>0, <3>1, <3>2 DEF UseOK, Quiet
    <3> QED BY <3>1, <3>3 DEF WalkOK
  <2>3. CASE LoadTombstone(p)
    <3>1. PICK reuse : /\ Advance(p, reuse) /\ proc[p].pc = "load"
                       /\ reuse # NoSlot => occ[reuse] # "LIVE"
      BY <2>3, <2>w DEF LoadTombstone, Walking, WalkOK
    <3> QED BY <1>q, <2>0, <3>1, AdvanceWalks
  <2>4. CASE LoadLive(p)
    <3>1. /\ proc[p].pc = "load" /\ occ[Here(p)] = "LIVE"
          /\ proc'[p] = [proc[p] EXCEPT !.pc = "match", !.todo = KeyFields]
      BY <1>p, <2>4 DEF LoadLive, Walking, Become
    <3>2. /\ proc'[p].pc = "match" /\ proc'[p].reuse = proc[p].reuse
          /\ proc'[p].todo = KeyFields /\ proc'[p].dist = proc[p].dist
      BY <1>p, <3>1 DEF Proc
    <3>3. Here(p)' = Here(p)
      BY <2>0, <3>2 DEF Here, At
    <3>4. ASSUME NEW s \in Slots, Holds(s, k)' PROVE s \in held'[p]
      <4>1. Holds(s, k)
        BY <1>q, <2>0, <3>4 DEF Quiet, Holds, LiveIn
      <4>2. s \in held[p]
        BY <2>w, <3>1, <4>1 DEF WalkOK
      <4> QED BY <1>q, <2>0, <3>2, <4>1, <4>2, WatchStays
    <3>5. WalkOK(p)'
      BY <1>q, <2>0, <2>w, <3>1, <3>2, <3>3, <3>4 DEF WalkOK, Quiet
    <3> QED BY <3>2, <3>5 DEF UseOK
  <2>5. CASE Compare(p)
    <3>1. PICK f \in proc[p].todo :
              IF mem[Here(p)][f] = k[f]
              THEN Become(p, [proc[p] EXCEPT !.todo = @ \ {f}])
              ELSE Advance(p, proc[p].reuse)
      BY <2>5 DEF Compare
    <3>2. proc[p].pc = "match"
      BY <2>5 DEF Compare
    <3>3. CASE mem[Here(p)][f] = k[f]
      <4>1. proc'[p] = [proc[p] EXCEPT !.todo = @ \ {f}]
        BY <1>p, <3>1, <3>3 DEF Become
      <4>2. /\ proc'[p].pc = "match" /\ proc'[p].reuse = proc[p].reuse
            /\ proc'[p].todo = proc[p].todo \ {f} /\ proc'[p].dist = proc[p].dist
        BY <1>p, <3>2, <4>1 DEF Proc
      <4>3. Here(p)' = Here(p)
        BY <2>0, <4>2 DEF Here, At
      <4>4. ASSUME NEW s \in Slots, Holds(s, k)' PROVE s \in held'[p]
        <5>1. Holds(s, k)
          BY <1>q, <2>0, <4>4 DEF Quiet, Holds, LiveIn
        <5>2. s \in held[p]
          BY <2>w, <3>2, <5>1 DEF WalkOK
        <5> QED BY <1>q, <2>0, <4>2, <5>1, <5>2, WatchStays
      <4>5. ASSUME NEW g \in KeyFields \ proc'[p].todo PROVE mem[Here(p)][g] = k[g]
        BY <2>w, <3>2, <3>3, <4>2, <4>5 DEF WalkOK
      <4>6. WalkOK(p)'
        BY <1>q, <2>0, <2>w, <3>2, <4>2, <4>3, <4>4, <4>5 DEF WalkOK, Quiet
      <4> QED BY <4>2, <4>6 DEF UseOK
    <3>4. CASE mem[Here(p)][f] # k[f]
      <4>1. Advance(p, proc[p].reuse)
        BY <3>1, <3>4
      <4>2. proc[p].reuse # NoSlot => occ[proc[p].reuse] # "LIVE"
        BY <2>w, <3>2 DEF WalkOK
      <4> QED BY <1>q, <2>0, <3>2, <4>1, <4>2, AdvanceWalks
    <3> QED BY <3>3, <3>4
  <2>6. CASE Match(p)
    <3>1. /\ proc[p].pc = "match" /\ proc[p].todo = {}
          /\ proc'[p].pc = "access" /\ proc'[p].out = "found" /\ proc'[p].tgt = Here(p)
          /\ proc'[p].todo = Accesses(proc[p].op, "found")
      BY <1>p, <2>6, DecideIs DEF Match
    <3>2. Holds(Here(p), k)
      BY <2>w, <3>1 DEF WalkOK, Holds, LiveIn
    <3>3. PICK h : h = Here(p)
      OBVIOUS
    <3>4. Holds(h, k)'
      BY <1>q, <2>0, <3>2, <3>3 DEF Quiet, Holds, LiveIn
    <3>5. Written(p)'
      BY <2>0, <3>1 DEF Written
    <3>6. UseOK(p)'
      BY <2>0, <3>1, <3>3, <3>4, <3>5 DEF UseOK, Holds
    <3> QED BY <3>1, <3>6 DEF WalkOK
  <2>7. ~ Read(p) /\ ~ Write(p) /\ ~ Finish(p)
    BY DEF Read, Write, Finish
  <2> QED BY <1>m, <2>1, <2>2, <2>3, <2>4, <2>5, <2>6, <2>7 DEF Step
<1> QED BY <1>1, <1>m
-----------------------------------------------------------------------------
(***************************************************************************)
(* Lookups.                                                                *)
(***************************************************************************)
\* Every field a lookup reads from a slot that still holds its key is of that key.
LEMMA SelfReads ==
    ASSUME SerialInv, NoMixedKeys, NEW p \in Procs, Start(p) \/ Step(p), Watch,
           HeldOK(p)'
    PROVE  ReadOK(p)'
<1> USE DEF SerialInv, LookInv, WalkInv
<1>p. proc \in [Procs -> Proc] /\ proc[p] \in Proc /\ LocalOK(p) /\ HeldOK(p)
      /\ held[p] \subseteq Slots
  BY DEF TypeInv, TypeOK, AllHeldOK
<1> SUFFICES ASSUME proc'[p].pc = "access", proc'[p].op.kind = "get",
                    proc'[p].tgt \in held'[p], NEW f \in Meta \ proc'[p].todo
             PROVE  proc'[p].got[f] \in Vals /\ proc'[p].got[f].key = proc'[p].op.key
  BY DEF ReadOK
<1>0. proc'[p].out \notin {"vacant", "full"}
  BY DEF HeldOK
<1>1. ~ Start(p) /\ ~ Finish(p)
  <2>1. ASSUME Start(p) PROVE proc'[p].pc = "load"
    <3>1. PICK op \in Ops : proc'[p] = [Idle EXCEPT !.pc = "load", !.op = op]
      <4>1. PICK op \in Ops : Become(p, [Idle EXCEPT !.pc = "load", !.op = op])
        BY <2>1 DEF Start
      <4> QED BY <4>1, BecomeIs
    <3> QED BY <3>1 DEF Idle
  <2>2. ASSUME Finish(p) PROVE proc'[p].pc = "idle"
    BY <1>p, <2>2, FinishIs DEF Idle
  <2> QED BY <2>1, <2>2
<1>2. ~ LoadEmpty(p) /\ ~ GiveUp(p)
  <2>1. ASSUME LoadEmpty(p) PROVE proc'[p].out = "vacant"
    BY <1>p, <2>1, DecideIs DEF LoadEmpty
  <2>2. ASSUME GiveUp(p) PROVE proc'[p].out = "full"
    BY <1>p, <2>2, DecideIs DEF GiveUp
  <2> QED BY <1>0, <2>1, <2>2
<1>3. ~ LoadTombstone(p) /\ ~ LoadLive(p)
  <2>1. ASSUME LoadTombstone(p) PROVE proc'[p].pc = "load"
    BY <1>p, <2>1, AdvanceIs DEF LoadTombstone
  <2>2. ASSUME LoadLive(p) PROVE proc'[p].pc = "match"
    BY <1>p, <2>2, LoadLiveIs
  <2> QED BY <2>1, <2>2
<1>4. ~ Compare(p)
  <2>1. ASSUME Compare(p) PROVE proc'[p].pc \in {"load", "match"}
    <3>1. PICK g \in proc[p].todo :
              \/ Become(p, [proc[p] EXCEPT !.todo = @ \ {g}])
              \/ Advance(p, proc[p].reuse)
      BY <2>1 DEF Compare
    <3>2. proc[p].pc = "match"
      BY <2>1 DEF Compare
    <3>3. CASE Become(p, [proc[p] EXCEPT !.todo = @ \ {g}])
      BY <1>p, <3>2, <3>3, TodoIs
    <3>4. CASE Advance(p, proc[p].reuse)
      BY <1>p, <3>4, AdvanceIs
    <3> QED BY <3>1, <3>3, <3>4
  <2> QED BY <2>1
<1>5. Step(p)
  BY <1>1
<1>6. Busy(p) /\ proc'[p].op = proc[p].op
  BY <1>5, StepKeeps DEF Idle
<1>7. ~ Write(p)
  BY <1>6 DEF Write
<1>8. ~ Match(p)
  <2>1. ASSUME Match(p) PROVE proc'[p].todo = Meta
    BY <1>p, <1>6, <2>1, DecideIs DEF Match, Accesses
  <2> QED BY <2>1
<1>9. Read(p)
  BY <1>2, <1>3, <1>4, <1>5, <1>1, <1>7, <1>8 DEF Step
<1>10. PICK g \in proc[p].todo :
          proc' = [proc EXCEPT ![p] = [proc[p] EXCEPT
                      !.todo = @ \ {g}, !.got[g] = mem[proc[p].tgt][g]]]
  BY <1>9 DEF Read, Become
<1>11. /\ proc[p].pc = "access" /\ proc[p].op.kind = "get"
       /\ proc'[p].tgt = proc[p].tgt /\ proc'[p].todo = proc[p].todo \ {g}
       /\ proc'[p].got = [proc[p].got EXCEPT ![g] = mem[proc[p].tgt][g]]
  BY <1>p, <1>9, <1>10 DEF Read, Proc
<1>12. proc[p].tgt \in held[p]
  BY <1>5, <1>6, <1>11, WatchShrinks
<1>13. CASE f = g
  <2>1. Holds(proc[p].tgt, proc[p].op.key)
    BY <1>p, <1>6, <1>12 DEF HeldOK
  <2>2. proc[p].op.key \in Keys /\ proc[p].tgt \in Slots
    BY <1>p, <1>6, <1>12, OpsTyped DEF LocalOK
  <2>3. proc'[p].got[f] = mem[proc[p].tgt][f]
    BY <1>p, <1>11, <1>13 DEF Proc
  <2>4. mem[proc[p].tgt][f] \in Vals /\ mem[proc[p].tgt][f].key = proc[p].op.key
    BY <2>1, <2>2, EntryLabelled
  <2> QED BY <1>6, <2>3, <2>4
<1>14. CASE f # g
  <2>1. f \in Meta \ proc[p].todo
    BY <1>11, <1>14
  <2>2. proc'[p].got[f] = proc[p].got[f]
    BY <1>p, <1>11, <1>14 DEF Proc
  <2>3. proc[p].got[f] \in Vals /\ proc[p].got[f].key = proc[p].op.key
    BY <1>11, <1>12, <2>1 DEF SerialOK, ReadOK
  <2> QED BY <1>6, <2>2, <2>3
<1> QED BY <1>13, <1>14
-----------------------------------------------------------------------------
(***************************************************************************)
(* The writes of a mutating call.                                          *)
(***************************************************************************)
\* An update of an entry is of metadata fields.
LEMMA FoundFields ==
    ASSUME NEW op \in Ops
    PROVE  Accesses(op, "found") \subseteq Meta
  BY OpsTyped DEF Accesses

\* A write changes no key of a live slot, and other fields only of the entry it updates.
LEMMA WriteKeeps ==
    ASSUME SerialInv, NEW p \in Procs, Write(p)
    PROVE  /\ OneSlotPerKey' /\ Present' /\ Contents' /\ Labelled'
           /\ MutationOK(p)'
<1> USE DEF SerialInv, LookInv, WalkInv
<1> DEFINE k == proc[p].op.key
           t == proc[p].tgt
<1>p. proc \in [Procs -> Proc] /\ proc[p] \in Proc /\ LocalOK(p)
      /\ mem \in [Slots -> [Fields -> Data]]
  BY DEF TypeInv, TypeOK
<1>m. Mutating(p) /\ proc[p].pc = "access" /\ proc[p].op \in Ops
  BY <1>p DEF Write, Mutating, Busy, LocalOK
<1>u. UseOK(p)
  BY <1>m DEF SerialOK, MutationOK
<1>1. PICK f \in proc[p].todo :
          /\ mem' = [mem EXCEPT ![t][f] = Value(proc[p].op, f)]
          /\ proc' = [proc EXCEPT ![p] = [proc[p] EXCEPT !.todo = @ \ {f}]]
  BY DEF Write, Become
<1>2. occ' = occ /\ truth' = truth
  BY DEF Write
<1>3. /\ proc'[p].pc = "access" /\ proc'[p].op = proc[p].op /\ proc'[p].out = proc[p].out
      /\ proc'[p].tgt = t /\ proc'[p].todo = proc[p].todo \ {f}
      /\ \A q \in Procs : q # p => proc'[q] = proc[q]
  BY <1>p, <1>m, <1>1 DEF Proc
<1>4. f \in Accesses(proc[p].op, proc[p].out) /\ t \in Slots /\ f \in Fields
  BY <1>p, <1>m, <1>1, AccessesTyped DEF LocalOK
<1>5. /\ mem'[t][f] = Value(proc[p].op, f)
      /\ \A s \in Slots, g \in Fields : s # t \/ g # f => mem'[s][g] = mem[s][g]
  BY <1>p, <1>1, <1>4
<1>6. proc[p].out \in {"found", "vacant"}
  BY <1>m, <1>4, AccessesTyped
<1>7. proc[p].out = "found" => f \in Meta /\ f \notin KeyFields
  BY <1>m, <1>4, FoundFields, ShmMapAssumption DEF KeyFields, Owner
<1>8. proc[p].out = "vacant" => Inserts(proc[p].op) /\ occ[t] # "LIVE"
  <2>1. proc[p].out = "vacant" => Inserts(proc[p].op)
    BY <1>m, <1>4, OpsTyped DEF Inserts, Accesses
  <2> QED BY <1>m, <1>u, <2>1 DEF UseOK
<1>9. \A j \in Keys, s \in Slots : Holds(s, j)' <=> Holds(s, j)
  <2>1. CASE proc[p].out = "found"
    BY <1>2, <1>5, <1>7, <2>1 DEF Holds, LiveIn, Fields
  <2>2. CASE proc[p].out = "vacant"
    BY <1>2, <1>5, <1>8, <2>2 DEF Holds, LiveIn, Fields
  <2> QED BY <1>6, <2>1, <2>2
<1>10. OneSlotPerKey' /\ Present' /\ Labelled'
  <2>1. OneSlotPerKey'
    BY <1>9 DEF SerialOK, OneSlotPerKey
  <2>2. Present'
    BY <1>2, <1>9 DEF SerialOK, Present
  <2>3. Labelled'
    BY <1>2 DEF SerialOK, Labelled
  <2> QED BY <2>1, <2>2, <2>3
<1>11. ASSUME NEW j \in Keys, NEW s \in Slots, Holds(s, j)', NEW g \in Meta
       PROVE  mem'[s][g] = truth'[j][g] \/ \E q \in Procs : Updated(q, s, g)'
  <2>1. Holds(s, j)
    BY <1>9, <1>11
  <2>2. CASE s = t /\ g = f
    <3>1. proc[p].out = "found"
      BY <1>6, <1>8, <2>1, <2>2 DEF Holds, LiveIn
    <3>2. Updated(p, s, g)'
      BY <1>m, <1>3, <1>4, <2>2, <3>1 DEF Updated, Mutating, Busy
    <3> QED BY <3>2
  <2>3. CASE ~ (s = t /\ g = f)
    <3>1. mem'[s][g] = mem[s][g]
      BY <1>5, <2>3 DEF Fields
    <3>2. CASE mem[s][g] = truth[j][g]
      BY <1>2, <3>1, <3>2
    <3>3. CASE \E q \in Procs : Updated(q, s, g)
      <4>1. PICK q \in Procs : Updated(q, s, g)
        BY <3>3
      <4>2. Updated(q, s, g)'
        BY <1>3, <4>1 DEF Updated, Mutating, Busy
      <4> QED BY <4>2
    <3> QED BY <2>1, <3>2, <3>3 DEF SerialOK, Contents
  <2> QED BY <2>2, <2>3
<1>12. Contents'
  BY <1>11 DEF Contents
<1>13. UseOK(p)'
  <2>1. Written(p) => Written(p)'
    <3> SUFFICES ASSUME Written(p),
                        NEW g \in Accesses(proc[p].op, proc[p].out) \ (proc[p].todo \ {f})
                 PROVE  mem'[t][g] = Value(proc[p].op, g)
      BY <1>3 DEF Written
    <3>1. CASE g = f
      BY <1>5, <3>1
    <3>2. CASE g # f
      <4>1. g \in Fields
        BY <1>m, AccessesTyped
      <4>2. mem'[t][g] = mem[t][g]
        BY <1>4, <1>5, <3>2, <4>1
      <4> QED BY <3>2, <4>2 DEF Written
    <3> QED BY <3>1, <3>2
  <2>2. CASE proc[p].out = "found"
    <3>1. Holds(t, k) /\ Written(p)
      BY <1>m, <1>u, <2>2 DEF UseOK
    <3>2. PICK j \in Keys : j = k
      BY <1>m, OpsTyped
    <3>3. PICK s \in Slots : s = t
      BY <1>4
    <3>4. Holds(s, j)'
      BY <1>9, <3>1, <3>2, <3>3
    <3>5. Holds(proc[p].tgt, proc[p].op.key)'
      BY <1>3, <3>2, <3>3, <3>4 DEF Holds
    <3> QED BY <1>3, <2>1, <2>2, <3>1, <3>5 DEF UseOK
  <2>3. CASE proc[p].out = "vacant"
    <3>1. truth[k] = Absent /\ Written(p)
      BY <1>m, <1>8, <1>u, <2>3 DEF UseOK
    <3> QED BY <1>2, <1>3, <1>8, <2>1, <2>3, <3>1 DEF UseOK
  <2> QED BY <1>6, <2>2, <2>3
<1>14. WalkOK(p)'
  BY <1>3 DEF WalkOK
<1> QED BY <1>10, <1>12, <1>13, <1>14 DEF MutationOK
-----------------------------------------------------------------------------
(***************************************************************************)
(* The end of a mutating call.                                             *)
(***************************************************************************)
\* The entries of the other keys are as they should be: no update but p's own, which is
\* of another key, is in progress.
LEMMA ElsewhereExact ==
    ASSUME SerialInv, NoMixedKeys, NEW p \in Procs, Mutating(p),
           NEW j \in Keys, NEW s \in Slots, Holds(s, j), NEW f \in Meta,
           ~ Updated(p, s, f) \/ j # proc[p].op.key
    PROVE  mem[s][f] = truth[j][f]
<1>1. ASSUME NEW q \in Procs, Updated(q, s, f) PROVE FALSE
  <2>1. q = p
    BY <1>1 DEF Updated, SerialInv, SerialOK, Alone
  <2>2. proc[p].op.key = j
    BY <1>1, <2>1, UpdatedKey
  <2> QED BY <1>1, <2>1, <2>2
<1> QED BY <1>1 DEF SerialInv, SerialOK, Contents

\* set_inode and chown of an entry: the entry is what After makes of it.
LEMMA UpdateEnds ==
    ASSUME SerialInv, NoMixedKeys, NEW p \in Procs, Mutating(p), Finish(p),
           proc[p].out = "found", Inserts(proc[p].op)
    PROVE  OneSlotPerKey' /\ Present' /\ Contents' /\ Labelled'
<1> USE DEF SerialInv, LookInv, WalkInv
<1> DEFINE op == proc[p].op
<1>1. PICK k \in Keys : k = proc[p].op.key
  BY OpsTyped DEF TypeInv, LocalOK, Mutating
<1>2. proc[p].op \in Ops /\ proc[p].tgt \in Slots /\ proc[p].pc = "access"
      /\ proc[p].todo = {}
  BY DEF TypeInv, LocalOK, Mutating, Finish
<1>3. PICK t \in Slots : t = proc[p].tgt
  BY <1>2
<1>4. Holds(t, k) /\ Written(p)
  BY <1>1, <1>2, <1>3 DEF SerialOK, MutationOK, UseOK
<1>5. truth[k] # Absent
  BY <1>4 DEF SerialOK, Present
<1>6. truth \in [Keys -> [Meta -> Vals] \cup {Absent}]
  BY DEF TypeInv, TypeOK
<1>7. occ' = occ /\ mem' = mem
  BY DEF Finish, LastStore, Inserts
<1>8. PICK entry : entry = [f \in Meta |-> IF f \in op.fields THEN Value(op, f)
                                           ELSE truth[k][f]]
  OBVIOUS
<1>9. truth' = [truth EXCEPT ![k] = entry]
  <2>1. After(op, "found", truth[k]) = entry
    BY <1>5, <1>8 DEF After, Inserts
  <2> QED BY <1>1, <2>1 DEF Finish
<1>10. truth'[k] = entry /\ \A j \in Keys : j # k => truth'[j] = truth[j]
  BY <1>6, <1>9
<1>11. entry \in [Meta -> Vals]
  BY <1>2, <1>5, <1>6, <1>8, ValueKey
<1>12. truth'[k] # Absent
  BY <1>10, <1>11, NothingAssumption
<1>13. \A j \in Keys, s \in Slots : Holds(s, j)' <=> Holds(s, j)
  BY <1>7, QuietHolds
<1>14. OneSlotPerKey'
  BY <1>13 DEF SerialOK, OneSlotPerKey
<1>15. Present'
  BY <1>5, <1>10, <1>12, <1>13 DEF SerialOK, Present
<1>16. Labelled'
  <2>1. ASSUME NEW f \in Meta PROVE entry[f].key = k
    BY <1>1, <1>2, <1>5, <1>8, ValueKey DEF SerialOK, Labelled
  <2> QED BY <1>10, <2>1 DEF SerialOK, Labelled
<1>17. ASSUME NEW j \in Keys, NEW s \in Slots, Holds(s, j), NEW f \in Meta
       PROVE  mem[s][f] = truth'[j][f]
  <2>1. CASE j # k
    BY <1>1, <1>10, <1>17, <2>1, ElsewhereExact
  <2>2. CASE j = k
    <3>1. s = t
      BY <1>4, <1>17, <2>2 DEF SerialOK, OneSlotPerKey
    <3>2. Accesses(op, "found") = op.fields
      <4>1. op.kind = "set" => op.fields = Meta
        BY <1>2 DEF Ops, Calls, Call
      <4>2. op.kind # "get"
        BY DEF Mutating
      <4> QED BY <1>2, <4>1, <4>2 DEF Accesses, Inserts
    <3>3. CASE f \in op.fields
      BY <1>2, <1>3, <1>4, <1>8, <1>10, <2>2, <3>1, <3>2, <3>3 DEF Written
    <3>4. CASE f \notin op.fields
      <4>1. ~ Updated(p, s, f)
        BY <3>2, <3>4 DEF Updated
      <4>2. mem[s][f] = truth[j][f]
        BY <1>17, <4>1, ElsewhereExact
      <4> QED BY <1>8, <1>10, <2>2, <3>4, <4>2
    <3> QED BY <3>3, <3>4
  <2> QED BY <2>1, <2>2
<1>18. Contents'
  BY <1>7, <1>13, <1>17 DEF Contents
<1> QED BY <1>14, <1>15, <1>16, <1>18

\* remove_inode of an entry: its slot is a tombstone and its key has no entry.
LEMMA RemovalEnds ==
    ASSUME SerialInv, NoMixedKeys, NEW p \in Procs, Mutating(p), Finish(p),
           proc[p].out = "found", ~ Inserts(proc[p].op)
    PROVE  OneSlotPerKey' /\ Present' /\ Contents' /\ Labelled'
<1> USE DEF SerialInv, LookInv, WalkInv
<1>1. PICK k \in Keys : k = proc[p].op.key
  BY OpsTyped DEF TypeInv, LocalOK, Mutating
<1>2. proc[p].op \in Ops /\ proc[p].tgt \in Slots /\ proc[p].pc = "access"
  BY DEF TypeInv, LocalOK, Mutating, Finish
<1>3. PICK t \in Slots : t = proc[p].tgt
  BY <1>2
<1>4. Holds(t, k)
  BY <1>1, <1>2, <1>3 DEF SerialOK, MutationOK, UseOK
<1>5. proc[p].op.kind = "remove"
  BY <1>2, OpsTyped DEF Inserts, Mutating
<1>6. occ' = [occ EXCEPT ![t] = "TOMBSTONE"] /\ mem' = mem
  BY <1>3, <1>5 DEF Finish, LastStore
<1>7. truth' = [truth EXCEPT ![k] = Absent]
  BY <1>1, <1>5 DEF Finish, After
<1>8. truth'[k] = Absent /\ \A j \in Keys : j # k => truth'[j] = truth[j]
  BY <1>7 DEF TypeInv, TypeOK
<1>9. \A j \in Keys, s \in Slots : Holds(s, j)' <=> Holds(s, j) /\ s # t
  BY <1>6 DEF Holds, LiveIn, TypeInv, TypeOK
<1>10. \A j \in Keys, s \in Slots : Holds(s, j) => (s = t <=> j = k)
  <2>1. \A j \in Keys : Holds(t, j) => j = k
    BY <1>4, KeyUnique
  <2>2. \A s \in Slots : Holds(s, k) => s = t
    BY <1>4 DEF SerialOK, OneSlotPerKey
  <2> QED BY <2>1, <2>2
<1>11. OneSlotPerKey'
  BY <1>9 DEF SerialOK, OneSlotPerKey
<1>12. Present'
  <2>1. ASSUME NEW j \in Keys
        PROVE  truth'[j] = Absent <=> \A s \in Slots : ~ Holds(s, j)'
    BY <1>8, <1>9, <1>10 DEF SerialOK, Present
  <2> QED BY <2>1 DEF Present
<1>13. Labelled'
  BY <1>8 DEF SerialOK, Labelled
<1>14. ASSUME NEW j \in Keys, NEW s \in Slots, Holds(s, j)', NEW f \in Meta
       PROVE  mem'[s][f] = truth'[j][f]
  <2>1. Holds(s, j) /\ j # k
    BY <1>9, <1>10, <1>14
  <2>2. mem[s][f] = truth[j][f]
    BY <1>1, <2>1, ElsewhereExact
  <2> QED BY <1>6, <1>8, <2>1, <2>2
<1>15. Contents'
  BY <1>14 DEF Contents
<1> QED BY <1>11, <1>12, <1>13, <1>15

\* set_inode and chown of a key without an entry: the slot that was filled is the entry.
LEMMA InsertionEnds ==
    ASSUME SerialInv, NoMixedKeys, NEW p \in Procs, Mutating(p), Finish(p),
           proc[p].out = "vacant", Inserts(proc[p].op)
    PROVE  OneSlotPerKey' /\ Present' /\ Contents' /\ Labelled'
<1> USE DEF SerialInv, LookInv, WalkInv
<1> DEFINE op == proc[p].op
<1>1. PICK k \in Keys : k = proc[p].op.key
  BY OpsTyped DEF TypeInv, LocalOK, Mutating
<1>2. proc[p].op \in Ops /\ proc[p].tgt \in Slots /\ proc[p].pc = "access"
      /\ proc[p].todo = {}
  BY DEF TypeInv, LocalOK, Mutating, Finish
<1>3. PICK t \in Slots : t = proc[p].tgt
  BY <1>2
<1>4. truth[k] = Absent /\ occ[t] # "LIVE" /\ Written(p)
  BY <1>1, <1>2, <1>3 DEF SerialOK, MutationOK, UseOK
<1>5. \A f \in Fields : mem[t][f] = Value(op, f)
  <2>1. Accesses(op, "vacant") = Fields
    BY DEF Accesses, Inserts
  <2> QED BY <1>2, <1>3, <1>4, <2>1 DEF Written
<1>6. occ' = [occ EXCEPT ![t] = "LIVE"] /\ mem' = mem
  BY <1>3 DEF Finish, LastStore, Inserts
<1>7. PICK entry : entry = [f \in Meta |-> Value(op, f)]
  OBVIOUS
<1>8. truth' = [truth EXCEPT ![k] = entry]
  <2>1. After(op, "vacant", truth[k]) = entry
    BY <1>4, <1>7 DEF After, Inserts
  <2> QED BY <1>1, <2>1 DEF Finish
<1>9. truth'[k] = entry /\ \A j \in Keys : j # k => truth'[j] = truth[j]
  BY <1>8 DEF TypeInv, TypeOK
<1>10. entry \in [Meta -> Vals] /\ \A f \in Meta : entry[f].key = k
  BY <1>1, <1>2, <1>7, ValueKey
<1>11. truth'[k] # Absent
  BY <1>9, <1>10, NothingAssumption
<1>12. Holds(t, k)'
  <2>1. \A f \in KeyFields : mem[t][f] = k[f]
    BY <1>1, <1>5 DEF Value, Fields
  <2> QED BY <1>6, <2>1 DEF Holds, LiveIn, TypeInv, TypeOK
<1>13. \A j \in Keys, s \in Slots : Holds(s, j)' <=> Holds(s, j) \/ (s = t /\ j = k)
  <2>1. \A j \in Keys : Holds(t, j)' => j = k
    <3> SUFFICES ASSUME NEW j \in Keys, Holds(t, j)' PROVE j = k
      OBVIOUS
    <3>1. j["dev"] = k["dev"] /\ j["ino"] = k["ino"]
      BY <1>12 DEF Holds, LiveIn, KeyFields
    <3>2. j \in {k, k}
      BY <3>1 DEF NoMixedKeys
    <3> QED BY <3>2
  <2>2. \A j \in Keys, s \in Slots : s # t => (Holds(s, j)' <=> Holds(s, j))
    BY <1>6 DEF Holds, LiveIn, TypeInv, TypeOK
  <2>3. \A j \in Keys : ~ Holds(t, j)
    BY <1>4 DEF Holds, LiveIn
  <2> QED BY <1>12, <2>1, <2>2, <2>3
<1>14. \A s \in Slots : ~ Holds(s, k)
  BY <1>4 DEF SerialOK, Present
<1>15. OneSlotPerKey'
  <2>1. ASSUME NEW j \in Keys, NEW s \in Slots, NEW r \in Slots,
               Holds(s, j)', Holds(r, j)'
        PROVE  s = r
    BY <1>13, <1>14, <2>1 DEF SerialOK, OneSlotPerKey
  <2> QED BY <2>1 DEF OneSlotPerKey
<1>16. Present'
  <2>1. ASSUME NEW j \in Keys
        PROVE  truth'[j] = Absent <=> \A s \in Slots : ~ Holds(s, j)'
    BY <1>9, <1>11, <1>12, <1>13 DEF SerialOK, Present
  <2> QED BY <2>1 DEF Present
<1>17. Labelled'
  BY <1>9, <1>10 DEF SerialOK, Labelled
<1>18. ASSUME NEW j \in Keys, NEW s \in Slots, Holds(s, j)', NEW f \in Meta
       PROVE  mem'[s][f] = truth'[j][f]
  <2>1. CASE s = t /\ j = k
    BY <1>5, <1>6, <1>7, <1>9, <2>1 DEF Fields
  <2>2. CASE ~ (s = t /\ j = k)
    <3>1. Holds(s, j) /\ j # k
      BY <1>13, <1>14, <1>18, <2>2
    <3>2. mem[s][f] = truth[j][f]
      BY <1>1, <3>1, ElsewhereExact
    <3> QED BY <1>6, <1>9, <3>1, <3>2
  <2> QED BY <2>1, <2>2
<1>19. Contents'
  BY <1>18 DEF Contents
<1> QED BY <1>15, <1>16, <1>17, <1>19
-----------------------------------------------------------------------------
(***************************************************************************)
(* The invariant is inductive.                                             *)
(***************************************************************************)
\* The end of a mutating call keeps the table and the finished calls in step.
LEMMA FinishKeeps ==
    ASSUME SerialInv, NoMixedKeys, NEW p \in Procs, Mutating(p), Finish(p)
    PROVE  OneSlotPerKey' /\ Present' /\ Contents' /\ Labelled'
<1> USE DEF SerialInv, LookInv, WalkInv
<1>1. UseOK(p) /\ proc[p].pc = "access"
  BY DEF SerialOK, MutationOK, Finish
<1>2. CASE proc[p].out = "found"
  BY <1>2, UpdateEnds, RemovalEnds
<1>3. CASE proc[p].out = "vacant" /\ Inserts(proc[p].op)
  BY <1>3, InsertionEnds
<1>4. CASE proc[p].out = "full" \/ (proc[p].out = "vacant" /\ ~ Inserts(proc[p].op))
  <2>1. proc[p].op.kind = "remove" \/ Inserts(proc[p].op)
    BY OpsTyped DEF TypeInv, LocalOK, Mutating, Inserts
  <2>2. proc[p].out = "vacant" => truth[proc[p].op.key] = Absent
    BY <1>1 DEF UseOK
  <2>3. Quiet
    BY <1>4, <2>1, <2>2, FinishQuiet
  <2>4. \A s \in Slots, f \in Meta : ~ Updated(p, s, f)
    BY <1>4 DEF Updated
  <2> QED BY <2>3, <2>4, QuietKeeps DEF Step
<1> QED BY <1>1, <1>2, <1>3, <1>4 DEF UseOK

\* Every step keeps the invariant.
LEMMA SerialStep ==
    ASSUME SerialInv, NoMixedKeys, Serial, NEW p \in Procs, Start(p) \/ Step(p), Watch,
           AllHeldOK'
    PROVE  SerialOK'
<1> USE DEF SerialInv, LookInv, WalkInv
<1>1. OneSlotPerKey' /\ Present' /\ Contents' /\ Labelled' /\ MutationOK(p)'
  <2>1. CASE Write(p)
    BY <2>1, WriteKeeps
  <2>2. CASE Finish(p) /\ Mutating(p)
    <3>1. proc'[p] = Idle
      BY <2>2, FinishIs DEF TypeInv, TypeOK
    <3>2. MutationOK(p)'
      BY <3>1 DEF MutationOK, Mutating, Busy, Idle
    <3> QED BY <2>2, <3>2, FinishKeeps
  <2>3. CASE ~ Write(p) /\ ~ (Finish(p) /\ Mutating(p))
    <3>1. ~ (Mutating(p) /\ proc[p].pc = "access")
      <4>1. ASSUME Step(p), Mutating(p), proc[p].pc = "access" PROVE FALSE
        <5>1. ~ LoadEmpty(p) /\ ~ LoadTombstone(p) /\ ~ LoadLive(p)
          BY <4>1 DEF LoadEmpty, LoadTombstone, LoadLive, Walking
        <5>2. ~ Compare(p) /\ ~ Match(p) /\ ~ GiveUp(p)
          BY <4>1 DEF Compare, Match, GiveUp
        <5>3. ~ Read(p)
          BY <4>1 DEF Read, Mutating
        <5> QED BY <2>3, <4>1, <5>1, <5>2, <5>3 DEF Step
      <4>2. ASSUME Start(p) PROVE ~ Mutating(p)
        BY <4>2 DEF Start, Mutating
      <4> QED BY <4>1, <4>2
    <3>2. Quiet
      BY <3>1, OnlyMutations
    <3>3. \A s \in Slots, f \in Meta : ~ Updated(p, s, f)
      BY <3>1 DEF Updated
    <3>4. OneSlotPerKey' /\ Present' /\ Contents' /\ Labelled'
      BY <3>2, <3>3, QuietKeeps
    <3>5. MutationOK(p)'
      <4>1. CASE proc[p].pc # "access"
        BY <4>1, SelfWalks DEF MutationOK
      <4>2. CASE proc[p].pc = "access"
        <5>1. Step(p)
          BY <4>2 DEF Start, Busy
        <5>2. ~ Mutating(p)'
          BY <3>1, <4>2, <5>1, StepKeeps DEF Mutating, Busy, Idle
        <5> QED BY <5>2 DEF MutationOK
      <4> QED BY <4>1, <4>2
    <3> QED BY <3>4, <3>5
  <2> QED BY <2>1, <2>2, <2>3
<1>2. \A q \in Procs : MutationOK(q)' /\ ReadOK(q)'
  <2>1. ReadOK(p)'
    BY SelfReads DEF AllHeldOK
  <2>2. \A q \in Procs : q # p => MutationOK(q)' /\ ReadOK(q)'
    BY OthersMutate, OthersRead
  <2> QED BY <1>1, <2>1, <2>2
<1>3. Alone'
  BY AloneStays
<1> QED BY <1>1, <1>2, <1>3 DEF SerialOK

\* The empty table.
LEMMA SerialInit == Init => SerialOK
<1> SUFFICES ASSUME Init PROVE SerialOK
  OBVIOUS
<1>1. \A k \in Keys, s \in Slots : ~ Holds(s, k)
  BY DEF Init, Holds, LiveIn
<1>2. \A p \in Procs : ~ Busy(p)
  BY DEF Init, Busy, Idle
<1>3. Alone /\ \A p \in Procs : MutationOK(p) /\ ReadOK(p)
  BY <1>2 DEF Alone, Mutating, MutationOK, ReadOK, Busy
<1>4. OneSlotPerKey /\ Present /\ Contents /\ Labelled
  BY <1>1 DEF Init, OneSlotPerKey, Present, Contents, Labelled
<1> QED BY <1>3, <1>4 DEF SerialOK

\* SerialOK is kept by every step of a session whose mutating calls do not overlap.
LEMMA SerialInvariance ==
    ASSUME Serial, NoMixedKeys
    PROVE  Spec => []SerialInv
<1>1. ASSUME WalkInv, SerialInv, [Next]_vars PROVE AllHeldOK' /\ SerialOK'
  <2>1. AllHeldOK'
    BY <1>1, LookStep DEF SerialInv
  <2>2. CASE Next
    BY <1>1, <2>1, <2>2, SerialStep DEF Next
  <2>3. CASE UNCHANGED vars
    <3>1. Quiet /\ proc' = proc /\ held' = held
      BY <2>3 DEF vars, Quiet
    <3>2. \A k \in Keys, s \in Slots : Holds(s, k)' <=> Holds(s, k)
      BY <3>1, QuietHolds DEF Quiet
    <3>3. \A q \in Procs, s \in Slots, f \in Meta : Updated(q, s, f)' <=> Updated(q, s, f)
      BY <3>1 DEF Updated, Mutating, Busy
    <3>4. OneSlotPerKey' /\ Present' /\ Contents' /\ Labelled' /\ Alone'
      BY <1>1, <3>1, <3>2, <3>3
         DEF SerialInv, SerialOK, OneSlotPerKey, Present, Contents, Labelled, Alone,
             Quiet, Mutating, Busy
    <3>5. ASSUME NEW q \in Procs PROVE MutationOK(q)' /\ ReadOK(q)'
      <4>1. MutationOK(q) /\ ReadOK(q)
        BY <1>1 DEF SerialInv, SerialOK
      <4>2. ReadOK(q)'
        BY <3>1, <4>1 DEF ReadOK
      <4>3. WalkOK(q)' <=> WalkOK(q)
        BY <3>1 DEF WalkOK, Quiet, Holds, LiveIn, Here, At
      <4>4. UseOK(q)' <=> UseOK(q)
        BY <3>1 DEF UseOK, Quiet, Holds, LiveIn, Written
      <4>5. Mutating(q)' <=> Mutating(q)
        BY <3>1 DEF Mutating, Busy
      <4> QED BY <4>1, <4>2, <4>3, <4>4, <4>5 DEF MutationOK
    <3> QED BY <2>1, <3>4, <3>5 DEF SerialOK
  <2> QED BY <1>1, <2>1, <2>2, <2>3
<1>2. WalkInv /\ AllHeldOK /\ SerialOK /\ [Next]_vars => AllHeldOK' /\ SerialOK'
  BY <1>1 DEF SerialInv, LookInv
<1>3. WalkInv /\ AllHeldOK /\ SerialOK => SerialInv
  BY DEF SerialInv, LookInv
<1> QED BY <1>2, <1>3, LookInit, SerialInit, WalkInvariance, PTL DEF Spec

\* When no two mutating calls overlap, insert_slot never publishes a second slot for a
\* key, however many lookups run beside it.
THEOREM OneSlotPerKeyAlways == Serial /\ NoMixedKeys => (Spec => []OneSlotPerKey)
<1> SUFFICES ASSUME Serial, NoMixedKeys PROVE Spec => []OneSlotPerKey
  OBVIOUS
<1>1. SerialInv => OneSlotPerKey
  BY DEF SerialInv, SerialOK
<1> QED BY <1>1, SerialInvariance, PTL

\* A get_inode that overlaps mutating calls and whose slot goes on holding its key
\* returns values written for that key, never what a previous occupant left in the slot.
THEOREM NoForeignReadAlways == Serial /\ NoMixedKeys => (Spec => []NoForeignRead)
<1> SUFFICES ASSUME Serial, NoMixedKeys PROVE Spec => []NoForeignRead
  OBVIOUS
<1>1. SerialInv => NoForeignRead
  <2> SUFFICES ASSUME SerialInv, NEW p \in Procs, proc[p].pc = "access",
                      proc[p].op.kind = "get", proc[p].todo = {},
                      proc[p].tgt \in held[p], NEW f \in Meta
               PROVE  proc[p].got[f] # Unset /\ proc[p].got[f].key = proc[p].op.key
    BY DEF NoForeignRead
  <2>1. proc[p].got[f] \in Vals /\ proc[p].got[f].key = proc[p].op.key
    BY DEF SerialInv, SerialOK, ReadOK
  <2> QED BY <2>1, NothingAssumption
<1> QED BY <1>1, SerialInvariance, PTL

\* Between mutating calls the table says what the finished calls amount to: set_inode,
\* the chown of one id or of both, and remove_inode have had their effect and no other.
THEOREM SettledAlways == Serial /\ NoMixedKeys => (Spec => []Settled)
<1> SUFFICES ASSUME Serial, NoMixedKeys PROVE Spec => []Settled
  OBVIOUS
<1>1. SerialInv => Settled
  BY SettledEntries DEF Settled
<1> QED BY <1>1, SerialInvariance, PTL
=============================================================================
