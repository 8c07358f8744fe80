---------------------------- MODULE Xattrs_proofs ----------------------------
(***************************************************************************)
(* Proofs about Xattrs for any number of readers, every finite set of      *)
(* names and every set of values and lengths.                              *)
(***************************************************************************)
EXTENDS Xattrs, FiniteSetTheorems, WellFoundedInduction, TLAPS

-----------------------------------------------------------------------------
(***************************************************************************)
(* The length of a list of names.                                          *)
(***************************************************************************)
\* Induction over the natural numbers, for a set.
LEMMA SetInduction ==
    ASSUME NEW S, 0 \in S, \A n \in Nat : n \in S => n + 1 \in S
    PROVE  Nat \subseteq S
<1> SUFFICES ASSUME NEW m \in Nat, m \notin S PROVE FALSE
  OBVIOUS
<1> DEFINE Missed == {n \in Nat : n \notin S}
           Less == {pair \in Nat \X Nat : pair[1] < pair[2]}
<1>1. IsWellFoundedOn(Less, Nat)
  BY NatLessThanWellFounded DEF OpToRel
<1>2. Missed \subseteq Nat /\ Missed # {}
  OBVIOUS
<1> HIDE DEF Missed, Less
<1>3. PICK n \in Missed : \A k \in Missed : <<k, n>> \notin Less
  BY <1>1, <1>2, WFMin
<1>4. n - 1 \in Nat /\ <<n - 1, n>> \in Less
  BY <1>2, <1>3 DEF Missed, Less
<1> QED BY <1>3, <1>4 DEF Missed

\* The fold that ListLength is, as a function of the names that are left.
Chosen(names) == CHOOSE n \in names : TRUE
Added(f, names) ==
    IF names = {} THEN 0 ELSE NameLength[Chosen(names)] + f[names \ {Chosen(names)}]
Folds(f, names) == f = [some \in SUBSET names |-> Added(f, some)]

\* The lengths that are added are natural numbers.
LEMMA AddedTyped ==
    ASSUME NEW names \in SUBSET Names, NEW f,
           names # {} => f[names \ {Chosen(names)}] \in Nat
    PROVE  Added(f, names) \in Nat
<1>1. CASE names = {}
  BY <1>1 DEF Added
<1>2. CASE names # {}
  <2>1. Chosen(names) \in Names
    BY <1>2 DEF Chosen
  <2>2. NameLength[Chosen(names)] \in Nat
    BY <2>1, XattrsAssumption
  <2> QED BY <1>2, <2>2 DEF Added
<1> QED BY <1>1, <1>2

\* One name less.
LEMMA OneLess ==
    ASSUME NEW names \in SUBSET Names, NEW n \in Nat, names # {}, Cardinality(names) <= n + 1
    PROVE  Cardinality(names \ {Chosen(names)}) <= n
<1>1. IsFiniteSet(names) /\ Chosen(names) \in names
  BY XattrsAssumption, FS_Subset DEF Chosen
<1>2. Cardinality(names) \in Nat
  BY <1>1, FS_CardinalityType
<1> QED BY <1>1, <1>2, FS_RemoveElement

\* There is such a function: as good up to n names, it can be made good up to n + 1.
LEMMA FoldExists ==
    ASSUME NEW names \in SUBSET Names
    PROVE  \E f : Folds(f, names)
<1> DEFINE Good(f, n) == \A some \in SUBSET names : Cardinality(some) <= n => f[some] = Added(f, some)
           Reached == {n \in Nat : \E f \in [SUBSET names -> Nat] : Good(f, n)}
<1>1. 0 \in Reached
  <2> DEFINE zero == [some \in SUBSET names |-> 0]
  <2>1. \A some \in SUBSET names : Cardinality(some) <= 0 => some = {}
    <3> SUFFICES ASSUME NEW some \in SUBSET names, Cardinality(some) <= 0 PROVE some = {}
      OBVIOUS
    <3>1. IsFiniteSet(some) /\ Cardinality(some) \in Nat
      BY XattrsAssumption, FS_Subset, FS_CardinalityType
    <3> QED BY <3>1, FS_EmptySet
  <2>2. zero \in [SUBSET names -> Nat] /\ Good(zero, 0)
    BY <2>1 DEF Added
  <2> QED BY <2>2
<1>2. ASSUME NEW n \in Nat, n \in Reached PROVE n + 1 \in Reached
  <2>1. PICK f \in [SUBSET names -> Nat] : Good(f, n)
    BY <1>2
  <2> DEFINE next == [some \in SUBSET names |-> Added(f, some)]
  <2>2. next \in [SUBSET names -> Nat]
    BY AddedTyped
  <2>3. ASSUME NEW some \in SUBSET names, Cardinality(some) <= n + 1
        PROVE  next[some] = Added(next, some)
    <3>1. CASE some = {}
      BY <3>1 DEF Added
    <3>2. CASE some # {}
      <4> DEFINE rest == some \ {Chosen(some)}
      <4>1. rest \in SUBSET names /\ Cardinality(rest) <= n
        BY <2>3, <3>2, OneLess
      <4>2. f[rest] = next[rest]
        BY <2>1, <4>1
      <4> QED BY <3>2, <4>2 DEF Added
    <3> QED BY <3>1, <3>2
  <2>4. Good(next, n + 1)
    BY <2>3
  <2> HIDE DEF next
  <2> QED BY <2>2, <2>4
<1>3. IsFiniteSet(names) /\ Cardinality(names) \in Nat
  BY XattrsAssumption, FS_Subset, FS_CardinalityType
<1> HIDE DEF Reached
<1>4. Cardinality(names) \in Reached
  BY <1>1, <1>2, <1>3, SetInduction
<1>5. PICK f \in [SUBSET names -> Nat] : Good(f, Cardinality(names))
  BY <1>4 DEF Reached
<1>6. \A some \in SUBSET names : Cardinality(some) <= Cardinality(names)
  BY <1>3, FS_Subset
<1>7. f = [some \in SUBSET names |-> Added(f, some)]
  BY <1>5, <1>6
<1> QED BY <1>7 DEF Folds

\* The length of a list is a natural number, and that of one with names is not 0.
LEMMA ListLengthTyped ==
    ASSUME NEW names \in SUBSET Names
    PROVE  /\ ListLength(names) \in Nat
           /\ names # {} => ListLength(names) > 0
<1> DEFINE f == CHOOSE g : Folds(g, names)
           Typed == {n \in Nat : \A some \in SUBSET names : Cardinality(some) <= n => f[some] \in Nat}
<1>1. ListLength(names) = f[names]
  BY DEF ListLength, MapThenSumSet, MapThenFoldSet, Folds, Added, Chosen
<1>2. Folds(f, names)
  BY FoldExists
<1> HIDE DEF f
<1>3. \A some \in SUBSET names : f[some] = Added(f, some)
  BY <1>2 DEF Folds
<1>4. 0 \in Typed
  <2> SUFFICES ASSUME NEW some \in SUBSET names, Cardinality(some) <= 0 PROVE f[some] \in Nat
    OBVIOUS
  <2>1. IsFiniteSet(some) /\ Cardinality(some) \in Nat
    BY XattrsAssumption, FS_Subset, FS_CardinalityType
  <2>2. some = {}
    BY <2>1, FS_EmptySet
  <2> QED BY <1>3, <2>2 DEF Added
<1>5. ASSUME NEW n \in Nat, n \in Typed PROVE n + 1 \in Typed
  <2> SUFFICES ASSUME NEW some \in SUBSET names, Cardinality(some) <= n + 1 PROVE f[some] \in Nat
    OBVIOUS
  <2>1. some # {} => f[some \ {Chosen(some)}] \in Nat
    BY <1>5, OneLess
  <2> QED BY <1>3, <2>1, AddedTyped
<1>6. IsFiniteSet(names) /\ Cardinality(names) \in Nat
  BY XattrsAssumption, FS_Subset, FS_CardinalityType
<1> HIDE DEF Typed
<1>7. Cardinality(names) \in Typed
  BY <1>4, <1>5, <1>6, SetInduction
<1>8. \A some \in SUBSET names : f[some] \in Nat
  <2>1. \A some \in SUBSET names : Cardinality(some) <= Cardinality(names)
    BY <1>6, FS_Subset
  <2> QED BY <1>7, <2>1 DEF Typed
<1>9. CASE names # {}
  <2>1. Chosen(names) \in Names
    BY <1>9 DEF Chosen
  <2>2. NameLength[Chosen(names)] \in Nat \ {0} /\ f[names \ {Chosen(names)}] \in Nat
    BY <1>8, <2>1, XattrsAssumption
  <2> QED BY <1>1, <1>3, <1>8, <1>9, <2>2 DEF Added
<1> QED BY <1>1, <1>8, <1>9
-----------------------------------------------------------------------------
(***************************************************************************)
(* Type correctness.                                                       *)
(***************************************************************************)
\* A value is cut at MAX_XATTR, and a page keeps all attributes or none.
LEMMA StoredTyped ==
    ASSUME TypeOK, NEW n \in Names, NEW v \in Value \cup {None}, NEW w,
           w = (IF v = None THEN None ELSE Taken(v))
    PROVE  Stored([fake EXCEPT ![n] = w]) \in Cut
<1>1. Value \subseteq [tag : Tags, length : Nat]
  BY XattrsAssumption DEF Value
<1>2. w \in [tag : Tags, length : 0 .. MaxXattr] \cup {None}
  BY <1>1, XattrsAssumption DEF Taken, Smaller
<1>3. [fake EXCEPT ![n] = w] \in Cut
  BY <1>2 DEF TypeOK, Cut
<1> QED BY <1>3 DEF Stored, Cut

\* Values are no None.
LEMMA ValueTyped == \A v \in Value : v # None /\ v \in [tag : Tags, length : Nat]
  BY XattrsAssumption DEF Value

\* What getxattr finds, and how a buffer of n bytes is answered.
Found(name) == IF fake[name] # None THEN fake[name] ELSE scene.real[name]

LEMMA GetXattrIs ==
    ASSUME TypeOK, NEW name \in Names, NEW n \in Nat
    PROVE  /\ Found(name) \in [tag : Tags, length : Nat] \cup {None}
           /\ \/ Found(name) = None /\ GetXattr(name, n) = Answer(0, None)
              \/ /\ Found(name) # None
                 /\ GetXattr(name, n) \in {NoAnswer, Answer(Found(name).length, Found(name))}
           /\ n = 0 => GetXattr(name, n) # NoAnswer
<1>1. scene.real \in Attributes
  BY XattrsAssumption DEF TypeOK, Scene
<1>2. Found(name) \in [tag : Tags, length : Nat] \cup {None}
  BY <1>1, ValueTyped, XattrsAssumption DEF Found, TypeOK, Cut, Attributes
<1>3. CASE Found(name) = None
  BY <1>2, <1>3, XattrsAssumption DEF GetXattr, Found, Answer
<1>4. CASE Found(name) # None
  <2>1. Answer(Found(name).length, Found(name)) # NoAnswer
    BY <1>2, <1>4, XattrsAssumption DEF Answer
  <2>2. GetXattr(name, n) = Written(Found(name).length, Found(name), n)
    BY <1>4 DEF GetXattr, Found
  <2> QED BY <1>2, <1>4, <2>1, <2>2 DEF Written
<1> QED BY <1>2, <1>3, <1>4

\* The names in an attribute list.
LEMMA HasTyped == \A attributes : Has(attributes) \in SUBSET Names
  BY DEF Has

\* How listxattr answers: with the fake names, and the real ones when the real call has
\* written them.
LEMMA ListXattrIs ==
    ASSUME NEW n \in Nat
    PROVE  \E names \in SUBSET Names :
              /\ ListXattr(n) \in {NoAnswer, Answer(ListLength(names), names)}
              /\ n = 0 => ListXattr(n) # NoAnswer
              /\ Has(fake) \subseteq names /\ names \subseteq Has(fake) \cup Has(scene.real)
              /\ n > 0 /\ ListLength(Has(scene.real)) <= n =>
                    /\ names = Has(fake) \cup Has(scene.real)
                    /\ ListLength(names) <= n => ListXattr(n) # NoAnswer
<1> DEFINE real == Written(ListLength(Has(scene.real)), Has(scene.real), n)
           written == IF n > 0 /\ real # NoAnswer THEN real.content ELSE {}
           merged == written \cup Has(fake)
           names == IF Has(fake) = {} THEN Has(scene.real) ELSE merged
<1>1. \A some \in SUBSET Names : /\ ListLength(some) \in Nat
                                 /\ Answer(ListLength(some), some) # NoAnswer
                                 /\ Answer(ListLength(some), some).content = some
  BY ListLengthTyped, XattrsAssumption DEF Answer
<1>2. written \in {{}, Has(scene.real)}
  BY <1>1, HasTyped DEF Written
<1>3. n > 0 /\ ListLength(Has(scene.real)) <= n => written = Has(scene.real)
  BY <1>1, HasTyped DEF Written
<1>4. ListXattr(n) = Written(ListLength(names), names, n)
  BY DEF ListXattr
<1>5. names \in SUBSET Names /\ Has(fake) \subseteq names /\ names \subseteq Has(fake) \cup Has(scene.real)
  BY <1>2, HasTyped
<1>6. n > 0 /\ ListLength(Has(scene.real)) <= n => names = Has(fake) \cup Has(scene.real)
  BY <1>3
<1> HIDE DEF names
<1>7. ListXattr(n) \in {NoAnswer, Answer(ListLength(names), names)} /\ (n = 0 => ListXattr(n) # NoAnswer)
  BY <1>1, <1>4, <1>5 DEF Written
<1>8. ListLength(names) <= n => ListXattr(n) # NoAnswer
  BY <1>1, <1>4, <1>5 DEF Written
<1> QED BY <1>5, <1>6, <1>7, <1>8

\* An answer that is one tells a length.
LEMMA AnswerTyped ==
    ASSUME TypeOK, NEW reads \in Names \cup {List}, NEW n \in Nat
    PROVE  /\ n = 0 => AnswerTo(reads, n) # NoAnswer
           /\ AnswerTo(reads, n) # NoAnswer => AnswerTo(reads, n).length \in Nat
<1>1. CASE reads = List
  <2>1. PICK names \in SUBSET Names :
            /\ ListXattr(n) \in {NoAnswer, Answer(ListLength(names), names)}
            /\ n = 0 => ListXattr(n) # NoAnswer
    BY ListXattrIs
  <2> QED BY <1>1, <2>1, ListLengthTyped DEF AnswerTo, Answer
<1>2. CASE reads # List
  <2>1. reads \in Names /\ AnswerTo(reads, n) = GetXattr(reads, n)
    BY <1>2 DEF AnswerTo
  <2> QED BY <2>1, GetXattrIs DEF Answer
<1> QED BY <1>1, <1>2

\* setxattr and removexattr.
LEMMA TypeChanged ==
    ASSUME TypeOK, NEW n \in Names, NEW v \in Value \cup {None}, Changed(n, v), fake' \in Cut
    PROVE  TypeOK'
<1>1. want' \in Attributes /\ changes' \in 0 .. MaxChanges
  BY XattrsAssumption DEF Changed, TypeOK, Attributes
<1> QED BY <1>1 DEF Changed, TypeOK

\* A process that reads.
LEMMA TypeRead ==
    ASSUME TypeOK, NEW p \in Procs,
           Read(p) \/ \E reads \in Names \cup {List} : Start(p, reads)
    PROVE  TypeOK'
<1> DEFINE State == [reads : Names \cup {List}, step : {"idle", "query", "fetch"}]
<1>1. pc[p] \in State /\ size[p] \in Nat
  BY DEF TypeOK
<1>2. SUFFICES /\ \E state \in State : pc' = [pc EXCEPT ![p] = state]
               /\ size' = size \/ \E n \in Nat : size' = [size EXCEPT ![p] = n]
               /\ UNCHANGED <<scene, fake, want, changes>>
  BY <1>2 DEF TypeOK
<1>3. ASSUME NEW reads \in Names \cup {List}, Start(p, reads)
      PROVE  /\ \E state \in State : pc' = [pc EXCEPT ![p] = state]
             /\ \E n \in Nat : size' = [size EXCEPT ![p] = n]
  <2> DEFINE state == [reads |-> reads, step |-> IF scene.sized THEN "query" ELSE "fetch"]
             n == IF scene.sized THEN 0 ELSE LargeBuffer
  <2>1. state \in State /\ n \in Nat
    BY XattrsAssumption
  <2>2. pc' = [pc EXCEPT ![p] = state] /\ size' = [size EXCEPT ![p] = n]
    BY <1>3 DEF Start
  <2> HIDE DEF state, n
  <2> QED BY <2>1, <2>2
<1>4. ASSUME NEW content, Ends(p, content)
      PROVE  /\ \E state \in State : pc' = [pc EXCEPT ![p] = state]
             /\ \E n \in Nat : size' = [size EXCEPT ![p] = n]
  BY <1>4 DEF Ends, Idle
<1>5. ASSUME Query(p)
      PROVE  /\ \E state \in State : pc' = [pc EXCEPT ![p] = state]
             /\ \E n \in Nat : size' = [size EXCEPT ![p] = n]
  <2>1. CASE AnswerTo(pc[p].reads, 0).length = 0
    BY <1>4, <1>5, <2>1 DEF Query
  <2>2. CASE AnswerTo(pc[p].reads, 0).length # 0
    <3>1. AnswerTo(pc[p].reads, 0).length \in Nat
      BY <1>1, AnswerTyped
    <3>2. [pc[p] EXCEPT !.step = "fetch"] \in State
      BY <1>1
    <3>3. /\ pc' = [pc EXCEPT ![p] = [pc[p] EXCEPT !.step = "fetch"]]
          /\ size' = [size EXCEPT ![p] = AnswerTo(pc[p].reads, 0).length]
      BY <1>5, <2>2 DEF Query
    <3> QED BY <3>1, <3>2, <3>3
  <2> QED BY <2>1, <2>2
<1>6. ASSUME Fetch(p)
      PROVE  /\ \E state \in State : pc' = [pc EXCEPT ![p] = state]
             /\ size' = size \/ \E n \in Nat : size' = [size EXCEPT ![p] = n]
  <2>1. CASE AnswerTo(pc[p].reads, size[p]) = NoAnswer
    <3>1. [pc[p] EXCEPT !.step = "query"] \in State
      BY <1>1
    <3>2. pc' = [pc EXCEPT ![p] = [pc[p] EXCEPT !.step = "query"]] /\ size' = size
      BY <1>6, <2>1 DEF Fetch
    <3> QED BY <3>1, <3>2
  <2>2. CASE AnswerTo(pc[p].reads, size[p]) # NoAnswer
    BY <1>4, <1>6, <2>2 DEF Fetch
  <2> QED BY <2>1, <2>2
<1>7. UNCHANGED <<scene, fake, want, changes>>
  BY DEF Read, Query, Fetch, Start
<1> QED BY <1>3, <1>5, <1>6, <1>7 DEF Read

\* Every step keeps the types.
LEMMA TypeStep == TypeOK /\ [Next]_vars => TypeOK'
<1> SUFFICES ASSUME TypeOK, [Next]_vars PROVE TypeOK'
  OBVIOUS
<1>1. CASE UNCHANGED vars
  BY <1>1 DEF vars, TypeOK
<1>2. ASSUME NEW n \in Names, NEW v \in Value, SetXattr(n, v) PROVE TypeOK'
  <2>1. fake' \in Cut
    BY <1>2, ValueTyped, StoredTyped DEF SetXattr
  <2> QED BY <1>2, <2>1, TypeChanged DEF SetXattr
<1>3. ASSUME NEW n \in Names, RemoveXattr(n) PROVE TypeOK'
  <2>1. fake' \in Cut
    BY <1>3, StoredTyped DEF RemoveXattr
  <2> QED BY <1>3, <2>1, TypeChanged DEF RemoveXattr
<1>4. \A t \in Tags, l \in Lengths : [tag |-> t, length |-> l] \in Value
  BY DEF Value
<1> QED BY <1>1, <1>2, <1>3, <1>4, TypeRead DEF Next

\* No process reads at the start.
LEMMA TypeInit == Init => TypeOK
  BY XattrsAssumption DEF Init, TypeOK, Idle, Cut, Scene

\* Values and sizes keep their types: in particular the length of every list is a number,
\* so a reader always knows how large a buffer to make.
THEOREM TypeCorrect == Spec => []TypeOK
  BY TypeInit, TypeStep, PTL DEF Spec
-----------------------------------------------------------------------------
(***************************************************************************)
(* Attributes that were set are read back.                                 *)
(***************************************************************************)
\* The scenes in which nothing is set or removed that cannot be recorded: real
\* attributes are not removed and not longer than MAX_XATTR, and the page has room for
\* whatever is set.
SetTo == {Taken(v) : v \in [tag : Tags, length : Lengths]}
Settable == [Names -> SetTo \cup {None}]

Recordable(s) ==
    /\ \A n \in Names : s.real[n] # None => n \notin s.removes /\ s.real[n].length <= MaxXattr
    /\ s.page => ~ \E attributes \in Settable : PageLength(attributes) > PageSize

\* A fake attribute is as it was last set; without one there is what there was.
Recorded ==
    \A n \in Names :
       IF fake[n] # None THEN want[n] # None /\ fake[n] = Taken(want[n])
       ELSE want[n] = scene.real[n]

BackInv == TypeOK /\ Recordable(scene) /\ fake \in Settable /\ Recorded

\* Nothing is dropped.
LEMMA StoredAll ==
    ASSUME BackInv, NEW attributes \in Settable
    PROVE  Stored(attributes) = attributes
  BY DEF Stored, BackInv, Recordable

\* Every step keeps it.
LEMMA BackStep == BackInv /\ [Next]_vars => BackInv'
<1> SUFFICES ASSUME BackInv, [Next]_vars PROVE BackInv'
  OBVIOUS
<1>1. TypeOK' /\ scene' = scene
  BY TypeStep DEF BackInv, Next, vars, SetXattr, RemoveXattr, Changed, Read, Query, Fetch, Start
<1>2. SUFFICES fake' \in Settable /\ Recorded'
  BY <1>1 DEF BackInv, Recordable
<1>3. ASSUME NEW n \in Names, NEW t \in Tags, NEW l \in Lengths,
             SetXattr(n, [tag |-> t, length |-> l])
      PROVE  fake' \in Settable /\ Recorded'
  <2> DEFINE v == [tag |-> t, length |-> l]
  <2>1. v \in Value /\ v # None
    BY ValueTyped DEF Value
  <2>2. Taken(v) # None
    <3>1. Taken(v) \in [tag : Tags, length : Nat]
      BY <2>1, ValueTyped, XattrsAssumption DEF Taken, Smaller
    <3> QED BY <3>1, XattrsAssumption
  <2>3. [fake EXCEPT ![n] = Taken(v)] \in Settable
    <3>1. Taken(v) \in SetTo
      BY DEF SetTo
    <3> HIDE DEF v
    <3> QED BY <3>1 DEF BackInv, Settable
  <2>4. fake' = [fake EXCEPT ![n] = Taken(v)] /\ want' = [want EXCEPT ![n] = v]
    BY <1>3, <2>3, StoredAll DEF SetXattr, Changed
  <2>5. Recorded'
    <3> HIDE DEF v
    <3> QED BY <1>1, <2>1, <2>2, <2>4 DEF BackInv, Recorded, TypeOK, Cut, Attributes
  <2> QED BY <2>3, <2>4, <2>5
<1>4. ASSUME NEW n \in Names, RemoveXattr(n) PROVE fake' \in Settable /\ Recorded'
  <2>1. scene.real[n] = None
    BY <1>4 DEF RemoveXattr, BackInv, Recordable
  <2>2. [fake EXCEPT ![n] = None] \in Settable
    BY DEF BackInv, Settable
  <2>3. fake' = [fake EXCEPT ![n] = None] /\ want' = [want EXCEPT ![n] = None]
    BY <1>4, <2>2, StoredAll DEF RemoveXattr, Changed
  <2> QED BY <1>1, <2>1, <2>2, <2>3 DEF BackInv, Recorded, TypeOK, Cut, Attributes
<1>5. CASE UNCHANGED <<fake, want>>
  BY <1>1, <1>5 DEF BackInv, Recorded
<1> QED BY <1>3, <1>4, <1>5 DEF Next, vars, Read, Query, Fetch, Start

\* An attribute that was set and not removed since is read as it was set, cut at
\* MAX_XATTR, and one that was removed is gone, although the real file has neither heard
\* of it nor lost it.
THEOREM ReadsBackAlways ==
    ASSUME \A s \in Scenes : Recordable(s)
    PROVE  Spec => []ReadsBack
<1>1. Init => BackInv
  BY TypeInit DEF Init, BackInv, Recorded, Settable
<1>2. BackInv => ReadsBack
  <2> SUFFICES ASSUME BackInv, NEW n \in Names
               PROVE  Found(n) = IF want[n] = None THEN None ELSE Taken(want[n])
    BY XattrsAssumption DEF ReadsBack, Shown, Found, Taken
  <2>1. CASE fake[n] # None
    BY <2>1 DEF BackInv, Recorded, Found
  <2>2. CASE fake[n] = None
    <3>1. Found(n) = want[n] /\ want[n] = scene.real[n]
      BY <2>2 DEF BackInv, Recorded, Found
    <3>2. want[n] # None => /\ want[n] \in [tag : Tags, length : Nat]
                            /\ want[n].length <= MaxXattr
      BY <3>1, ValueTyped DEF BackInv, Recordable, TypeOK, Attributes
    <3>3. want[n] # None => Taken(want[n]) = want[n]
      <4> SUFFICES ASSUME want[n] # None PROVE Taken(want[n]) = want[n]
        OBVIOUS
      <4>1. Smaller(want[n].length, MaxXattr) = want[n].length
        BY <3>2, XattrsAssumption DEF Smaller
      <4> QED BY <3>2, <4>1 DEF Taken
    <3> QED BY <3>1, <3>3
  <2> QED BY <2>1, <2>2
<1> QED BY <1>1, <1>2, BackStep, PTL DEF Spec
-----------------------------------------------------------------------------
(***************************************************************************)
(* What is read is all there is.                                           *)
(***************************************************************************)
\* The scenes in which no real name is lost between two calls: there is none, or one
\* call is made, with a buffer for any list.
Listable(s) ==
    Has(s.real) # {} =>
       ~ s.sized /\ \A names \in SUBSET Names : ~ ListLength(names) > LargeBuffer

\* Where there are real names, lists are read in one call.
InOne ==
    Has(scene.real) # {} =>
       \A p \in Procs : pc[p].reads = List /\ pc[p].step # "idle" =>
          pc[p].step = "fetch" /\ size[p] = LargeBuffer

AllInv == TypeOK /\ Listable(scene) /\ InOne /\ got = shown

\* An answer of listxattr is the list as it is shown, and in one call there is one.
LEMMA ListIs ==
    ASSUME AllInv, NEW n \in Nat, Has(scene.real) # {} => n = LargeBuffer
    PROVE  /\ ListXattr(n) # NoAnswer => ListXattr(n).content = Shown(List)
           /\ Has(scene.real) # {} => ListXattr(n) # NoAnswer
<1>1. PICK names \in SUBSET Names :
         /\ ListXattr(n) \in {NoAnswer, Answer(ListLength(names), names)}
         /\ Has(fake) \subseteq names /\ names \subseteq Has(fake) \cup Has(scene.real)
         /\ n > 0 /\ ListLength(Has(scene.real)) <= n =>
               /\ names = Has(fake) \cup Has(scene.real)
               /\ ListLength(names) <= n => ListXattr(n) # NoAnswer
  BY ListXattrIs
<1>2. CASE Has(scene.real) = {}
  BY <1>1, <1>2 DEF Shown, Answer
<1>3. CASE Has(scene.real) # {}
  <2>1. \A some \in SUBSET Names : ListLength(some) <= n
    BY <1>3, ListLengthTyped, XattrsAssumption DEF AllInv, Listable
  <2>2. n > 0
    BY <1>3, <2>1, HasTyped, ListLengthTyped
  <2> QED BY <1>1, <2>1, <2>2, HasTyped DEF Shown, Answer
<1> QED BY <1>2, <1>3

\* The same for getxattr, with any buffer.
LEMMA ValueIs ==
    ASSUME TypeOK, NEW name \in Names, NEW n \in Nat, GetXattr(name, n) # NoAnswer
    PROVE  GetXattr(name, n).content = Shown(name)
<1>1. Shown(name) = Found(name)
  BY XattrsAssumption DEF Shown, Found
<1>2. GetXattr(name, n) \in {Answer(0, None), Answer(Found(name).length, Found(name))}
      /\ (Found(name) = None => GetXattr(name, n) = Answer(0, None))
  BY GetXattrIs
<1>3. Found(name) # None => GetXattr(name, n) = Answer(Found(name).length, Found(name))
  BY GetXattrIs
<1> QED BY <1>1, <1>2, <1>3 DEF Answer

\* What a read that ends has read.
LEMMA AllEnds ==
    ASSUME AllInv, NEW p \in Procs, NEW n \in Nat, pc[p].step # "idle",
           pc[p].reads = List /\ Has(scene.real) # {} => n = LargeBuffer,
           NEW content, content = AnswerTo(pc[p].reads, n).content,
           AnswerTo(pc[p].reads, n) # NoAnswer,
           Ends(p, content), UNCHANGED <<scene, fake, want, changes>>
    PROVE  InOne' /\ got' = shown'
<1>1. pc[p].reads \in Names \cup {List}
  BY DEF AllInv, TypeOK
<1>2. content = Shown(pc[p].reads)
  <2>1. CASE pc[p].reads = List
    BY <2>1, ListIs DEF AnswerTo
  <2>2. CASE pc[p].reads # List
    BY <1>1, <2>2, ValueIs DEF AnswerTo, AllInv
  <2> QED BY <2>1, <2>2
<1>3. got' = shown'
  BY <1>2 DEF Ends, AllInv
<1>4. InOne'
  BY DEF Ends, Idle, AllInv, InOne, TypeOK
<1> QED BY <1>3, <1>4

\* The other steps of a reader.
LEMMA AllRead ==
    ASSUME AllInv, NEW p \in Procs,
           Read(p) \/ \E reads \in Names \cup {List} : Start(p, reads)
    PROVE  InOne' /\ got' = shown'
<1>1. pc[p].reads \in Names \cup {List} /\ size[p] \in Nat
  BY DEF AllInv, TypeOK
<1>2. ASSUME NEW reads \in Names \cup {List}, Start(p, reads)
      PROVE  InOne' /\ got' = shown'
  <2>1. Has(scene.real) # {} => ~ scene.sized
    BY DEF AllInv, Listable
  <2>2. got' = shown' /\ scene' = scene
    BY <1>2 DEF Start, AllInv
  <2>3. \A q \in Procs \ {p} : pc'[q] = pc[q] /\ size'[q] = size[q]
    BY <1>2 DEF Start, AllInv, TypeOK
  <2>4. ~ scene.sized => pc'[p].step = "fetch" /\ size'[p] = LargeBuffer
    BY <1>2 DEF Start, AllInv, TypeOK
  <2>5. Has(scene.real)' = Has(scene.real)
    BY <2>2 DEF Has
  <2> QED BY <2>1, <2>2, <2>3, <2>4, <2>5 DEF AllInv, InOne
<1>3. ASSUME Query(p) PROVE InOne' /\ got' = shown'
  <2>1. pc[p].step = "query" /\ UNCHANGED <<scene, fake, want, changes>>
    BY <1>3 DEF Query
  <2>2. pc[p].reads = List => Has(scene.real) = {}
    BY <2>1 DEF AllInv, InOne
  <2>3. AnswerTo(pc[p].reads, 0) # NoAnswer
    BY <1>1, AnswerTyped DEF AllInv
  <2>4. CASE Ends(p, AnswerTo(pc[p].reads, 0).content)
    BY <2>1, <2>2, <2>3, <2>4, AllEnds
  <2>5. CASE /\ pc' = [pc EXCEPT ![p].step = "fetch"]
             /\ \E n : size' = [size EXCEPT ![p] = n]
             /\ UNCHANGED <<got, shown>>
    <3>1. pc'[p].reads = pc[p].reads /\ \A q \in Procs \ {p} : pc'[q] = pc[q] /\ size'[q] = size[q]
      BY <2>5 DEF AllInv, TypeOK
    <3>2. Has(scene.real)' = Has(scene.real)
      BY <2>1 DEF Has
    <3> QED BY <2>1, <2>2, <2>5, <3>1, <3>2 DEF AllInv, InOne
  <2> QED BY <1>3, <2>4, <2>5 DEF Query
<1>4. ASSUME Fetch(p) PROVE InOne' /\ got' = shown'
  <2>1. pc[p].step = "fetch" /\ UNCHANGED <<scene, fake, want, changes>>
    BY <1>4 DEF Fetch
  <2>2. pc[p].reads = List /\ Has(scene.real) # {} => size[p] = LargeBuffer
    BY <2>1 DEF AllInv, InOne
  <2>3. CASE AnswerTo(pc[p].reads, size[p]) = NoAnswer
    <3>1. pc[p].reads = List => Has(scene.real) = {}
      BY <1>1, <2>2, <2>3, ListIs DEF AnswerTo
    <3>2. pc'[p].reads = pc[p].reads /\ (\A q \in Procs \ {p} : pc'[q] = pc[q]) /\ size' = size
      BY <1>4, <2>3 DEF Fetch, AllInv, TypeOK
    <3>3. Has(scene.real)' = Has(scene.real)
      BY <2>1 DEF Has
    <3>4. got' = shown'
      BY <1>4, <2>3 DEF Fetch, AllInv
    <3> QED BY <2>1, <3>1, <3>2, <3>3, <3>4 DEF AllInv, InOne
  <2>4. CASE AnswerTo(pc[p].reads, size[p]) # NoAnswer
    <3>1. Ends(p, AnswerTo(pc[p].reads, size[p]).content)
      BY <1>4, <2>4 DEF Fetch
    <3> QED BY <1>1, <2>1, <2>2, <2>4, <3>1, AllEnds
  <2> QED BY <2>3, <2>4
<1> QED BY <1>2, <1>3, <1>4 DEF Read

\* Every step keeps it.
LEMMA AllStep == AllInv /\ [Next]_vars => AllInv'
<1> SUFFICES ASSUME AllInv, [Next]_vars PROVE AllInv'
  OBVIOUS
<1>1. TypeOK' /\ scene' = scene
  BY TypeStep DEF AllInv, Next, vars, SetXattr, RemoveXattr, Changed, Read, Query, Fetch, Start
<1>2. Listable(scene)'
  BY <1>1 DEF AllInv
<1>3. CASE UNCHANGED <<scene, pc, size, got, shown>>
  BY <1>1, <1>2, <1>3 DEF AllInv, InOne, Has
<1> QED BY <1>1, <1>2, <1>3, AllRead DEF Next, vars, SetXattr, RemoveXattr, Changed, AllInv

\* A program that asks for the size first, and one that does not, reads every name and
\* the whole value, whatever is set and removed between its calls.
THEOREM ReadsAllAlways ==
    ASSUME \A s \in Scenes : Listable(s)
    PROVE  Spec => []ReadsAll
<1>1. Init => AllInv
  BY TypeInit DEF Init, AllInv, InOne, Idle
<1>2. AllInv => ReadsAll
  BY DEF AllInv, ReadsAll
<1> QED BY <1>1, <1>2, AllStep, PTL DEF Spec
=============================================================================
