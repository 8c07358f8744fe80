------------------------------- MODULE Xattrs -------------------------------
(***************************************************************************)
(* Extended attributes of one file (fake_setxattr, fake_getxattr,          *)
(* fake_listxattr and fake_removexattr of ownership.rs, and the hooks of   *)
(* platform/linux.rs and macos.rs that call them).                         *)
(*                                                                         *)
(* setxattr and removexattr change the fake attributes in the file's       *)
(* entry, and never the real ones; getxattr looks at the fake ones first;  *)
(* listxattr makes the real call and merges the fake names into what it    *)
(* has written.  Programs read in two calls: one of size 0 and without a   *)
(* buffer that asks for the size, and one with a buffer of that size, and  *)
(* start again when the second returns ERANGE.                             *)
(*                                                                         *)
(* A value or a list is known by what it is and its length.  A call whose  *)
(* file cannot be found, or whose name is no text, changes nothing and is  *)
(* left out.                                                               *)
(***************************************************************************)
EXTENDS Naturals, FiniteSets, FiniteSetsExt

CONSTANTS Procs,
          Names,
          NameLength,  \* of each name, with the byte that ends it
          Tags,        \* what values say
          Lengths,     \* their lengths, as setxattr is given them
          MaxXattr,    \* MAX_XATTR
          PageSize,    \* room for the values in a slot's xattr page
          LargeBuffer,
          None,        \* no attribute
          NoAnswer,    \* ERANGE
          MaxChanges,  \* bound on setxattr and removexattr
          Scenes

Value == [tag : Tags, length : Lengths \cup {MaxXattr}]
Attributes == [Names -> Value \cup {None}]
Cut == [Names -> [tag : Tags, length : 0 .. MaxXattr] \cup {None}]

Scene == [real : Attributes,      \* what the file has in fact
          sized : BOOLEAN,        \* two calls, or one with a large buffer
          page : BOOLEAN,         \* the entry is in the shared table
          removes : SUBSET Names] \* what is removed

List == "list"   \* what listxattr reads

ASSUME XattrsAssumption ==
    /\ IsFiniteSet(Names) /\ List \notin Names
    /\ NameLength \in [Names -> Nat \ {0}]
    /\ Lengths \subseteq Nat /\ MaxXattr \in Nat /\ PageSize \in Nat
    /\ LargeBuffer \in Nat /\ MaxChanges \in Nat
    /\ Scenes \subseteq Scene
    /\ None \notin [tag : Tags, length : Nat]
    /\ NoAnswer \notin [length : Nat,
                        content : (SUBSET Names) \cup [tag : Tags, length : Nat] \cup {None}]

VARIABLES scene,
          fake,     \* the attributes in the file's entry
          pc,       \* what each process reads: a list, or the value of a name
          size,     \* the buffer it has made
          got,      \* what its last read has returned
          shown,    \* history: what it should have
          want,     \* history: the attributes as last set and removed
          changes   \* history: how often

vars == <<scene, fake, pc, size, got, shown, want, changes>>

TypeOK ==
    /\ scene \in Scenes
    /\ fake \in Cut
    /\ pc \in [Procs -> [reads : Names \cup {List}, step : {"idle", "query", "fetch"}]]
    /\ size \in [Procs -> Nat]
    /\ want \in Attributes
    /\ changes \in 0 .. MaxChanges

Idle == [reads |-> List, step |-> "idle"]

Init ==
    /\ scene \in Scenes
    /\ fake = [n \in Names |-> None]
    /\ pc = [p \in Procs |-> Idle]
    /\ size = [p \in Procs |-> 0]
    /\ got = [p \in Procs |-> {}] /\ shown = [p \in Procs |-> {}]
    /\ want = scene.real
    /\ changes = 0

Has(attributes) == {n \in Names : attributes[n] # None}
ListLength(names) == MapThenSumSet(LAMBDA n : NameLength[n], names)
PageLength(attributes) == MapThenSumSet(LAMBDA n : attributes[n].length, Has(attributes))
-----------------------------------------------------------------------------
(***************************************************************************)
(* setxattr and removexattr.                                               *)
(***************************************************************************)
Smaller(a, b) == IF a < b THEN a ELSE b

\* Faulty variant: the value is not cut.
Taken_Whole(value) == value

\* read_xattr_value.
Taken(value) == [value EXCEPT !.length = Smaller(@, MaxXattr)]

\* An entry whose attributes do not fit its page loses them.
Stored(attributes) ==
    IF scene.page /\ PageLength(attributes) > PageSize
    THEN [n \in Names |-> None]
    ELSE attributes

Changed(n, v) ==
    /\ changes < MaxChanges
    /\ changes' = changes + 1
    /\ want' = [want EXCEPT ![n] = v]
    /\ UNCHANGED <<scene, pc, size, got, shown>>

\* Faulty variant: the attributes of a new entry are kept, not those of the old one.
SetXattr_Alone(n, v) ==
    /\ fake' = Stored([m \in Names |-> IF m = n THEN Taken(v) ELSE None])
    /\ Changed(n, v)

SetXattr(n, v) ==
    /\ fake' = Stored([fake EXCEPT ![n] = Taken(v)])
    /\ Changed(n, v)

RemoveXattr(n) ==
    /\ n \in scene.removes
    /\ fake' = Stored([fake EXCEPT ![n] = None])
    /\ Changed(n, None)
-----------------------------------------------------------------------------
(***************************************************************************)
(* The answers of getxattr and listxattr for a buffer of n bytes: the      *)
(* length and, when n is not 0, the content.                               *)
(***************************************************************************)
Answer(length, content) == [length |-> length, content |-> content]

\* write_xattr_value and write_xattr_list; the file system's calls are alike.
Written(length, content, n) ==
    IF n > 0 /\ length > n THEN NoAnswer ELSE Answer(length, content)

\* fake_getxattr.
GetXattr(name, n) ==
    LET value == IF fake[name] # None THEN fake[name] ELSE scene.real[name] IN
    IF value = None THEN Answer(0, None)    \* ENODATA
    ELSE Written(value.length, value, n)

\* Faulty variant: only the fake names are returned when there are any.
ListXattr_Fake(n) ==
    LET names == IF Has(fake) = {} THEN Has(scene.real) ELSE Has(fake) IN
    Written(ListLength(names), names, n)

\* Faulty variant: a query does not count the byte that ends a name.
ListXattr_Short(n) ==
    LET names == Has(scene.real) \cup Has(fake) IN
    IF n = 0 THEN Answer(ListLength(names) - Cardinality(names), names)
    ELSE Written(ListLength(names), names, n)

\* fake_listxattr.  The names the real call has found are merged only when it has
\* written them.
ListXattr(n) ==
    LET real == Written(ListLength(Has(scene.real)), Has(scene.real), n)
        written == IF n > 0 /\ real # NoAnswer THEN real.content ELSE {}
        merged == written \cup Has(fake)
    IN  IF Has(fake) = {} THEN real ELSE Written(ListLength(merged), merged, n)

AnswerTo(reads, n) == IF reads = List THEN ListXattr(n) ELSE GetXattr(reads, n)

\* What there is to read: fake attributes, and real ones where there is no fake.
Shown(reads) ==
    IF reads = List THEN Has(scene.real) \cup Has(fake)
    ELSE IF fake[reads] # None THEN fake[reads] ELSE scene.real[reads]
-----------------------------------------------------------------------------
(***************************************************************************)
(* A process that reads.                                                   *)
(***************************************************************************)
Start(p, reads) ==
    /\ pc[p] = Idle
    /\ pc' = [pc EXCEPT ![p] = [reads |-> reads, step |-> IF scene.sized THEN "query" ELSE "fetch"]]
    /\ size' = [size EXCEPT ![p] = IF scene.sized THEN 0 ELSE LargeBuffer]
    /\ UNCHANGED <<scene, fake, got, shown, want, changes>>

Ends(p, content) ==
    /\ pc' = [pc EXCEPT ![p] = Idle]
    /\ size' = [size EXCEPT ![p] = 0]
    /\ got' = [got EXCEPT ![p] = content]
    /\ shown' = [shown EXCEPT ![p] = Shown(pc[p].reads)]

\* There is nothing to be read when the size is 0.
Query(p) ==
    LET answer == AnswerTo(pc[p].reads, 0) IN
    /\ pc[p].step = "query"
    /\ IF answer.length = 0
       THEN Ends(p, answer.content)
       ELSE /\ pc' = [pc EXCEPT ![p].step = "fetch"]
            /\ size' = [size EXCEPT ![p] = answer.length]
            /\ UNCHANGED <<got, shown>>
    /\ UNCHANGED <<scene, fake, want, changes>>

Fetch(p) ==
    LET answer == AnswerTo(pc[p].reads, size[p]) IN
    /\ pc[p].step = "fetch"
    /\ IF answer = NoAnswer
       THEN /\ pc' = [pc EXCEPT ![p].step = "query"]
            /\ UNCHANGED <<size, got, shown>>
       ELSE Ends(p, answer.content)
    /\ UNCHANGED <<scene, fake, want, changes>>

Read(p) == Query(p) \/ Fetch(p)

Next ==
    \/ \E n \in Names, t \in Tags, l \in Lengths : SetXattr(n, [tag |-> t, length |-> l])
    \/ \E n \in Names : RemoveXattr(n)
    \/ \E p \in Procs : Read(p) \/ \E reads \in Names \cup {List} : Start(p, reads)

Spec == Init /\ [][Next]_vars

\* A program that has begun to read goes on.
FairSpec == Spec /\ \A p \in Procs : WF_vars(Read(p))
-----------------------------------------------------------------------------
(***************************************************************************)
(* Properties.                                                             *)
(***************************************************************************)
\* An attribute reads as it was last set, cut at MAX_XATTR, and is gone when it was
\* removed.
ReadsBack ==
    \A n \in Names :
       Shown(n) = IF want[n] = None THEN None ELSE [want[n] EXCEPT !.length = Smaller(@, MaxXattr)]

\* What a program has read is what there was: every name, the whole value.
ReadsAll == \A p \in Procs : got[p] = shown[p]

\* A program that reads gets an answer.
ReadsEnd == \A p \in Procs : pc[p] # Idle ~> pc[p] = Idle
=============================================================================
