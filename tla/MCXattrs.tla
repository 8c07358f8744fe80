------------------------------ MODULE MCXattrs ------------------------------
(***************************************************************************)
(* Instances of Xattrs for TLC: a short and a long name, values that are   *)
(* shorter than, as long as and longer than the limit, up to four changes. *)
(***************************************************************************)
EXTENDS Xattrs

CONSTANTS short, long, x, y

NameLengths == [n \in {short, long} |-> IF n = short THEN 2 ELSE 5]
NoReal == [n \in {short, long} |-> None]
Real(n) == [NoReal EXCEPT ![n] = [tag |-> x, length |-> 3]]

Plain == [real |-> NoReal, sized |-> TRUE, page |-> FALSE, removes |-> {short, long}]

\* No real attributes, two calls; or real ones, that are not removed, and one call
\* with a large buffer.
Sound == {Plain} \cup {[Plain EXCEPT !.real = Real(n), !.sized = FALSE, !.removes = Names \ {n}] :
                          n \in {short, long}}

\* Real attributes and two calls.
Both(n) == {[Plain EXCEPT !.real = Real(n), !.removes = Names \ {n}]}
BothShort == Both(short)
BothLong == Both(long)
\* A real attribute is removed.
RemoveReal == {[Plain EXCEPT !.real = Real(short)]}
\* The table's page is full.
Overflow == {[Plain EXCEPT !.page = TRUE]}
=============================================================================
