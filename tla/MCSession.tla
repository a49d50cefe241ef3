------------------------------ MODULE MCSession ------------------------------
\* Instances of Session for TLC: two tabs with a request each, one tab with two
\* requests, or one request.
EXTENDS Session, TLC

CONSTANTS t1, t2, a, b

TwoTabs    == a :> t1 @@ b :> t2
OneTab     == a :> t1 @@ b :> t1
OneRequest == a :> t1

\* Users are alike, and so are two tabs with their requests.
Swap(x, y) == [z \in {x, y} |-> IF z = x THEN y ELSE x]
TabSwaps == {Swap(a, a) @@ Swap(b, b) @@ Swap(t1, t1) @@ Swap(t2, t2),
             Swap(a, b) @@ Swap(t1, t2)}
Symmetry == {p @@ q : p \in Permutations(User), q \in TabSwaps}
=============================================================================
