-------------------------- MODULE MCChimeTree --------------------------
(* Small trees for ChimeTree.  The ghost key MaxKey-1 is in the last leaf. *)
EXTENDS ChimeTree

CONSTANTS t1, t2, t3, n1, n2, v1, v2

put(k, v) == [op |-> "insert", key |-> k, val |-> v]

set(k, v) == [op |-> "update", key |-> k, val |-> v]

get(k) == [op |-> "search", key |-> k, val |-> Null]

range(from, to) == [op |-> "range", key |-> from, val |-> to]

MCnode == (t1 :> n1) @@ (t2 :> n1) @@ (t3 :> n2)

\* The tree as it is created: one leaf with the ghost key.
Empty ==
    [pages |-> (1 :> Leaf(Widest, (MaxKey - 1) :> Null)), root |-> [level |-> 1, addr |-> 1],
     work |-> (t1 :> {put(2, v1), put(3, v1)}) @@ (t2 :> {put(1, v2)})
              @@ (t3 :> {put(4, v1)})]

\* A tree with two levels of internal nodes, one of them full.
FullInner ==
    [pages |-> (1 :> Leaf(2, (1 :> v1) @@ (2 :> v1)))
               @@ (2 :> Leaf(3, (4 :> v1) @@ (5 :> v1)))
               @@ (3 :> Leaf(4, (6 :> v1)))
               @@ (4 :> Leaf(5, (7 :> v1) @@ (9 :> v1)))
               @@ (5 :> Leaf(6, (11 :> v1)))
               @@ (6 :> Leaf(Null, (MaxKey - 1) :> Null))
               @@ (7 :> Inner(1, 0, 10, 8, (0 :> 1) @@ (3 :> 2) @@ (6 :> 3) @@ (7 :> 4), 5))
               @@ (8 :> Inner(1, 10, MaxKey, Null, (10 :> 5) @@ (12 :> 6), Null))
               @@ (9 :> Inner(2, 0, MaxKey, Null, (0 :> 7) @@ (10 :> 8), Null)),
     root |-> [level |-> 3, addr |-> 9],
     work |-> (t1 :> {put(3, v2)}) @@ (t2 :> {put(8, v2), get(3)})
              @@ (t3 :> {})]

\* A range query from a cached node while another compute node splits a leaf.
Scan ==
    [FullInner EXCEPT !.work = (t1 :> {set(5, v2)}) @@ (t2 :> {range(2, 5)}) @@ (t3 :> {put(3, v2)})]

MCSetups == {Empty, FullInner, Scan}
=============================================================================
