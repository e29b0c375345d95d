------------------------- MODULE MCShermanTree -------------------------
(* Small trees for ShermanTree.                                            *)
EXTENDS ShermanTree

CONSTANTS t1, t2, t3, n1, n2, v1, v2

put(k, v) == [op |-> "insert", key |-> k, val |-> v]

get(k) == [op |-> "search", key |-> k, val |-> Null]

remove(k) == [op |-> "del", key |-> k, val |-> Null]

range(from, to) == [op |-> "range", key |-> from, val |-> to]

MCnode == (t1 :> n1) @@ (t2 :> n1) @@ (t3 :> n2)

\* An empty tree that three threads of two compute nodes fill.
Empty ==
    [pages |-> (1 :> Page(0, 0, MaxKey, Null, << >>)), root |-> 1,
     work |-> (t1 :> {put(1, v1), put(2, v1)}) @@ (t2 :> {put(3, v1)})
              @@ (t3 :> {get(1), put(4, v2)})]

\* A tree of three levels with the index caches in use.
ThreeLevels ==
    [pages |-> (1 :> Page(0, 0, 2, 2, (0 :> v1)))
               @@ (2 :> Page(0, 2, 4, 4, (2 :> v1)))
               @@ (3 :> Page(1, 0, 4, 6, (0 :> 1) @@ (2 :> 2)))
               @@ (4 :> Page(0, 4, 6, 5, (4 :> v1)))
               @@ (5 :> Page(0, 6, MaxKey, Null, (6 :> v1)))
               @@ (6 :> Page(1, 4, MaxKey, Null, (4 :> 4) @@ (6 :> 5)))
               @@ (7 :> Page(2, 0, MaxKey, Null, (0 :> 3) @@ (4 :> 6))),
     root |-> 7,
     work |-> (t1 :> {put(1, v2), get(3)}) @@ (t2 :> {})
              @@ (t3 :> {put(3, v2), put(1, v1), remove(0)})]

\* A range query of a compute node that has cached a page, while leaves are split.
Scan ==
    [ThreeLevels EXCEPT !.work = (t1 :> {put(1, v2)}) @@ (t2 :> {range(1, 4)})
                                 @@ (t3 :> {put(3, v2)})]

MCSetups == {Empty, ThreeLevels, Scan}
=============================================================================
