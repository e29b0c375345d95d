------------------------------ MODULE MCDexOps ------------------------------
(* Small trees for DexOps. *)
EXTENDS DexOps

CONSTANTS t1, t2, v1, v2

put(k, v) == [op |-> "insert", key |-> k, val |-> v]

update(k, v) == [op |-> "update", key |-> k, val |-> v]

get(k) == [op |-> "search", key |-> k, val |-> Null]

del(k) == [op |-> "del", key |-> k, val |-> Null]

scan(k, n) == [op |-> "scan", key |-> k, val |-> n]

\* A root, one inner page below it and two leaves.
Tree(left, right) ==
  (1 :> Inner(2, (MaxKey :> 2)))
  @@ (2 :> Inner(1, (2 :> 3) @@ (MaxKey :> 4)))
  @@ (3 :> Leaf(0, 2, left))
  @@ (4 :> Leaf(2, MaxKey, right))

\* The left leaf is full and splits while its other keys are updated and removed.
Splitting ==
  [pages |-> Tree((0 :> v1) @@ (2 :> v1), (4 :> v1)),
   work |-> (t1 :> <<put(1, v2), get(2)>>) @@ (t2 :> <<update(2, v2), del(0)>>)]

\* A scan through both leaves, which are updated and evicted meanwhile.
Scanning ==
  [pages |-> Tree((1 :> v1) @@ (2 :> v1), (3 :> v1) @@ (4 :> v1)),
   work |-> (t1 :> <<scan(1, 4)>>) @@ (t2 :> <<update(3, v2)>>)]

MCSetups == {Splitting, Scanning}
=============================================================================
