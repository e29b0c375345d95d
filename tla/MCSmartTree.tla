---------------------------- MODULE MCSmartTree ----------------------------
(* Small radix trees for SmartTree.                                        *)
EXTENDS SmartTree

CONSTANTS t1, t2, t3, n1, n2, v1, v2

put(k, v) == [op |-> "insert", key |-> k, val |-> v]

get(k) == [op |-> "search", key |-> k, val |-> Null]

range(from, to) == [op |-> "range", key |-> from, val |-> to]

MCnode == (t1 :> n1) @@ (t2 :> n2) @@ (t3 :> n2)

\* An empty tree without caches, and keys that share two bytes, more than a header
\* has room for.
Empty ==
    [mem |-> (0 :> RootPage(Null)), room |-> 0,
     work |-> (t1 :> {put(<<0, 1, 0>>, v1), get(<<0, 1, 1>>)})
              @@ (t2 :> {put(<<0, 1, 1>>, v1)})
              @@ (t3 :> {put(<<0, 1, 1>>, v2)})]

\* A full node whose keys share their first byte.
Full ==
    [mem |-> (0 :> RootPage(NodeEntry(0, 1, 1)))
             @@ (1 :> InternalPage(Header(<<0, 0, 0>>, 1, 1, 1), RootPtr,
                                   [s \in 0..2 |-> LeafEntry(s, s + 2)]))
             @@ [a \in 2..4 |-> Leaf(<<0, a - 2, 0>>, v1, <<1, a - 2>>)],
     room |-> 1,
     work |-> (t1 :> {put(<<0, 3, 0>>, v1)}) @@ (t2 :> {put(<<1, 0, 0>>, v1)})
              @@ (t3 :> {get(<<0, 3, 0>>)})]

\* Two levels of nodes, of which the lower one is cached when it is met.
Two ==
    [mem |-> (0 :> RootPage(NodeEntry(0, 1, 1)))
             @@ (1 :> InternalPage(Header(<<0, 0, 0>>, 0, 1, 1), RootPtr,
                                   (0 :> NodeEntry(0, 1, 2)) @@ (1 :> LeafEntry(1, 3))))
             @@ (2 :> InternalPage(Header(<<0, 0, 0>>, 0, 2, 1), <<1, 0>>,
                                   (0 :> LeafEntry(0, 4)) @@ (1 :> LeafEntry(1, 5))))
             @@ (3 :> Leaf(<<1, 0, 0>>, v1, <<1, 1>>))
             @@ (4 :> Leaf(<<0, 0, 0>>, v1, <<2, 0>>))
             @@ (5 :> Leaf(<<0, 1, 0>>, v1, <<2, 1>>)),
     room |-> 2,
     work |-> (t1 :> {get(<<0, 1, 0>>), put(<<0, 0, 0>>, v2)})
              @@ (t2 :> {put(<<0, 0, 1>>, v1), get(<<0, 0, 0>>)})
              @@ (t3 :> {get(<<0, 1, 0>>)})]

\* Range queries while slots are taken behind a full node, while a header is split, and
\* while a leaf becomes a node.
BehindScan ==
    [Full EXCEPT !.work = (t1 :> {put(<<0, 3, 0>>, v1)}) @@ (t2 :> {})
                          @@ (t3 :> {range(<<0, 1, 0>>, <<0, 3, 0>>)})]

HeaderScan ==
    [Full EXCEPT !.work = (t1 :> {put(<<1, 0, 0>>, v1)}) @@ (t2 :> {get(<<0, 1, 0>>)})
                          @@ (t3 :> {range(<<0, 1, 0>>, <<0, 2, 0>>)})]

TwoScan ==
    [Two EXCEPT !.work = (t1 :> {put(<<0, 0, 1>>, v1)}) @@ (t2 :> {})
                         @@ (t3 :> {range(<<0, 0, 0>>, <<0, 1, 0>>), range(<<0, 1, 0>>, <<1, 0, 0>>)})]

MCKeys ==
    {<<0, s, 0>> : s \in 0..3} \cup {<<0, 0, 1>>, <<0, 1, 1>>, <<0, 3, 1>>, <<1, 0, 0>>}

MCSetups == {Empty, Full, Two, BehindScan, HeaderScan, TwoScan}
=============================================================================
