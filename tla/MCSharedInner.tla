--------------------------- MODULE MCSharedInner ---------------------------
(* Two compute nodes on two trees.                                          *)
EXTENDS SharedInner

CONSTANTS a, b

Page(seps, max) ==
    [ver |-> 0, seps |-> seps, max |-> max, shared |-> TRUE, dirty |-> FALSE, parent |-> None]

\* One shared level-1 node over both partitions: its root split, the split of
\* the half that stays shared, and the halves that become private.
OneShared ==
    [left |-> (a :> 0) @@ (b :> 5), right |-> (a :> 5) @@ (b :> MaxKey),
     splits |-> (a :> {1, 3}) @@ (b :> {5}),
     pages |-> (<<1, 0>> :> Page({2, 4, 6}, MaxKey)), root |-> <<1, 0>>,
     evictable |-> {}]

\* A full private node and a full shared node below one shared root, and pools
\* that evict nodes of level 1.
BelowShared ==
    [left |-> (a :> 0) @@ (b :> 9), right |-> (a :> 9) @@ (b :> MaxKey),
     splits |-> (a :> {5, 7}) @@ (b :> {11}),
     pages |-> (<<2, 0>> :> Page({6}, MaxKey))
               @@ (<<1, 0>> :> [Page({1, 2, 3, 4}, 6) EXCEPT !.shared = FALSE])
               @@ (<<1, 6>> :> Page({8, 10, 12, 13}, MaxKey)),
     root |-> <<2, 0>>,
     evictable |-> {n \in Addr : level(n) = 1}]

MCSetups == {OneShared, BelowShared}
=============================================================================
