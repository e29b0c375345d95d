----------------------------- MODULE MCPageTable -----------------------------
(* Without pushdown, four addresses share buckets of two slots, so that the   *)
(* chain grows and shrinks; with pushdown, three addresses fit in the head    *)
(* bucket, where count_ decides nothing.                                      *)
EXTENDS PageTable, TLC

CONSTANTS t1, t2, p1, p2, p3, n1, s1, l1, l2

MCAbove == [l \in Leaves |-> n1]
MCBuilds == {[slots |-> 2, rpc |-> FALSE, keys |-> {n1, s1, l1, l2}],
             [slots |-> 3, rpc |-> TRUE, keys |-> {n1, l1, l2}]}
MCSymmetry == Permutations(Threads) \cup Permutations(Pages)
=============================================================================
