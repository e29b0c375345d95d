---------------------------- MODULE MCBufferPool ----------------------------
(* Three frames for two inner pages and two leaves, a cooling table of two     *)
(* buckets with one entry each: every load samples, cools, promotes or evicts. *)
EXTENDS BufferPool, TLC

CONSTANTS t1, t2, f1, f2, f3, n1, n2, l1, l2, b1, b2

(* One inner page for each leaf. *)
MCWide == [l \in Leaves |-> IF l = l1 THEN n1 ELSE n2]

(* Inner pages and leaves in buckets of their own. *)
MCHash == [c \in Inners \cup Leaves |-> IF c \in Inners THEN b1 ELSE b2]

MCSymmetry == Permutations(Threads) \cup Permutations(Frames)
=============================================================================
