---------------------------- MODULE MCChimeLeaf ----------------------------
(* Three keys and the ghost key.  In five slots an insert that has read four   *)
(* of them hops, and four keys of one home split the leaf; in four slots with  *)
(* neighbourhoods of two the third one does, and the fourth meets the halves.  *)
EXTENDS ChimeLeaf

MCKeys == 1..4
MCShapes ==
  {[span |-> 5, neighbor |-> 3, buckets |-> 3, ghost |-> g] : g \in {0, 3}}
    \cup {[span |-> 4, neighbor |-> 2, buckets |-> 3, ghost |-> g] : g \in {0, 2}}
=============================================================================
