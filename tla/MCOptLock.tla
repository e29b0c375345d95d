----------------------------- MODULE MCOptLock -----------------------------
(***************************************************************************)
(* Three threads on one page of two fields.  Words up to MaxWord allow the *)
(* initial lock and two further lock sessions, so that a version can go    *)
(* stale twice under a slow reader.                                        *)
(***************************************************************************)
EXTENDS OptLock, TLC

Symmetric == Permutations(Threads) \cup Permutations(Fields)
=============================================================================
