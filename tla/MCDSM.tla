------------------------------- MODULE MCDSM -------------------------------
(* Instances of DSM for TLC: three machines, two of which run workers: two    *)
(* threads on one, one on the other.  One setup has splits, one an acquirer   *)
(* too many for a hand-over, and one a search.                                *)
EXTENDS DSM, TLC

CONSTANT r1

MCHome == [t \in Threads |-> IF t = 3 THEN 1 ELSE 0]

Setup(first, second, search, splits) ==
  [limit |-> 0 :> first @@ 1 :> second, search |-> search, splits |-> splits]

Split == [t \in Threads |-> IF t = 3 THEN 3 ELSE 1]

NoSplit == [t \in Threads |-> 0]

MCSetups ==
  {Setup(1, 1, FALSE, Split), Setup(3, 1, FALSE, NoSplit), Setup(2, 0, TRUE, NoSplit)}
=============================================================================
