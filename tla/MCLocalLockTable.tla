------------------------- MODULE MCLocalLockTable -------------------------
(* Small workloads of LocalLockTable: threads 1, 2, 3 on keys of one hash.    *)
EXTENDS LocalLockTable

R(k) == [side |-> "read", key |-> k, val |-> "v1"]
W(k, v) == [side |-> "write", key |-> k, val |-> v]

MixedWork == << <<W("k", "v1"), R("k")>>, <<R("k")>>, <<R("l")>> >>
BothWork == << <<W("k", "v1"), R("k")>>, <<R("k"), W("k", "v2")>>, <<W("l", "v3")>> >>
MCWorks == {MixedWork, BothWork}
=============================================================================
